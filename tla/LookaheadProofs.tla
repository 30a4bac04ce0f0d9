---- MODULE LookaheadProofs ----
(***************************************************************************)
(* Proofs about a runtime's calls, for any finite set of node ids, any     *)
(* graphs, depths and limit, and any policy.  The recorder is driven here  *)
(* by the decisions that run_traversal builds, so that more holds of its   *)
(* log than ReplayRecorderProofs shows for any caller.                     *)
(***************************************************************************)
EXTENDS Lookahead, ReplayRecorderProofs, InductionLemmas

USE LookaheadAssumption, ConstantsAssumption

----
(* The operators: how many candidates are shown.                           *)

\* The k first of a set are no more than k.
LEMMA TopBound ==
    ASSUME NEW S, IsFiniteSet(S), NEW rank, IsRanking(rank, S), \A n \in S : rank[n] \in Nat,
           NEW k \in Int
    PROVE  /\ Top(S, rank, k) \in SUBSET S
           /\ IsFiniteSet(Top(S, rank, k))
           /\ Cardinality(Top(S, rank, k)) \in Nat
           /\ Cardinality(Top(S, rank, k)) <= IF k > 0 THEN k ELSE 0
<1> DEFINE Before(n) == {m \in S : rank[m] < rank[n]}
           top == Top(S, rank, k)
           place == [n \in top |-> Cardinality(Before(n))]
<1>1. \A n \in S : IsFiniteSet(Before(n)) /\ Cardinality(Before(n)) \in Nat
  <2> TAKE n \in S
  <2>1. Before(n) \in SUBSET S
    OBVIOUS
  <2> HIDE DEF Before
  <2> QED
    BY <2>1, FS_Subset, FS_CardinalityType
<1>2. \A m, n \in S : rank[m] < rank[n] => Cardinality(Before(m)) < Cardinality(Before(n))
  <2> SUFFICES ASSUME NEW m \in S, NEW n \in S, rank[m] < rank[n]
               PROVE  Cardinality(Before(m)) < Cardinality(Before(n))
    OBVIOUS
  <2>1. Before(m) \in SUBSET Before(n)
    OBVIOUS
  <2>2. m \in Before(n) /\ m \notin Before(m)
    OBVIOUS
  <2> HIDE DEF Before
  <2>3. Before(m) # Before(n)
    BY <2>2
  <2> QED
    BY <1>1, <2>1, <2>3, ProperSubset
<1>3. top \in SUBSET S /\ \A n \in top : Cardinality(Before(n)) < k
  BY DEF Top
<1>4. IsFiniteSet(top) /\ Cardinality(top) \in Nat
  <2> HIDE DEF top
  <2> QED
    BY <1>3, FS_Subset, FS_CardinalityType
<1>5. CASE k > 0
  <2>1. place \in [top -> 0..(k-1)]
    <3> HIDE DEF Before, top
    <3> QED
      BY <1>1, <1>3, <1>5
  <2>2. \A m, n \in top : place[m] = place[n] => m = n
    <3> SUFFICES ASSUME NEW m \in top, NEW n \in top, m # n PROVE place[m] # place[n]
      OBVIOUS
    <3>1. m \in S /\ n \in S
      BY <1>3
    <3>2. rank[m] < rank[n] \/ rank[n] < rank[m]
      BY <3>1 DEF IsRanking
    <3>3. place[m] = Cardinality(Before(m)) /\ place[n] = Cardinality(Before(n))
      OBVIOUS
    <3> HIDE DEF Before, top, place
    <3> QED
      BY <1>1, <1>2, <3>1, <3>2, <3>3
  <2>3. place \in Injection(top, 0..(k-1))
    BY <2>1, <2>2 DEF Injection, IsInjective
  <2>4. IsFiniteSet(0..(k-1)) /\ Cardinality(0..(k-1)) = k
    BY <1>5, FS_Interval
  <2> HIDE DEF top, place
  <2>5. Cardinality(top) <= k
    BY <2>3, <2>4, FS_Injection
  <2> QED
    BY <1>3, <1>4, <1>5, <2>5 DEF top
<1>6. CASE ~(k > 0)
  <2>1. top = {}
    <3> HIDE DEF Before
    <3> QED
      BY <1>1, <1>3, <1>6
  <2>2. Cardinality(top) = 0
    BY <2>1, FS_EmptySet
  <2> QED
    BY <1>3, <1>4, <1>6, <2>2
<1> QED
  BY <1>5, <1>6

\* An anchor decision shows no more candidates than the limit.
LEMMA VisibleAnchorsBound ==
    ASSUME NEW d \in AnchorDecision
    PROVE  /\ IsFiniteSet(VisibleAnchors(d))
           /\ Cardinality(VisibleAnchors(d)) <= MaxVisiblePending
<1> DEFINE first == Top(d.candidates, d.rank, MaxVisiblePending)
           less == Top(d.candidates, d.rank, MaxVisiblePending - 1)
<1>1. /\ d.candidates \in SUBSET Node /\ IsFiniteSet(d.candidates) /\ IsRanking(d.rank, d.candidates)
      /\ \A n \in d.candidates : d.rank[n] \in Nat
  BY DEF AnchorDecision
<1>2. IsFiniteSet(first) /\ Cardinality(first) <= MaxVisiblePending
  BY <1>1, TopBound
<1>3. IsFiniteSet(less) /\ Cardinality(less) \in Nat /\ Cardinality(less) <= MaxVisiblePending - 1
  BY <1>1, TopBound
<1> HIDE DEF first, less
<1>4. /\ IsFiniteSet(less \union {d.selected})
      /\ Cardinality(less \union {d.selected}) <= MaxVisiblePending
  <2> DEFINE more == less \union {d.selected}
  <2>1. IsFiniteSet(more) /\ Cardinality(more) \in Nat
    BY <1>3, OneMore
  <2>2. Cardinality(more) = Cardinality(less) \/ Cardinality(more) = Cardinality(less) + 1
    BY <1>3, OneMore
  <2> HIDE DEF more
  <2>3. Cardinality(more) <= MaxVisiblePending
    BY <1>3, <2>1, <2>2
  <2> QED
    BY <2>1, <2>3 DEF more
<1>5. VisibleAnchors(d) = first \/ VisibleAnchors(d) = less \union {d.selected}
  BY DEF VisibleAnchors, first, less
<1> QED
  BY <1>2, <1>4, <1>5

\* The decisions run_traversal reports: nothing is requested or pruned, and one of the
\* candidates is selected.
TraversalDecision ==
    {d \in FrontierDecision : d.requested = {} /\ d.pruned = {} /\ d.selected \in d.candidates
                              /\ d.hiddenCount = 0}

\* With room for one more, a step shows no more candidates than the limit, the selected one
\* included.
LEMMA VisibleFrontierBound ==
    ASSUME NEW d \in TraversalDecision, IsFiniteSet(trace.visible),
           Cardinality(trace.visible) < MaxVisiblePending
    PROVE  /\ IsFiniteSet(VisibleFrontier(d)) /\ d.selected \in VisibleFrontier(d)
           /\ Cardinality(VisibleFrontier(d)) <= MaxVisiblePending
           /\ ShownCount(d) \in Nat /\ ShownCount(d) <= MaxVisiblePending
<1>1. /\ d \in FrontierDecision /\ d.requested = {} /\ d.pruned = {} /\ d.selected \in d.candidates
      /\ d.candidates \in SUBSET Node /\ IsFiniteSet(d.candidates) /\ IsRanking(d.rank, d.candidates)
      /\ \A n \in d.candidates : d.rank[n] \in Nat
  BY DEF TraversalDecision, FrontierDecision
<1>2. Kept(d) \in SUBSET (trace.visible \union {d.selected}) /\ Kept(d) \in SUBSET d.candidates
      /\ d.selected \in Kept(d)
  BY <1>1 DEF Kept
<1>3. /\ IsFiniteSet(trace.visible \union {d.selected})
      /\ Cardinality(trace.visible \union {d.selected}) <= MaxVisiblePending
  <2> DEFINE more == trace.visible \union {d.selected}
  <2>1. Cardinality(trace.visible) \in Nat /\ IsFiniteSet(more) /\ Cardinality(more) \in Nat
    BY OneMore
  <2>2. Cardinality(more) = Cardinality(trace.visible) \/ Cardinality(more) = Cardinality(trace.visible) + 1
    BY OneMore
  <2> HIDE DEF more
  <2>3. Cardinality(more) <= MaxVisiblePending
    BY <2>1, <2>2
  <2> QED
    BY <2>1, <2>3 DEF more
<1>4. /\ IsFiniteSet(Kept(d)) /\ Cardinality(Kept(d)) \in Nat
      /\ Cardinality(Kept(d)) <= MaxVisiblePending
  <2>1. IsFiniteSet(Kept(d)) /\ Cardinality(Kept(d)) <= Cardinality(trace.visible \union {d.selected})
    BY <1>2, <1>3, FS_Subset
  <2>2. Cardinality(Kept(d)) \in Nat /\ Cardinality(trace.visible \union {d.selected}) \in Nat
    BY <1>3, <2>1, FS_CardinalityType
  <2> QED
    BY <1>3, <2>1, <2>2
<1>5. Requested(d) = {} /\ Cardinality(Requested(d)) = 0
  <2>1. Requested(d) = {}
    BY <1>1 DEF Requested, Top
  <2> QED
    BY <2>1, FS_EmptySet
<1> DEFINE rest == d.candidates \ (Kept(d) \union d.requested)
           room == MaxVisiblePending - Cardinality(Kept(d)) - Cardinality(Requested(d))
<1>6. room \in Nat /\ room = MaxVisiblePending - Cardinality(Kept(d))
  BY <1>4, <1>5
<1>7. rest \in SUBSET d.candidates
  OBVIOUS
<1>8. IsFiniteSet(rest) /\ IsRanking(d.rank, rest) /\ \A n \in rest : d.rank[n] \in Nat
  <2> HIDE DEF rest
  <2> QED
    BY <1>1, <1>7, FS_Subset DEF IsRanking
<1>9. Ranked(d) = Top(rest, d.rank, room)
  BY DEF Ranked
<1> HIDE DEF rest, room
<1>10. /\ Ranked(d) \in SUBSET rest /\ IsFiniteSet(Ranked(d))
       /\ Cardinality(Ranked(d)) \in Nat /\ Cardinality(Ranked(d)) <= room
  BY <1>6, <1>8, <1>9, TopBound
<1>11. VisibleFrontier(d) = Kept(d) \union Ranked(d)
  BY <1>2, <1>5, <1>7, <1>10 DEF VisibleFrontier
<1>12. /\ IsFiniteSet(Kept(d) \union Ranked(d))
       /\ Cardinality(Kept(d) \union Ranked(d)) <= Cardinality(Kept(d)) + Cardinality(Ranked(d))
  <2>1. /\ IsFiniteSet(Kept(d) \union Ranked(d))
        /\ Cardinality(Kept(d) \union Ranked(d))
              = Cardinality(Kept(d)) + Cardinality(Ranked(d)) - Cardinality(Kept(d) \intersect Ranked(d))
    BY <1>4, <1>10, FS_Union
  <2>2. Cardinality(Kept(d) \intersect Ranked(d)) \in Nat
    BY <1>4, FS_Subset, FS_CardinalityType
  <2> QED
    BY <1>4, <1>10, <2>1, <2>2
<1>13. d.candidates \intersect Kept(d) = Kept(d)
  BY <1>2
<1>14. ShownCount(d) = Cardinality(Kept(d)) + Cardinality(Ranked(d))
  <2>1. ShownCount(d) = Cardinality(Kept(d)) + 0 + Cardinality(Ranked(d))
    BY <1>5, <1>13 DEF ShownCount
  <2> QED
    BY <1>4, <1>10, <2>1
<1>15. Cardinality(Kept(d) \union Ranked(d)) \in Nat
  BY <1>12, FS_CardinalityType
<1> QED
  BY <1>2, <1>4, <1>6, <1>10, <1>11, <1>12, <1>14, <1>15

----
(* What the runtime reports to the recorder.                               *)

LEMMA FrontierFinite ==
    ASSUME NEW g
    PROVE  Frontier(g) \in SUBSET Node /\ IsFiniteSet(Frontier(g)) /\ Cardinality(Frontier(g)) \in Nat
<1>1. Frontier(g) \in SUBSET Node
  BY DEF Frontier
<1> QED
  BY <1>1, FS_Subset, FS_CardinalityType

\* Every order of the candidates has a first.
LEMMA FirstOfRanking ==
    ASSUME NEW S, IsFiniteSet(S), S # {}, NEW rank \in Rankings(S)
    PROVE  (CHOOSE n \in S : rank[n] = 1) \in S
<1>1. /\ rank \in [S -> 1..Cardinality(S)] /\ IsRanking(rank, S)
      /\ Cardinality(S) \in Nat /\ Cardinality(S) # 0
  BY FS_CardinalityType, FS_EmptySet DEF Rankings
<1>2. rank \in Injection(S, 1..Cardinality(S))
  BY <1>1 DEF Injection, IsInjective, IsRanking
<1>3. IsFiniteSet(1..Cardinality(S)) /\ Cardinality(1..Cardinality(S)) = Cardinality(S)
  BY <1>1, FS_Interval
<1>4. rank \in Surjection(S, 1..Cardinality(S))
  BY <1>2, <1>3, FS_Injection
<1>5. \E n \in S : rank[n] = 1
  BY <1>1, <1>4 DEF Surjection
<1> QED
  BY <1>5

\* The best of a candidate's sources is one of them.
LEMMA CandidateSourceType ==
    ASSUME NEW g, NEW n \in Node
    PROVE  CandidateSource(g, n) \in Node \union {NoNode}
<1> DEFINE sources == {m \in Node : <<m, n>> \in g.edges}
           Class(m) == CASE g.state[m] = "resolved" -> 0 [] g.state[m] = "anchor" -> 1 [] OTHER -> 2
           Better(m, o) == \/ Class(m) < Class(o)
                           \/ Class(m) = Class(o) /\ IdOrder[m] < IdOrder[o]
           Best(k) == \E m \in sources : /\ Class(m) = k
                                         /\ \A o \in sources \ {m} : Class(o) = k => IdOrder[m] < IdOrder[o]
<1>1. \A m \in sources : Class(m) \in {0, 1, 2}
  OBVIOUS
<1>2. \A k \in {0, 1, 2} : (\E m \in sources : Class(m) = k) => Best(k)
  <2> SUFFICES ASSUME NEW k \in {0, 1, 2}, \E m \in sources : Class(m) = k PROVE Best(k)
    OBVIOUS
  <2> DEFINE S == {m \in sources : Class(m) = k}
  <2>1. S # {} /\ (\A m \in S : IdOrder[m] \in Nat) /\ \A m, o \in S : IdOrder[m] = IdOrder[o] => m = o
    <3> HIDE DEF Class
    <3> QED
      BY DEF IsRanking
  <2> HIDE DEF S
  <2>2. PICK m \in S : \A o \in S \ {m} : IdOrder[m] < IdOrder[o]
    BY <2>1, LeastRanked
  <2> HIDE DEF Class
  <2> QED
    BY <2>2 DEF S
<1>3. sources # {} => \E m \in sources : \A o \in sources \ {m} : Better(m, o)
  <2> HIDE DEF Class
  <2> SUFFICES ASSUME sources # {} PROVE \E m \in sources : \A o \in sources \ {m} : Better(m, o)
    OBVIOUS
  <2>1. CASE \E m \in sources : Class(m) = 0
    <3>1. PICK m \in sources : /\ Class(m) = 0
                               /\ \A o \in sources \ {m} : Class(o) = 0 => IdOrder[m] < IdOrder[o]
      BY <1>2, <2>1
    <3>2. \A o \in sources \ {m} : Better(m, o)
      BY <1>1, <3>1
    <3> QED
      BY <3>2
  <2>2. CASE (\E m \in sources : Class(m) = 1) /\ ~(\E m \in sources : Class(m) = 0)
    <3>1. PICK m \in sources : /\ Class(m) = 1
                               /\ \A o \in sources \ {m} : Class(o) = 1 => IdOrder[m] < IdOrder[o]
      BY <1>2, <2>2
    <3>2. \A o \in sources : Class(o) = 1 \/ Class(o) = 2
      BY <1>1, <2>2
    <3>3. \A o \in sources \ {m} : Better(m, o)
      BY <3>1, <3>2
    <3> QED
      BY <3>3
  <2>3. CASE \A m \in sources : Class(m) = 2
    <3>1. PICK m \in sources : /\ Class(m) = 2
                               /\ \A o \in sources \ {m} : Class(o) = 2 => IdOrder[m] < IdOrder[o]
      BY <1>2, <2>3
    <3>2. \A o \in sources \ {m} : Better(m, o)
      BY <2>3, <3>1
    <3> QED
      BY <3>2
  <2> QED
    BY <1>1, <2>1, <2>2, <2>3
<1>4. CandidateSource(g, n)
        = IF sources = {} THEN NoNode
          ELSE CHOOSE m \in sources : \A o \in sources \ {m} : Better(m, o)
  BY DEF CandidateSource
<1> HIDE DEF Better
<1> QED
  BY <1>3, <1>4

LEMMA DecisionType ==
    ASSUME NEW rank \in Rankings(Frontier(call.graph)), Frontier(call.graph) # {}
    PROVE  DecisionFor(rank) \in TraversalDecision
<1> DEFINE candidates == Frontier(call.graph)
           d == DecisionFor(rank)
           sources == [n \in Node |-> CandidateSource(call.graph, n)]
           full == [n \in Node |-> IF n \in candidates THEN rank[n] ELSE 0]
           first == CHOOSE n \in candidates : rank[n] = 1
<1>1. candidates \in SUBSET Node /\ IsFiniteSet(candidates) /\ Cardinality(candidates) \in Nat
  BY FrontierFinite
<1>2. sources \in [Node -> Node \union {NoNode}]
  BY CandidateSourceType
<1>3. rank \in [candidates -> 1..Cardinality(candidates)] /\ IsRanking(rank, candidates)
  BY DEF Rankings
<1>4. first \in candidates
  <2> HIDE DEF candidates
  <2> QED
    BY <1>1, FirstOfRanking DEF candidates
<1>5. d = [candidates |-> candidates, rank |-> full, source |-> sources, requested |-> {},
           selected |-> first, pruned |-> {}, frontierCount |-> Cardinality(candidates), hiddenCount |-> 0]
  BY DEF DecisionFor
<1> HIDE DEF candidates, sources, first, d
<1>6. full \in [Node -> Nat] /\ IsRanking(full, candidates)
  BY <1>1, <1>3 DEF IsRanking
<1> HIDE DEF full
<1>7. d \in FrontierDecision
  BY <1>1, <1>2, <1>4, <1>5, <1>6 DEF FrontierDecision
<1>8. d.requested = {} /\ d.pruned = {} /\ d.selected \in d.candidates /\ d.hiddenCount = 0
  BY <1>4, <1>5
<1>9. d \in TraversalDecision
  BY <1>7, <1>8 DEF TraversalDecision
<1> QED
  BY <1>9 DEF d

LEMMA ExpandNodeType ==
    ASSUME NEW g \in Graph, NEW n \in Frontier(g)
    PROVE  ExpandNode(g, n) \in Expansion
<1>1. n \in Node /\ g.state[n] \in NodeState
  BY DEF Frontier, NodeState
<1>2. {Child[n]} \ ({NoNode} \union Nodes(g)) \in SUBSET Node
  BY <1>1
<1> QED
  BY <1>1, <1>2 DEF ExpandNode, Expansion, Edge

----
(* Types.                                                                  *)

\* What is selected is pending in the working graph.
Selected == call.pc = "expand" => call.selected \in Frontier(call.graph)

Typed == LookaheadTypeOK /\ Selected

IdleCall == {Idle} \union [pc: {"idle"}, node: Node, depth: Nat, answer: Graph]
RankCall == [pc: {"rank"}, node: Node, depth: Nat, left: Nat, graph: Graph, selected: {NoNode}]
ExpandCall == [pc: {"expand"}, node: Node, depth: Nat, left: Nat \ {0}, graph: Graph, selected: Node]

LEMMA CallKinds ==
    ASSUME LookaheadTypeOK
    PROVE  /\ call.pc \in {"idle", "rank", "expand"}
           /\ call.pc = "idle" => call \in IdleCall
           /\ call.pc = "rank" => call \in RankCall
           /\ call.pc = "expand" => call \in ExpandCall
  BY DEF LookaheadTypeOK, Idle, IdleCall, RankCall, ExpandCall

LEMMA SubgraphType ==
    ASSUME NEW g \in Graph, NEW S
    PROVE  Subgraph(g, S) \in Graph
  BY DEF Graph, Subgraph

LEMMA SessionType ==
    ASSUME session \in SessionGraphs
    PROVE  session \in Graph
  OBVIOUS

\* An expansion grows the graph by children of the expanded node.
LEMMA ApplyExpansionType ==
    ASSUME NEW g \in Graph, NEW n \in Frontier(g), NEW x, x = ExpandNode(g, n)
    PROVE  /\ x \in Expansion /\ x.source = n /\ x.state = "pending"
           /\ x.created = {Child[n]} \ ({NoNode} \union Nodes(g)) /\ x.edges = {n} \X x.created
           /\ ApplyExpansion(g, x) \in Graph
           /\ \A m \in Node : ApplyExpansion(g, x).state[m]
                                 = IF m = n THEN "resolved"
                                   ELSE IF m \in x.created THEN "pending" ELSE g.state[m]
           /\ ApplyExpansion(g, x).edges = g.edges \union ({n} \X x.created)
<1>1. x \in Expansion
  BY ExpandNodeType
<1>2. n \in Node /\ g.state[n] = "pending"
  BY DEF Frontier
<1>3. /\ x.source = n /\ x.state = "pending"
      /\ x.created = {Child[n]} \ ({NoNode} \union Nodes(g)) /\ x.edges = {n} \X x.created
  BY <1>2 DEF ExpandNode
<1> DEFINE h == ApplyExpansion(g, x)
<1>4. /\ h.state = [m \in Node |-> CASE m = n -> "resolved"
                                    [] m \in x.created -> "pending"
                                    [] OTHER -> g.state[m]]
      /\ h.edges = g.edges \union x.edges /\ h = [state |-> h.state, edges |-> h.edges]
  BY <1>3 DEF ApplyExpansion
<1>5. n \notin x.created
  BY <1>2, <1>3 DEF Nodes, Absent
<1> HIDE DEF h
<1>6. \A m \in Node : h.state[m] = IF m = n THEN "resolved"
                                   ELSE IF m \in x.created THEN "pending" ELSE g.state[m]
  <2> TAKE m \in Node
  <2>1. h.state[m] = CASE m = n -> "resolved"
                      [] m \in x.created -> "pending"
                      [] OTHER -> g.state[m]
    BY <1>4
  <2> QED
    BY <1>5, <2>1
<1>7. h.state \in [Node -> NodeState \union {Absent}]
  <2>1. \A m \in Node : h.state[m] \in NodeState \union {Absent}
    BY <1>6 DEF Graph, NodeState, Settled
  <2>2. h.state = [m \in Node |-> h.state[m]]
    BY <1>4
  <2> QED
    BY <2>1, <2>2
<1>8. h.edges \in SUBSET Edge
  BY <1>1, <1>4 DEF Expansion, Graph
<1>9. h \in Graph
  BY <1>4, <1>7, <1>8 DEF Graph
<1> QED
  BY <1>1, <1>3, <1>4, <1>6, <1>9 DEF h

LEMMA AnsweredType ==
    ASSUME call \in RankCall
    PROVE  Answered(call) \in IdleCall
<1>1. call.graph \in Graph /\ call.node \in Node /\ call.depth \in Nat
  BY DEF RankCall
<1>2. Returned(call) \in Graph
  BY <1>1, SubgraphType DEF Returned
<1> QED
  BY <1>1, <1>2 DEF Answered, IdleCall

\* The working graph of a call that is made.
LEMMA ExpandStarts ==
    ASSUME LookaheadTypeOK, NEW n \in Node, NEW depth \in Depths, Expand(n, depth)
    PROVE  /\ NoteExpandCall /\ session' = session /\ call.pc = "idle"
           /\ \/ call' = Idle
              \/ \E steps \in Nat :
                    /\ n \in Nodes(session) \/ steps = 0
                    /\ call' = [pc |-> "rank", node |-> n, depth |-> steps, left |-> steps,
                                graph |-> Subgraph(session, Ball(session, n, steps)),
                                selected |-> NoNode]
                    /\ call' \in RankCall
<1> DEFINE steps == IF depth > 0 THEN depth ELSE 0
           new == [pc |-> "rank", node |-> n, depth |-> steps, left |-> steps,
                   graph |-> Subgraph(session, Ball(session, n, steps)),
                   selected |-> NoNode]
<1>1. steps \in Nat
  <2>1. depth \in Int
    OBVIOUS
  <2> QED
    BY <2>1
<1>2. NoteExpandCall /\ session' = session /\ call.pc = "idle"
  BY DEF Expand
<1>3. call' = IF n \in Nodes(session) \/ steps = 0 THEN new ELSE Idle
  BY DEF Expand
<1>4. new \in RankCall
  <2>1. Subgraph(session, Ball(session, n, steps)) \in Graph
    BY SessionType, SubgraphType DEF LookaheadTypeOK
  <2> HIDE DEF steps
  <2> QED
    BY <1>1, <2>1 DEF RankCall
<1> QED
  BY <1>1, <1>2, <1>3, <1>4

\* A step of the traversal reports a decision of run_traversal, and selects its node.
LEMMA RankReports ==
    ASSUME LookaheadTypeOK, Rank
    PROVE  /\ call \in RankCall /\ session' = session /\ call' \in ExpandCall
           /\ call'.graph = call.graph /\ call'.node = call.node /\ call'.depth = call.depth
           /\ call'.selected \in Frontier(call.graph)
           /\ \E d \in TraversalDecision :
                 /\ ObserveFrontierDecision(d) /\ call'.selected = d.selected
                 /\ d.candidates = Frontier(call.graph)
                 /\ d.frontierCount = Cardinality(Frontier(call.graph))
<1>1. call \in RankCall /\ call.left > 0 /\ Frontier(call.graph) # {} /\ session' = session
  BY CallKinds DEF Rank
<1>2. PICK rank \in Rankings(Frontier(call.graph)) :
         /\ ObserveFrontierDecision(DecisionFor(rank))
         /\ call' = [call EXCEPT !.pc = "expand", !.selected = DecisionFor(rank).selected]
  BY DEF Rank
<1> DEFINE d == DecisionFor(rank)
<1>3. d \in TraversalDecision /\ d.candidates = Frontier(call.graph)
      /\ d.frontierCount = Cardinality(Frontier(call.graph))
  BY <1>1, DecisionType DEF DecisionFor
<1> HIDE DEF d
<1>4. d.selected \in Frontier(call.graph) /\ d.selected \in Node
  BY <1>3, FrontierFinite DEF TraversalDecision
<1>5. call' = [call EXCEPT !.pc = "expand", !.selected = d.selected]
  BY <1>2 DEF d
<1>6. call' \in ExpandCall /\ call'.selected = d.selected
      /\ call'.graph = call.graph /\ call'.node = call.node /\ call'.depth = call.depth
  <2>1. call.left \in Nat \ {0}
    BY <1>1 DEF RankCall
  <2>2. call' = [pc |-> "expand", node |-> call.node, depth |-> call.depth, left |-> call.left,
                 graph |-> call.graph, selected |-> d.selected]
    BY <1>1, <1>5 DEF RankCall
  <2>3. call' \in ExpandCall
    BY <1>1, <1>4, <2>1, <2>2 DEF RankCall, ExpandCall
  <2> QED
    BY <2>2, <2>3
<1> QED
  BY <1>1, <1>2, <1>3, <1>4, <1>6 DEF d

\* The other half of a step expands that node.
LEMMA ExpandReports ==
    ASSUME Typed, ExpandSelected
    PROVE  /\ call \in ExpandCall /\ session' = session /\ call' \in RankCall
           /\ call'.node = call.node /\ call'.depth = call.depth
           /\ call.selected \in Frontier(call.graph)
           /\ ObserveExpansion(ExpandNode(call.graph, call.selected))
           /\ call'.graph = ApplyExpansion(call.graph, ExpandNode(call.graph, call.selected))
<1> DEFINE x == ExpandNode(call.graph, call.selected)
<1>1. call \in ExpandCall /\ session' = session /\ call.selected \in Frontier(call.graph)
  BY CallKinds DEF ExpandSelected, Typed, Selected
<1>2. /\ ObserveExpansion(x)
      /\ call' = [call EXCEPT !.pc = "rank", !.left = @ - 1, !.selected = NoNode,
                              !.graph = ApplyExpansion(@, x)]
  BY DEF ExpandSelected
<1>3. call.graph \in Graph /\ call.left \in Nat \ {0}
  BY <1>1 DEF ExpandCall
<1>4. ApplyExpansion(call.graph, x) \in Graph
  BY <1>1, <1>3, ApplyExpansionType
<1> HIDE DEF x
<1>5. /\ call' \in RankCall /\ call'.node = call.node /\ call'.depth = call.depth
      /\ call'.graph = ApplyExpansion(call.graph, x)
  <2> DEFINE h == ApplyExpansion(call.graph, x)
  <2>1. call' = [pc |-> "rank", node |-> call.node, depth |-> call.depth, left |-> call.left - 1,
                 graph |-> h, selected |-> NoNode]
    BY <1>1, <1>2 DEF ExpandCall
  <2>2. call.left - 1 \in Nat
    BY <1>3
  <2> HIDE DEF h
  <2>3. call' \in RankCall
    BY <1>1, <1>4, <2>1, <2>2 DEF ExpandCall, RankCall, h
  <2> QED
    BY <2>1, <2>3 DEF h
<1> QED
  BY <1>1, <1>2, <1>5 DEF x

LEMMA IdleIsTyped ==
    ASSUME TypeOK', session' \in SessionGraphs, call' \in IdleCall
    PROVE  Typed'
  BY DEF Typed, LookaheadTypeOK, Selected, IdleCall, Idle

LEMMA LookaheadInitTyped == LookaheadInit => Typed
  BY InitTypeOK DEF LookaheadInit, Typed, LookaheadTypeOK, Selected, Idle

LEMMA LookaheadNextTyped == Typed /\ [LookaheadNext]_lookaheadVars => Typed'
<1> SUFFICES ASSUME Typed, [LookaheadNext]_lookaheadVars PROVE Typed'
  OBVIOUS
<1>0. LookaheadTypeOK /\ TypeOK /\ session \in SessionGraphs /\ Idle \in IdleCall
  BY DEF Typed, LookaheadTypeOK, IdleCall
<1>1. ASSUME NEW n \in Node, NEW depth \in Depths, Expand(n, depth) PROVE Typed'
  <2>1. TypeOK'
    BY <1>0, <1>1, ExpandStarts, NextTypeOK DEF Next
  <2>2. call' \in RankCall => Typed'
    BY <1>0, <1>1, <2>1, ExpandStarts DEF Typed, LookaheadTypeOK, Selected, RankCall
  <2> QED
    BY <1>0, <1>1, <2>1, <2>2, ExpandStarts, IdleIsTyped
<1>2. CASE Rank
  <2>1. TypeOK'
    BY <1>0, <1>2, RankReports, FrontierDecisionType DEF TraversalDecision
  <2> QED
    BY <1>0, <1>2, <2>1, RankReports DEF Typed, LookaheadTypeOK, Selected, ExpandCall
<1>3. CASE ExpandSelected
  <2>1. call.graph \in Graph
    BY <1>3, ExpandReports DEF ExpandCall
  <2>2. TypeOK'
    BY <1>0, <1>3, <2>1, ExpandReports, ExpandNodeType, ExpansionType
  <2> QED
    BY <1>0, <1>3, <2>2, ExpandReports DEF Typed, LookaheadTypeOK, Selected, RankCall
<1>4. CASE Return \/ PolicyRaises
  <2>1. TypeOK' /\ session' = session
    BY <1>0, <1>4, NextTypeOK DEF Return, PolicyRaises
  <2>2. call' \in IdleCall
    BY <1>0, <1>4, CallKinds, AnsweredType DEF Return, PolicyRaises
  <2> QED
    BY <1>0, <2>1, <2>2, IdleIsTyped
<1>5. ASSUME NEW d \in AnchorDecisions, Resolve(d) PROVE Typed'
  <2>1. TypeOK'
    BY <1>0, <1>5, NextTypeOK DEF Next, Resolve
  <2> QED
    BY <1>0, <1>5, <2>1, IdleIsTyped DEF Resolve
<1>6. ASSUME NEW clear \in BOOLEAN, CollectTrace(clear) PROVE Typed'
  <2>1. TypeOK'
    BY <1>0, <1>6, NextTypeOK DEF Next, CollectTrace
  <2> QED
    BY <1>0, <1>6, <2>1, IdleIsTyped DEF CollectTrace
<1>7. ASSUME NEW g \in SessionGraphs, Reload(g) \/ ResetRuntime(g) PROVE Typed'
  <2>1. TypeOK'
    BY <1>0, <1>7, NextTypeOK DEF Next, Reload, ResetRuntime
  <2> QED
    BY <1>0, <1>7, <2>1, IdleIsTyped DEF Reload, ResetRuntime
<1>8. CASE UNCHANGED lookaheadVars
  <2>1. TypeOK'
    BY <1>0, <1>8, NextTypeOK DEF lookaheadVars
  <2> QED
    BY <1>8, <2>1 DEF lookaheadVars, Typed, LookaheadTypeOK, Selected
<1> QED
  BY <1>1, <1>2, <1>3, <1>4, <1>5, <1>6, <1>7, <1>8 DEF LookaheadNext, CallSteps

LEMMA AlwaysTyped == LookaheadSpec => []Typed
  BY LookaheadInitTyped, LookaheadNextTyped, PTL DEF LookaheadSpec

\* The runtime's state keeps its types whatever is asked and however the policy ranks:
\* there is a first candidate to select as long as any is pending, a step is taken only
\* while steps are left, and the working graph stays a graph.
THEOREM LookaheadTypeCorrect == LookaheadSpec => []LookaheadTypeOK
<1>1. Typed => LookaheadTypeOK
  BY DEF Typed
<1> QED
  BY <1>1, AlwaysTyped, PTL

----
(* What is added to the log.                                               *)
(*                                                                         *)
(* Every call adds entries one after the other, and each of them is plain: *)
(* it shows a node as pending, an edge between shown nodes, a decision or  *)
(* an iteration.  An expansion ends with one more, which resolves.  What   *)
(* plain entries keep is given by the set of the traces that have it.      *)

Resolves(e) == e.type = "updateNode" /\ e.state = "resolved"

Shows(t, u, e) ==
    /\ Follows(t, u, e)
    /\ e.type = "addNodes" => e.state = "pending"
    /\ e.type = "addEdges" => \A x \in e.edges : x[1] \in Known(t) /\ x[2] \in Known(t)
    /\ e.type \notin {"setContext", "tokenAdd"}

Plain(t, u, e) == Shows(t, u, e) /\ ~Resolves(e)

\* Consistent traces, closed under plain entries and under the choice of sticky ids.
PlainClosed(G) ==
    /\ \A t \in G : Consistent(t)
    /\ \A t \in G, u \in TraceType, e \in Entry : Plain(t, u, e) => u \in G
    /\ \A t \in G, S \in SUBSET Node :
          (\A n \in S : t.known[n] = "pending") => [t EXCEPT !.visible = S] \in G

LEMMA PlainStays ==
    ASSUME NEW G, PlainClosed(G), NEW t \in G, NEW u, NEW e, Plain(t, u, e)
    PROVE  u \in G
  BY DEF PlainClosed, Plain, Shows, Follows

LEMMA AddNodesStays ==
    ASSUME NEW G, PlainClosed(G), NEW t \in G, NEW S \in SUBSET Node
    PROVE  AddNodes(t, S, "pending") \in G
<1> DEFINE u == AddNodes(t, S, "pending")
           e == [type |-> "addNodes", nodes |-> S \ Known(t), state |-> "pending"]
<1>1. CASE S \ Known(t) = {}
  BY <1>1 DEF AddNodes
<1>2. CASE S \ Known(t) # {}
  <2>1. Follows(t, u, e)
    BY <1>2, AddNodesFollows DEF PlainClosed, NodeState
  <2>2. e.type = "addNodes" /\ e.state = "pending"
    OBVIOUS
  <2> HIDE DEF u, e
  <2>3. u \in G
    BY <2>1, <2>2, PlainStays DEF Plain, Shows, Resolves
  <2> QED
    BY <2>3 DEF u
<1> QED
  BY <1>1, <1>2

LEMMA AddEdgesStays ==
    ASSUME NEW G, PlainClosed(G), NEW t \in G, NEW S \in SUBSET Edge,
           \A x \in S : x[1] \in Known(t) /\ x[2] \in Known(t)
    PROVE  AddEdges(t, S) \in G
<1> DEFINE u == AddEdges(t, S)
           e == [type |-> "addEdges", edges |-> S \ t.edges]
<1>1. CASE S \ t.edges = {}
  BY <1>1 DEF AddEdges
<1>2. CASE S \ t.edges # {}
  <2>1. Follows(t, u, e)
    BY <1>2, AddEdgesFollows DEF PlainClosed
  <2>2. e.type = "addEdges" /\ e.edges = S \ t.edges
    OBVIOUS
  <2> HIDE DEF u, e
  <2>3. u \in G
    BY <2>1, <2>2, PlainStays DEF Plain, Shows, Resolves
  <2> QED
    BY <2>3 DEF u
<1> QED
  BY <1>1, <1>2

LEMMA UpdateNodesStays ==
    ASSUME NEW G, PlainClosed(G), NEW t \in G, NEW S, NEW st \in {"anchor", "pruned", NoPatch}
    PROVE  UpdateNodes(t, S, st) \in G
<1> DEFINE u == UpdateNodes(t, S, st)
           e == [type |-> "updateNode", nodes |-> S \intersect Known(t), state |-> st]
<1>1. CASE S \intersect Known(t) = {}
  BY <1>1 DEF UpdateNodes
<1>2. CASE S \intersect Known(t) # {}
  <2>1. Follows(t, u, e)
    BY <1>2, UpdateNodesFollows DEF PlainClosed, NodeState, Settled, NoPatch
  <2>2. e.type = "updateNode" /\ e.state # "resolved"
    BY DEF NoPatch
  <2> HIDE DEF u, e
  <2>3. u \in G
    BY <2>1, <2>2, PlainStays DEF Plain, Shows, Resolves
  <2> QED
    BY <2>3 DEF u
<1> QED
  BY <1>1, <1>2

LEMMA LogIterationStays ==
    ASSUME NEW G, PlainClosed(G), trace \in G, iteration \in Nat
    PROVE  LogIteration(trace) \in G
<1> DEFINE e == [type |-> "iteration", step |-> iteration + 1]
           u == LogIteration(trace)
<1>1. e \in IterationEntry /\ e.type = "iteration"
  BY DEF IterationEntry
<1>2. u = [trace EXCEPT !.events = Append(@, e)]
  BY DEF LogIteration
<1> HIDE DEF e, u
<1>3. Follows(trace, u, e)
  BY <1>1, <1>2, NoteFollows DEF PlainClosed
<1>4. u \in G
  BY <1>1, <1>3, PlainStays DEF Plain, Shows, Resolves
<1> QED
  BY <1>4 DEF u

LEMMA AnchorTraceStays ==
    ASSUME NEW G, PlainClosed(G), trace \in G, iteration \in Nat, NEW d \in AnchorDecision
    PROVE  AnchorTrace(d) \in G
<1> DEFINE visible == VisibleAnchors(d)
           logged == LogIteration(trace)
           shown == AddNodes(logged, visible, "pending")
           marked == UpdateNodes(shown, {d.selected}, "anchor")
           rest == UpdateNodes(marked, visible \ {d.selected}, "pruned")
<1>1. visible \in SUBSET Node
  BY VisibleAnchorsAreCandidates DEF AnchorDecision
<1>2. logged \in G
  BY LogIterationStays
<1>3. shown \in G
  BY <1>1, <1>2, AddNodesStays
<1>4. marked \in G
  BY <1>3, UpdateNodesStays
<1>5. rest \in G
  BY <1>4, UpdateNodesStays
<1>6. d.status \in {"resolved", "ambiguous", "not_found"}
  BY DEF AnchorDecision
<1> QED
  BY <1>2, <1>3, <1>5, <1>6 DEF AnchorTrace

LEMMA FrontierTraceStays ==
    ASSUME NEW G, PlainClosed(G), trace \in G, iteration \in Nat, NEW d \in FrontierDecision
    PROVE  FrontierTrace(d) \in G
<1> DEFINE visible == VisibleFrontier(d)
           logged == LogIteration(trace)
           shown == AddNodes(logged, visible, "pending")
           edges == {e \in Edge : /\ e[2] \in visible
                                  /\ e[1] = d.source[e[2]]
                                  /\ e[1] \in Known(shown)}
           linked == AddEdges(shown, edges)
           scored == UpdateNodes(linked, visible, NoPatch)
           pruned == UpdateNodes(scored, d.pruned, "pruned")
           left == {n \in visible \ d.pruned : pruned.known[n] \notin Settled}
<1>1. visible \in SUBSET Node
  BY VisibleFrontierAreCandidates DEF FrontierDecision
<1>2. logged \in G
  BY LogIterationStays
<1>3. shown \in G /\ visible \subseteq Known(shown)
  <2>1. Consistent(logged)
    BY <1>2 DEF PlainClosed
  <2> HIDE DEF visible, logged
  <2> QED
    BY <1>1, <1>2, <2>1, AddNodesStays, AddNodesConsistent DEF NodeState
<1>4. linked \in G /\ Known(linked) = Known(shown)
  <2>1. edges \in SUBSET Edge /\ \A e \in edges : e[1] \in Known(shown) /\ e[2] \in Known(shown)
    BY <1>3
  <2>2. Consistent(shown)
    BY <1>3 DEF PlainClosed
  <2> HIDE DEF shown, edges
  <2> QED
    BY <1>3, <2>1, <2>2, AddEdgesStays, AddEdgesConsistent DEF Known
<1>5. scored \in G /\ Known(scored) = Known(linked)
  <2>1. Consistent(linked)
    BY <1>4 DEF PlainClosed
  <2> HIDE DEF linked
  <2> QED
    BY <1>4, <2>1, UpdateNodesStays, UpdateNodesConsistent DEF NodeState, Settled, NoPatch
<1>6. pruned \in G /\ Known(pruned) = Known(scored)
  <2>1. Consistent(scored)
    BY <1>5 DEF PlainClosed
  <2> HIDE DEF scored
  <2> QED
    BY <1>5, <2>1, UpdateNodesStays, UpdateNodesConsistent DEF NodeState, Settled, NoPatch
<1>7. pruned \in TraceType
  BY <1>6 DEF PlainClosed, Consistent
<1> HIDE DEF pruned, scored, linked, shown, logged, visible
<1>8. left \in SUBSET Node /\ \A n \in left : pruned.known[n] = "pending"
  <2>1. \A n \in visible : n \in Known(pruned)
    BY <1>3, <1>4, <1>5, <1>6
  <2> QED
    BY <2>1, <1>1, <1>7 DEF TraceType, Known, NodeState
<1>9. [pruned EXCEPT !.visible = left] \in G
  <2> HIDE DEF left
  <2> QED
    BY <1>6, <1>8 DEF PlainClosed
<1> QED
  BY <1>9 DEF FrontierTrace, pruned, scored, linked, shown, logged, visible

LEMMA ExpansionTraceStays ==
    ASSUME NEW G, PlainClosed(G), trace \in G, NEW x \in Expansion,
           x.source \in Known(trace), x.edges = {x.source} \X x.created
    PROVE  \E t \in G : Shows(t, ExpansionTrace(x),
                             [type |-> "updateNode", nodes |-> {x.source}, state |-> "resolved"])
<1> DEFINE created == AddNodes(trace, x.created, "pending")
           linked == AddEdges(created, x.edges)
           ensured == AddNodes(linked, {x.source}, x.state)
           u == ExpansionTrace(x)
           e == [type |-> "updateNode", nodes |-> {x.source}, state |-> "resolved"]
<1>1. created \in G /\ Known(created) = Known(trace) \union x.created
  BY AddNodesStays, AddNodesConsistent DEF PlainClosed, Expansion, NodeState
<1>2. linked \in G /\ Known(linked) = Known(created)
  <2>1. x.edges \in SUBSET Edge /\ \A f \in x.edges : f[1] \in Known(created) /\ f[2] \in Known(created)
    BY <1>1 DEF Expansion
  <2>2. Consistent(created)
    BY <1>1 DEF PlainClosed
  <2> HIDE DEF created
  <2> QED
    BY <1>1, <2>1, <2>2, AddEdgesStays, AddEdgesConsistent DEF Known
<1> HIDE DEF created, linked
<1>3. {x.source} \intersect Known(linked) = {x.source}
  BY <1>1, <1>2
<1>4. ensured = linked
  BY <1>3 DEF AddNodes
<1>5. u = UpdateNodes(linked, {x.source}, "resolved")
  BY <1>4 DEF ExpansionTrace, created, linked
<1>6. Consistent(linked)
  BY <1>2 DEF PlainClosed
<1>7. Follows(linked, UpdateNodes(linked, {x.source}, "resolved"),
              [type |-> "updateNode", nodes |-> {x.source} \intersect Known(linked), state |-> "resolved"])
  BY <1>3, <1>6, UpdateNodesFollows DEF NodeState, Settled
<1>8. Follows(linked, u, e)
  BY <1>3, <1>5, <1>7
<1>9. e.type = "updateNode"
  OBVIOUS
<1> HIDE DEF u, e
<1>10. Shows(linked, u, e)
  BY <1>8, <1>9 DEF Shows
<1> QED
  BY <1>2, <1>10 DEF u, e

----
(* What becomes of the recorder's mirror.                                  *)

LEMMA AddNodesEffect ==
    ASSUME NEW t \in TraceType, NEW S \in SUBSET Node, NEW st \in NodeState
    PROVE  LET u == AddNodes(t, S, st)
           IN  /\ u \in TraceType
               /\ \A n \in Node : u.known[n] = IF n \in S \ Known(t) THEN st ELSE t.known[n]
               /\ Known(u) = Known(t) \union S
               /\ u.edges = t.edges /\ u.visible = t.visible
<1> DEFINE u == AddNodes(t, S, st)
<1>1. u \in TraceType
  BY AddNodesType
<1>2. /\ \A n \in Node : u.known[n] = IF n \in S \ Known(t) THEN st ELSE t.known[n]
      /\ u.edges = t.edges /\ u.visible = t.visible
  BY DEF AddNodes, TraceType
<1> HIDE DEF u
<1>3. Known(u) = Known(t) \union S
  BY <1>2 DEF Known, NodeState, Settled, Absent
<1> QED
  BY <1>1, <1>2, <1>3 DEF u

LEMMA AddEdgesEffect ==
    ASSUME NEW t \in TraceType, NEW S \in SUBSET Edge
    PROVE  LET u == AddEdges(t, S)
           IN  /\ u \in TraceType
               /\ u.known = t.known /\ Known(u) = Known(t)
               /\ u.edges = t.edges \union S /\ u.visible = t.visible
<1> DEFINE u == AddEdges(t, S)
<1>1. u \in TraceType
  BY AddEdgesType
<1>2. u.known = t.known /\ u.edges = t.edges \union S /\ u.visible = t.visible
  BY DEF AddEdges, TraceType
<1> HIDE DEF u
<1>3. Known(u) = Known(t)
  BY <1>2 DEF Known
<1> QED
  BY <1>1, <1>2, <1>3 DEF u

LEMMA UpdateNodesEffect ==
    ASSUME NEW t \in TraceType, NEW S, NEW st \in NodeState \union {NoPatch}
    PROVE  LET u == UpdateNodes(t, S, st)
           IN  /\ u \in TraceType
               /\ \A n \in Node : u.known[n] = IF n \in S \intersect Known(t) /\ st # NoPatch
                                              THEN st ELSE t.known[n]
               /\ Known(u) = Known(t)
               /\ u.edges = t.edges
               /\ u.visible = IF st \in Settled THEN t.visible \ (S \intersect Known(t)) ELSE t.visible
<1> DEFINE u == UpdateNodes(t, S, st)
<1>1. u \in TraceType
  BY UpdateNodesType
<1>2. /\ \A n \in Node : u.known[n] = IF n \in S \intersect Known(t) /\ st # NoPatch
                                      THEN st ELSE t.known[n]
      /\ u.edges = t.edges
      /\ u.visible = IF st \in Settled THEN t.visible \ (S \intersect Known(t)) ELSE t.visible
  BY DEF UpdateNodes, TraceType
<1> HIDE DEF u
<1>3. Known(u) = Known(t)
  BY <1>2 DEF Known, NodeState, Settled, Absent
<1> QED
  BY <1>1, <1>2, <1>3 DEF u

LEMMA LogIterationEffect ==
    ASSUME TypeOK
    PROVE  LET u == LogIteration(trace)
           IN  /\ u \in TraceType
               /\ u.known = trace.known /\ Known(u) = Known(trace)
               /\ u.edges = trace.edges /\ u.visible = trace.visible
<1> DEFINE u == LogIteration(trace)
<1>1. u \in TraceType
  BY LogIterationType DEF TypeOK
<1>2. u.known = trace.known /\ u.edges = trace.edges /\ u.visible = trace.visible
  BY DEF LogIteration, TypeOK, TraceType
<1> HIDE DEF u
<1>3. Known(u) = Known(trace)
  BY <1>2 DEF Known
<1> QED
  BY <1>1, <1>2, <1>3 DEF u

\* A decision about an anchor: what is shown for the first time is pending, and when the
\* decision is made the anchor is the selected node and the others shown are pruned.
LEMMA AnchorTraceEffect ==
    ASSUME TypeOK, NEW d \in AnchorDecision
    PROVE  LET u == AnchorTrace(d)
               V == VisibleAnchors(d)
           IN  /\ d.status = "not_found" => u.known = trace.known
               /\ d.status = "ambiguous" =>
                     \A n \in Node : u.known[n] = IF n \in V \ Known(trace) THEN "pending" ELSE trace.known[n]
               /\ d.status = "resolved" =>
                     \A n \in Node : u.known[n] =
                        IF n = d.selected /\ n \in Known(trace) \union V THEN "anchor"
                        ELSE IF n \in V \ {d.selected} THEN "pruned" ELSE trace.known[n]
               /\ u.edges = trace.edges
               /\ u.visible \subseteq trace.visible
<1> DEFINE V == VisibleAnchors(d)
           logged == LogIteration(trace)
           shown == AddNodes(logged, V, "pending")
           marked == UpdateNodes(shown, {d.selected}, "anchor")
           rest == UpdateNodes(marked, V \ {d.selected}, "pruned")
<1>1. V \in SUBSET Node
  BY VisibleAnchorsAreCandidates DEF AnchorDecision
<1>2. /\ logged \in TraceType /\ logged.known = trace.known /\ Known(logged) = Known(trace)
      /\ logged.edges = trace.edges /\ logged.visible = trace.visible
  BY LogIterationEffect
<1>3. /\ shown \in TraceType
      /\ \A n \in Node : shown.known[n] = IF n \in V \ Known(trace) THEN "pending" ELSE trace.known[n]
      /\ Known(shown) = Known(trace) \union V
      /\ shown.edges = trace.edges /\ shown.visible = trace.visible
  <2>1. logged \in TraceType /\ V \in SUBSET Node /\ "pending" \in NodeState
    BY <1>1, <1>2 DEF NodeState
  <2> HIDE DEF logged, V
  <2>2. /\ shown \in TraceType
        /\ \A n \in Node : shown.known[n] = IF n \in V \ Known(logged) THEN "pending" ELSE logged.known[n]
        /\ Known(shown) = Known(logged) \union V
        /\ shown.edges = logged.edges /\ shown.visible = logged.visible
    BY <2>1, AddNodesEffect, ZenonT(30)
  <2> HIDE DEF shown
  <2> QED
    BY <1>2, <2>2
<1>4. /\ marked \in TraceType
      /\ \A n \in Node : marked.known[n] = IF n = d.selected /\ n \in Known(trace) \union V
                                           THEN "anchor" ELSE shown.known[n]
      /\ Known(marked) = Known(trace) \union V
      /\ marked.edges = trace.edges /\ marked.visible \subseteq trace.visible
  <2> HIDE DEF shown, V
  <2> QED
    BY <1>1, <1>3, UpdateNodesEffect DEF NodeState, Settled, NoPatch
<1>5. /\ \A n \in Node : rest.known[n] = IF n \in V \ {d.selected} THEN "pruned" ELSE marked.known[n]
      /\ rest.edges = trace.edges /\ rest.visible \subseteq trace.visible
  <2> HIDE DEF marked, V
  <2> QED
    BY <1>1, <1>4, UpdateNodesEffect DEF NodeState, Settled, NoPatch
<1>6. AnchorTrace(d) = CASE d.status = "not_found" -> logged
                         [] d.status = "ambiguous" -> shown
                         [] d.status = "resolved" -> rest
  BY DEF AnchorTrace
<1>7. d.status \in {"resolved", "ambiguous", "not_found"}
  BY DEF AnchorDecision
<1> HIDE DEF logged, shown, marked, rest
<1>8. CASE d.status = "not_found"
  BY <1>2, <1>6, <1>8
<1>9. CASE d.status = "ambiguous"
  BY <1>3, <1>6, <1>9
<1>10. CASE d.status = "resolved"
  <2>1. \A n \in Node : rest.known[n] =
                        IF n = d.selected /\ n \in Known(trace) \union V THEN "anchor"
                        ELSE IF n \in V \ {d.selected} THEN "pruned" ELSE trace.known[n]
    <3> HIDE DEF V
    <3> QED
      BY <1>3, <1>4, <1>5
  <2> QED
    BY <1>5, <1>6, <1>10, <2>1
<1> QED
  BY <1>7, <1>8, <1>9, <1>10

\* A lookahead step: what is shown for the first time is pending, with an edge from its
\* source if that is shown, and the sticky ids are those shown that are pending.
LEMMA FrontierTraceEffect ==
    ASSUME TypeOK, NEW d \in TraversalDecision
    PROVE  LET u == FrontierTrace(d)
               V == VisibleFrontier(d)
           IN  /\ \A n \in Node : u.known[n] = IF n \in V \ Known(trace) THEN "pending" ELSE trace.known[n]
               /\ u.edges = trace.edges \union {e \in Edge : /\ e[2] \in V /\ e[1] = d.source[e[2]]
                                                             /\ e[1] \in Known(trace) \union V}
               /\ u.visible = {n \in V : u.known[n] \notin Settled}
<1> DEFINE V == VisibleFrontier(d)
           logged == LogIteration(trace)
           shown == AddNodes(logged, V, "pending")
           edges == {e \in Edge : e[2] \in V /\ e[1] = d.source[e[2]] /\ e[1] \in Known(shown)}
           linked == AddEdges(shown, edges)
           scored == UpdateNodes(linked, V, NoPatch)
           pruned == UpdateNodes(scored, d.pruned, "pruned")
           left == {n \in V \ d.pruned : pruned.known[n] \notin Settled}
<1>0. d \in FrontierDecision /\ d.pruned = {}
  BY DEF TraversalDecision
<1>1. V \in SUBSET Node
  BY <1>0, VisibleFrontierAreCandidates DEF FrontierDecision
<1>2. /\ logged \in TraceType /\ logged.known = trace.known /\ Known(logged) = Known(trace)
      /\ logged.edges = trace.edges
  BY LogIterationEffect
<1>3. /\ shown \in TraceType
      /\ \A n \in Node : shown.known[n] = IF n \in V \ Known(trace) THEN "pending" ELSE trace.known[n]
      /\ Known(shown) = Known(trace) \union V
      /\ shown.edges = trace.edges
  <2>1. logged \in TraceType /\ V \in SUBSET Node /\ "pending" \in NodeState
    BY <1>1, <1>2 DEF NodeState
  <2> HIDE DEF logged, V
  <2>2. /\ shown \in TraceType
        /\ \A n \in Node : shown.known[n] = IF n \in V \ Known(logged) THEN "pending" ELSE logged.known[n]
        /\ Known(shown) = Known(logged) \union V
        /\ shown.edges = logged.edges /\ shown.visible = logged.visible
    BY <2>1, AddNodesEffect, ZenonT(30)
  <2> HIDE DEF shown
  <2> QED
    BY <1>2, <2>2
<1>4. /\ linked \in TraceType /\ linked.known = shown.known
      /\ linked.edges = trace.edges \union edges
  <2>1. edges \in SUBSET Edge
    OBVIOUS
  <2> HIDE DEF shown, V, edges
  <2> QED
    BY <1>3, <2>1, AddEdgesEffect
<1>5. /\ scored \in TraceType
      /\ \A n \in Node : scored.known[n] = linked.known[n]
      /\ scored.edges = linked.edges
  <2> HIDE DEF linked, V
  <2> QED
    BY <1>1, <1>4, UpdateNodesEffect DEF NodeState, Settled, NoPatch
<1>6. /\ pruned \in TraceType
      /\ \A n \in Node : pruned.known[n] = scored.known[n]
      /\ pruned.edges = scored.edges
  <2> HIDE DEF scored
  <2> QED
    BY <1>0, <1>5, UpdateNodesEffect DEF NodeState, Settled, NoPatch
<1>7. FrontierTrace(d) = [pruned EXCEPT !.visible = left]
  BY DEF FrontierTrace
<1>8. edges = {e \in Edge : e[2] \in V /\ e[1] = d.source[e[2]] /\ e[1] \in Known(trace) \union V}
  BY <1>3
<1> HIDE DEF logged, shown, linked, scored, pruned, edges
<1>9. /\ FrontierTrace(d).known = pruned.known /\ FrontierTrace(d).edges = pruned.edges
      /\ FrontierTrace(d).visible = left
  BY <1>6, <1>7 DEF TraceType
<1>10. left = {n \in V : FrontierTrace(d).known[n] \notin Settled}
  BY <1>0, <1>9
<1>11. \A n \in Node : FrontierTrace(d).known[n] = IF n \in V \ Known(trace) THEN "pending" ELSE trace.known[n]
  BY <1>3, <1>4, <1>5, <1>6, <1>9
<1> HIDE DEF left
<1> QED
  BY <1>4, <1>5, <1>6, <1>8, <1>9, <1>10, <1>11

\* An expansion of a shown node: it is resolved, and what it led to is shown as pending.
LEMMA ExpansionTraceEffect ==
    ASSUME TypeOK, NEW x \in Expansion, x.source \in Known(trace), x.source \notin x.created
    PROVE  LET u == ExpansionTrace(x)
           IN  /\ \A n \in Node : u.known[n] = IF n = x.source THEN "resolved"
                                              ELSE IF n \in x.created \ Known(trace) THEN "pending"
                                              ELSE trace.known[n]
               /\ u.edges = trace.edges \union x.edges
               /\ u.visible = trace.visible \ {x.source}
<1> DEFINE created == AddNodes(trace, x.created, "pending")
           linked == AddEdges(created, x.edges)
           ensured == AddNodes(linked, {x.source}, x.state)
           resolved == UpdateNodes(ensured, {x.source}, "resolved")
<1>1. /\ created \in TraceType
      /\ \A n \in Node : created.known[n] = IF n \in x.created \ Known(trace) THEN "pending" ELSE trace.known[n]
      /\ Known(created) = Known(trace) \union x.created
      /\ created.edges = trace.edges /\ created.visible = trace.visible
  <2>1. trace \in TraceType /\ x.created \in SUBSET Node /\ "pending" \in NodeState
    BY DEF TypeOK, Expansion, NodeState
  <2> QED
    BY <2>1, AddNodesEffect, ZenonT(30)
<1>2. /\ linked \in TraceType /\ linked.known = created.known /\ Known(linked) = Known(created)
      /\ linked.edges = trace.edges \union x.edges /\ linked.visible = trace.visible
  <2> HIDE DEF created
  <2> QED
    BY <1>1, AddEdgesEffect DEF Expansion
<1>3. ensured = linked /\ {x.source} \intersect Known(linked) = {x.source}
  <2> HIDE DEF linked, created
  <2> QED
    BY <1>1, <1>2 DEF AddNodes
<1> HIDE DEF created, linked, ensured
<1>4. /\ \A n \in Node : resolved.known[n] = IF n = x.source THEN "resolved" ELSE linked.known[n]
      /\ resolved.edges = linked.edges
      /\ resolved.visible = linked.visible \ {x.source}
  BY <1>2, <1>3, UpdateNodesEffect DEF NodeState, Settled, NoPatch
<1>5. ExpansionTrace(x) = resolved
  BY DEF ExpansionTrace, created, linked, ensured
<1> HIDE DEF resolved
<1> QED
  BY <1>1, <1>2, <1>4, <1>5

----
(* The log.                                                                *)

\* The entries of a log whose edges come after their ends and that shows nodes as pending.
EdgesPlaced(t) ==
    \A j \in DOMAIN t.events : t.events[j].type = "addEdges" =>
        \A x \in t.events[j].edges : AddedBefore(t, j, x[1]) /\ AddedBefore(t, j, x[2])

AddedPending(t) ==
    \A j \in DOMAIN t.events : t.events[j].type = "addNodes" => t.events[j].state = "pending"

Placed == {t \in TraceType : Consistent(t) /\ EdgesPlaced(t) /\ AddedPending(t)}

\* One more entry, in the terms of sequences.
LEMMA OneMoreEntry ==
    ASSUME NEW t, NEW u, NEW e, Consistent(t), Follows(t, u, e)
    PROVE  /\ Len(t.events) \in Nat /\ DOMAIN t.events = 1..Len(t.events)
           /\ DOMAIN u.events = 1..(Len(t.events) + 1)
           /\ \A i \in 1..Len(t.events) : u.events[i] = t.events[i]
           /\ u.events[Len(t.events) + 1] = e
           /\ u \in TraceType /\ Consistent(u)
<1>1. /\ t \in TraceType /\ u \in TraceType /\ e \in Entry
      /\ u.events = Append(t.events, e)
  BY DEF Consistent, Follows
<1>2. t.events \in Seq(Entry) /\ u.events \in Seq(Entry)
  BY <1>1 DEF TraceType
<1>3. Consistent(u)
  BY FollowingKeepsConsistent
<1> QED
  BY <1>1, <1>2, <1>3

LEMMA ShowsKeepsPlaced ==
    ASSUME NEW t \in Placed, NEW u, NEW e, Shows(t, u, e)
    PROVE  u \in Placed
<1> DEFINE len == Len(t.events)
<1>0. Consistent(t) /\ EdgesPlaced(t) /\ AddedPending(t) /\ Follows(t, u, e)
  BY DEF Placed, Shows
<1>1. /\ len \in Nat /\ DOMAIN t.events = 1..len
      /\ DOMAIN u.events = 1..(len + 1)
      /\ \A i \in 1..len : u.events[i] = t.events[i]
      /\ u.events[len + 1] = e
      /\ u \in TraceType /\ Consistent(u)
  BY <1>0, OneMoreEntry
<1> HIDE DEF len
<1>2. \A j \in 1..(len + 1) : \A n : AddedBefore(t, j, n) => AddedBefore(u, j, n)
  BY <1>1 DEF AddedBefore
<1>3. \A n \in Known(t) : AddedBefore(u, len + 1, n)
  <2> SUFFICES ASSUME NEW n \in Known(t) PROVE AddedBefore(u, len + 1, n)
    OBVIOUS
  <2>1. \E i \in DOMAIN t.events : Adds(t.events[i], n)
    BY <1>0 DEF Consistent, KnownIsAdded, Known
  <2> QED
    BY <1>1, <2>1 DEF AddedBefore
<1>4. EdgesPlaced(u)
  <2> SUFFICES ASSUME NEW j \in 1..(len + 1), u.events[j].type = "addEdges",
                      NEW x \in u.events[j].edges
               PROVE  AddedBefore(u, j, x[1]) /\ AddedBefore(u, j, x[2])
    BY <1>1 DEF EdgesPlaced
  <2>1. CASE j \in 1..len
    <3>1. AddedBefore(t, j, x[1]) /\ AddedBefore(t, j, x[2])
      BY <1>0, <1>1, <2>1 DEF EdgesPlaced
    <3> QED
      BY <1>2, <3>1
  <2>2. CASE j = len + 1
    BY <1>1, <1>3, <2>2 DEF Shows
  <2> QED
    BY <1>1, <2>1, <2>2
<1>5. AddedPending(u)
  <2> SUFFICES ASSUME NEW j \in 1..(len + 1), u.events[j].type = "addNodes"
               PROVE  u.events[j].state = "pending"
    BY <1>1 DEF AddedPending
  <2>1. CASE j \in 1..len
    BY <1>0, <1>1, <2>1 DEF AddedPending
  <2>2. CASE j = len + 1
    BY <1>1, <2>2 DEF Shows
  <2> QED
    BY <1>1, <2>1, <2>2
<1> QED
  BY <1>1, <1>4, <1>5 DEF Placed

\* The choice of sticky ids does not touch the log.
LEMMA StickyConsistent ==
    ASSUME NEW t, Consistent(t), NEW S \in SUBSET Node, \A n \in S : t.known[n] = "pending"
    PROVE  LET u == [t EXCEPT !.visible = S]
           IN  /\ Consistent(u) /\ u \in TraceType
               /\ u.events = t.events /\ u.known = t.known /\ u.edges = t.edges
<1> DEFINE u == [t EXCEPT !.visible = S]
<1>1. t \in TraceType
  BY DEF Consistent
<1>2. /\ u.events = t.events /\ u.known = t.known
      /\ u.edges = t.edges /\ u.visible = S
      /\ u \in TraceType
  BY <1>1 DEF TraceType
<1> HIDE DEF u
<1>3. Consistent(u)
  BY <1>2 DEF Consistent, KnownIsAdded, EdgesAreAdded, LastWord, Applicable, AddedBefore, Known
<1> QED
  BY <1>2, <1>3 DEF u

LEMMA PlacedClosed == PlainClosed(Placed)
<1>1. \A t \in Placed : Consistent(t)
  BY DEF Placed
<1>2. \A t \in Placed, u \in TraceType, e \in Entry : Plain(t, u, e) => u \in Placed
  BY ShowsKeepsPlaced DEF Plain
<1>3. ASSUME NEW t \in Placed, NEW S \in SUBSET Node, \A n \in S : t.known[n] = "pending"
      PROVE  [t EXCEPT !.visible = S] \in Placed
  <2> DEFINE u == [t EXCEPT !.visible = S]
  <2>1. Consistent(u) /\ u \in TraceType /\ u.events = t.events
    BY <1>1, <1>3, StickyConsistent
  <2> HIDE DEF u
  <2>2. u \in Placed
    BY <2>1 DEF Placed, EdgesPlaced, AddedPending, AddedBefore
  <2> QED
    BY <2>2 DEF u
<1> QED
  BY <1>1, <1>2, <1>3 DEF PlainClosed

\* The entries that resolve a node, of which every expansion adds one.
Resolutions(t) == {i \in DOMAIN t.events : Resolves(t.events[i])}

WithResolutions(k) == {t \in TraceType : Consistent(t) /\ Cardinality(Resolutions(t)) = k}

LEMMA ResolutionsFinite ==
    ASSUME NEW t, Consistent(t)
    PROVE  IsFiniteSet(Resolutions(t)) /\ Cardinality(Resolutions(t)) \in Nat
<1>1. DOMAIN t.events = 1..Len(t.events) /\ Len(t.events) \in Nat
  BY DEF Consistent, TraceType
<1>2. IsFiniteSet(1..Len(t.events))
  <2>1. 1 \in Int /\ Len(t.events) \in Int
    BY <1>1
  <2> QED
    BY <2>1, FS_Interval
<1>3. Resolutions(t) \in SUBSET (1..Len(t.events))
  BY <1>1 DEF Resolutions
<1> QED
  BY <1>2, <1>3, FS_Subset, FS_CardinalityType

LEMMA FollowsCountsResolutions ==
    ASSUME NEW t, NEW u, NEW e, Consistent(t), Follows(t, u, e)
    PROVE  Cardinality(Resolutions(u)) = Cardinality(Resolutions(t)) + (IF Resolves(e) THEN 1 ELSE 0)
<1> DEFINE len == Len(t.events)
<1>1. /\ len \in Nat /\ DOMAIN t.events = 1..len
      /\ DOMAIN u.events = 1..(len + 1)
      /\ \A i \in 1..len : u.events[i] = t.events[i]
      /\ u.events[len + 1] = e
  BY OneMoreEntry
<1>2. IsFiniteSet(Resolutions(t)) /\ Cardinality(Resolutions(t)) \in Nat
  BY ResolutionsFinite
<1> HIDE DEF len
<1>3. CASE Resolves(e)
  <2>1. Resolutions(u) = Resolutions(t) \union {len + 1}
    BY <1>1, <1>3 DEF Resolutions
  <2>2. len + 1 \notin Resolutions(t)
    BY <1>1 DEF Resolutions
  <2>3. Cardinality(Resolutions(t) \union {len + 1}) = Cardinality(Resolutions(t)) + 1
    BY <1>2, <2>2, OneMore
  <2> QED
    BY <1>3, <2>1, <2>3
<1>4. CASE ~Resolves(e)
  <2>1. Resolutions(u) = Resolutions(t)
    BY <1>1, <1>4 DEF Resolutions
  <2> QED
    BY <1>2, <1>4, <2>1
<1> QED
  BY <1>3, <1>4

LEMMA ResolutionsClosed ==
    ASSUME NEW k
    PROVE  PlainClosed(WithResolutions(k))
<1>1. \A t \in WithResolutions(k) : Consistent(t)
  BY DEF WithResolutions
<1>2. ASSUME NEW t \in WithResolutions(k), NEW u \in TraceType, NEW e \in Entry, Plain(t, u, e)
      PROVE  u \in WithResolutions(k)
  <2>1. Consistent(t) /\ Follows(t, u, e) /\ ~Resolves(e) /\ Cardinality(Resolutions(t)) = k
    BY <1>2 DEF WithResolutions, Plain, Shows
  <2>2. Cardinality(Resolutions(u)) = Cardinality(Resolutions(t))
    BY <2>1, FollowsCountsResolutions, ResolutionsFinite
  <2> QED
    BY <2>1, <2>2, FollowingKeepsConsistent DEF WithResolutions
<1>3. ASSUME NEW t \in WithResolutions(k), NEW S \in SUBSET Node, \A n \in S : t.known[n] = "pending"
      PROVE  [t EXCEPT !.visible = S] \in WithResolutions(k)
  <2> DEFINE u == [t EXCEPT !.visible = S]
  <2>1. Consistent(u) /\ u \in TraceType /\ u.events = t.events
    BY <1>1, <1>3, StickyConsistent
  <2> HIDE DEF u
  <2>2. u \in WithResolutions(k)
    BY <2>1 DEF WithResolutions, Resolutions
  <2> QED
    BY <2>2 DEF u
<1> QED
  BY <1>1, <1>2, <1>3 DEF PlainClosed

----
(* The steps of a runtime.                                                 *)

\* What the steps other than the two of the traversal do to trace and counts.
CountsStay ==
    /\ summary'.lookaheadSteps = summary.lookaheadSteps
    /\ summary'.frontier = summary.frontier
    /\ summary'.hidden = summary.hidden

TraceElsewhere ==
    \/ trace' = trace /\ CountsStay
    \/ (\E d \in AnchorDecision : trace' = AnchorTrace(d)) /\ CountsStay
    \/ trace' = NoTrace /\ summary' = NoSummary

\* And to the call: none runs, or one was made and its working graph cut out.
CallMade ==
    /\ call.pc = "idle" /\ trace' = trace /\ session' = session
    /\ \E n \in Node, steps \in Nat :
          /\ n \in Nodes(session) \/ steps = 0
          /\ call' = [pc |-> "rank", node |-> n, depth |-> steps, left |-> steps,
                      graph |-> Subgraph(session, Ball(session, n, steps)), selected |-> NoNode]

CallElsewhere ==
    \/ call' = Idle
    \/ call.pc = "rank" /\ call' = Answered(call) /\ session' = session
    \/ CallMade

LEMMA StepCases ==
    ASSUME Typed, [LookaheadNext]_lookaheadVars
    PROVE  \/ Rank
           \/ ExpandSelected
           \/ call.pc # "expand" /\ TraceElsewhere /\ CallElsewhere
           \/ trace' = trace /\ summary' = summary /\ call' = call /\ session' = session
<1>0. LookaheadTypeOK /\ TypeOK /\ summary \in Summary
  BY DEF Typed, LookaheadTypeOK, TypeOK
<1> DEFINE Other == call.pc # "expand" /\ TraceElsewhere /\ CallElsewhere
<1>1. ASSUME NEW n \in Node, NEW depth \in Depths, Expand(n, depth) PROVE Other
  <2>1. NoteExpandCall /\ session' = session /\ call.pc = "idle"
    BY <1>0, <1>1, ExpandStarts
  <2>2. trace' = trace /\ CountsStay
    BY <1>0, <2>1 DEF NoteExpandCall, CountsStay, Summary
  <2>3. call' = Idle \/ CallMade
    BY <1>0, <1>1, <2>1, <2>2, ExpandStarts DEF CallMade
  <2> QED
    BY <2>1, <2>2, <2>3 DEF TraceElsewhere, CallElsewhere
<1>2. ASSUME Return \/ PolicyRaises PROVE Other
  <2>1. call.pc = "rank" /\ trace' = trace /\ summary' = summary /\ session' = session
    BY <1>2 DEF Return, PolicyRaises, vars
  <2>2. call' = Idle \/ call' = Answered(call)
    BY <1>2 DEF Return, PolicyRaises
  <2> QED
    BY <2>1, <2>2 DEF TraceElsewhere, CallElsewhere, CountsStay
<1>3. ASSUME NEW d \in AnchorDecisions, Resolve(d) PROVE Other
  <2>1. call.pc = "idle" /\ call' = Idle /\ ObserveAnchorDecision(d) /\ d \in AnchorDecision
    BY <1>3 DEF Resolve
  <2>2. trace' = AnchorTrace(d) /\ CountsStay
    BY <1>0, <2>1 DEF ObserveAnchorDecision, CountsStay, Summary
  <2> QED
    BY <2>1, <2>2 DEF TraceElsewhere, CallElsewhere
<1>4. ASSUME NEW clear \in BOOLEAN, CollectTrace(clear) PROVE Other
  <2>1. call.pc = "idle" /\ call' = Idle /\ Collect(clear)
    BY <1>4 DEF CollectTrace
  <2>2. \/ trace' = NoTrace /\ summary' = NoSummary
        \/ trace' = trace /\ summary' = [summary EXCEPT !.events = Len(trace.events)]
    BY <2>1 DEF Collect, ClearedTrace
  <2>3. TraceElsewhere
    BY <1>0, <2>2 DEF TraceElsewhere, CountsStay, Summary
  <2> QED
    BY <2>1, <2>3 DEF CallElsewhere
<1>5. ASSUME NEW g \in SessionGraphs, Reload(g) \/ ResetRuntime(g) PROVE Other
  BY <1>5 DEF Reload, ResetRuntime, Reset, ClearedTrace, vars, TraceElsewhere, CallElsewhere, CountsStay
<1>6. CASE UNCHANGED lookaheadVars
  BY <1>6 DEF lookaheadVars, vars
<1> QED
  BY <1>1, <1>2, <1>3, <1>4, <1>5, <1>6 DEF LookaheadNext, CallSteps

\* A call that was made, answered or dropped is not about to expand.
LEMMA ElsewhereCall ==
    ASSUME Typed, CallElsewhere
    PROVE  call'.pc # "expand" /\ (call'.pc # "idle" => CallMade)
  BY DEF CallElsewhere, CallMade, Answered, Idle

----
(* The log of a runtime.                                                   *)

\* The selected node was shown.
Chosen == call.pc = "expand" => call.selected \in Known(trace)

\* The log is in order.
Recorded == Typed /\ trace \in Placed /\ Chosen

LEMMA NoTracePlaced == NoTrace \in Placed
<1>1. DOMAIN NoTrace.events = {}
  BY DEF NoTrace
<1>2. EdgesPlaced(NoTrace) /\ AddedPending(NoTrace)
  BY <1>1 DEF EdgesPlaced, AddedPending
<1> QED
  BY <1>2, NoTraceType, NoTraceConsistent DEF Placed

LEMMA SelectedIsShown ==
    ASSUME TypeOK, NEW d \in TraversalDecision
    PROVE  d.selected \in VisibleFrontier(d) /\ d.selected \in Known(FrontierTrace(d))
<1>1. d.selected \in d.candidates /\ d.selected \in Node /\ d.selected # NoNode
  BY DEF TraversalDecision, FrontierDecision
<1>2. d.selected \in VisibleFrontier(d)
  BY <1>1 DEF VisibleFrontier, Kept
<1>3. FrontierTrace(d).known[d.selected]
        = IF d.selected \in VisibleFrontier(d) \ Known(trace) THEN "pending" ELSE trace.known[d.selected]
  BY <1>1, FrontierTraceEffect
<1> QED
  BY <1>1, <1>2, <1>3 DEF Known, Absent

\* An expansion of the selected node, in the terms of the log.
LEMMA ExpandEntry ==
    ASSUME Recorded, ExpandSelected, NEW G, PlainClosed(G), trace \in G
    PROVE  \E t \in G, e \in Entry : Shows(t, trace', e) /\ Resolves(e) /\ e.nodes = {call.selected}
<1> DEFINE x == ExpandNode(call.graph, call.selected)
           e == [type |-> "updateNode", nodes |-> {call.selected}, state |-> "resolved"]
<1>1. /\ call.graph \in Graph /\ call.selected \in Frontier(call.graph)
      /\ call.selected \in Known(trace) /\ trace' = ExpansionTrace(x)
  BY ExpandReports DEF Recorded, Chosen, ExpandSelected, ObserveExpansion, ExpandCall
<1>2. x \in Expansion /\ x.source = call.selected /\ x.edges = {call.selected} \X x.created
  BY <1>1, ApplyExpansionType
<1> HIDE DEF x
<1>3. PICK t \in G : Shows(t, trace', e)
  BY <1>1, <1>2, ExpansionTraceStays
<1>4. e \in Entry
  BY <1>3 DEF Shows, Follows
<1> QED
  BY <1>3, <1>4 DEF Resolves

\* And in those of the mirror.
LEMMA ExpandEffect ==
    ASSUME Recorded, ExpandSelected
    PROVE  LET created == {Child[call.selected]} \ ({NoNode} \union Nodes(call.graph))
           IN  /\ call.selected \in Frontier(call.graph) /\ call.selected \in Node
               /\ call.selected \in Known(trace) /\ created \in SUBSET Node
               /\ call.selected \notin created /\ created \intersect Nodes(call.graph) = {}
               /\ \A n \in Node : trace'.known[n] = IF n = call.selected THEN "resolved"
                                                   ELSE IF n \in created \ Known(trace) THEN "pending"
                                                   ELSE trace.known[n]
               /\ trace'.edges = trace.edges \union ({call.selected} \X created)
               /\ trace'.visible = trace.visible \ {call.selected}
               /\ \A n \in Node : call'.graph.state[n]
                                     = IF n = call.selected THEN "resolved"
                                       ELSE IF n \in created THEN "pending" ELSE call.graph.state[n]
               /\ call'.graph.edges = call.graph.edges \union ({call.selected} \X created)
               /\ summary' = summary /\ session' = session /\ call' \in RankCall
               /\ call'.node = call.node /\ call'.depth = call.depth
<1> DEFINE x == ExpandNode(call.graph, call.selected)
           created == {Child[call.selected]} \ ({NoNode} \union Nodes(call.graph))
<1>1. /\ call.graph \in Graph /\ call.selected \in Frontier(call.graph)
      /\ call.selected \in Known(trace) /\ trace' = ExpansionTrace(x) /\ summary' = summary
      /\ call'.graph = ApplyExpansion(call.graph, x) /\ session' = session /\ call' \in RankCall
      /\ call'.node = call.node /\ call'.depth = call.depth
  BY ExpandReports DEF Recorded, Chosen, ExpandSelected, ObserveExpansion, ExpandCall
<1>2. /\ x \in Expansion /\ x.source = call.selected /\ x.created = created
      /\ x.edges = {call.selected} \X created
      /\ \A n \in Node : call'.graph.state[n]
                            = IF n = call.selected THEN "resolved"
                              ELSE IF n \in created THEN "pending" ELSE call.graph.state[n]
      /\ call'.graph.edges = call.graph.edges \union ({call.selected} \X created)
  BY <1>1, ApplyExpansionType
<1>3. call.selected \in Node /\ call.selected \in Nodes(call.graph) /\ call.selected \notin created
  BY <1>1 DEF Frontier, Nodes, Absent
<1>4. created \in SUBSET Node
  BY <1>3
<1>5. TypeOK
  BY DEF Recorded, Typed, LookaheadTypeOK
<1>6. created \intersect Nodes(call.graph) = {}
  OBVIOUS
<1> HIDE DEF x, created
<1>7. /\ \A n \in Node : trace'.known[n] = IF n = call.selected THEN "resolved"
                                                   ELSE IF n \in created \ Known(trace) THEN "pending"
                                                   ELSE trace.known[n]
      /\ trace'.edges = trace.edges \union ({call.selected} \X created)
      /\ trace'.visible = trace.visible \ {call.selected}
  <2>1. x.source \in Known(trace) /\ x.source \notin x.created
    BY <1>1, <1>2, <1>3
  <2>2. /\ \A n \in Node : ExpansionTrace(x).known[n]
                              = IF n = x.source THEN "resolved"
                                              ELSE IF n \in x.created \ Known(trace) THEN "pending"
                                              ELSE trace.known[n]
        /\ ExpansionTrace(x).edges = trace.edges \union x.edges
        /\ ExpansionTrace(x).visible = trace.visible \ {x.source}
    BY <1>2, <1>5, <2>1, ExpansionTraceEffect, ZenonT(30)
  <2> QED
    BY <1>1, <1>2, <2>2
<1>8. /\ call.selected \in Frontier(call.graph) /\ call.selected \in Node
      /\ call.selected \in Known(trace) /\ created \in SUBSET Node
      /\ call.selected \notin created /\ created \intersect Nodes(call.graph) = {}
      /\ \A n \in Node : call'.graph.state[n]
                                     = IF n = call.selected THEN "resolved"
                                       ELSE IF n \in created THEN "pending" ELSE call.graph.state[n]
      /\ call'.graph.edges = call.graph.edges \union ({call.selected} \X created)
      /\ summary' = summary /\ session' = session /\ call' \in RankCall
      /\ call'.node = call.node /\ call'.depth = call.depth
  BY <1>1, <1>2, <1>3, <1>4, <1>6
<1>9. created = {Child[call.selected]} \ ({NoNode} \union Nodes(call.graph))
  BY DEF created
<1> QED
  BY <1>7, <1>8, <1>9

LEMMA RecordedInit == LookaheadInit => Recorded
<1> SUFFICES ASSUME LookaheadInit PROVE Recorded
  OBVIOUS
<1>1. Typed /\ trace = NoTrace /\ call.pc = "idle"
  BY LookaheadInitTyped DEF LookaheadInit, Init, Idle
<1> QED
  BY <1>1, NoTracePlaced DEF Recorded, Chosen

LEMMA RecordedNext == Recorded /\ [LookaheadNext]_lookaheadVars => Recorded'
<1> SUFFICES ASSUME Recorded, [LookaheadNext]_lookaheadVars PROVE Recorded'
  OBVIOUS
<1>0. /\ Typed /\ LookaheadTypeOK /\ TypeOK /\ iteration \in Nat /\ trace \in Placed
      /\ PlainClosed(Placed)
  BY PlacedClosed DEF Recorded, Typed, LookaheadTypeOK, TypeOK
<1>1. Typed'
  BY <1>0, LookaheadNextTyped
<1>2. CASE Rank
  <2>1. PICK d \in TraversalDecision : ObserveFrontierDecision(d) /\ call'.selected = d.selected
    BY <1>0, <1>2, RankReports
  <2>2. trace' = FrontierTrace(d) /\ d \in FrontierDecision
    BY <2>1 DEF ObserveFrontierDecision, TraversalDecision
  <2>3. trace' \in Placed
    BY <1>0, <2>2, FrontierTraceStays
  <2>4. call'.selected \in Known(trace')
    BY <1>0, <2>1, <2>2, SelectedIsShown
  <2> QED
    BY <1>1, <2>3, <2>4 DEF Recorded, Chosen, Known
<1>3. CASE ExpandSelected
  <2>1. trace' \in Placed
    BY <1>0, <1>3, ExpandEntry, ShowsKeepsPlaced
  <2>2. call'.pc = "rank"
    BY <1>0, <1>3, ExpandReports DEF RankCall
  <2> QED
    BY <1>1, <2>1, <2>2 DEF Recorded, Chosen
<1>4. CASE TraceElsewhere /\ CallElsewhere
  <2>1. trace' \in Placed
    BY <1>0, <1>4, AnchorTraceStays, NoTracePlaced DEF TraceElsewhere
  <2>2. call'.pc # "expand"
    BY <1>0, <1>4, ElsewhereCall
  <2> QED
    BY <1>1, <2>1, <2>2 DEF Recorded, Chosen
<1>5. CASE trace' = trace /\ call' = call
  BY <1>1, <1>5 DEF Recorded, Chosen, Known
<1> QED
  BY <1>0, <1>2, <1>3, <1>4, <1>5, StepCases

LEMMA AlwaysRecorded == LookaheadSpec => []Recorded
  BY RecordedInit, RecordedNext, PTL DEF LookaheadSpec

\* However expand, resolve, collect and reset follow each other, and whatever the policy
\* selects, no edge of the log comes before the addNodes events of its two ends: add_edges
\* is only ever called with a shown source, or with children that were just added.
THEOREM EdgesAfterNodesAlways == LookaheadSpec => []EdgesAfterNodes
<1>1. Recorded => EdgesAfterNodes
  BY DEF Recorded, Placed, EdgesPlaced, AddedBefore, EdgesAfterNodes
<1> QED
  BY <1>1, AlwaysRecorded, PTL

\* Every node the log resolves was shown in it before, as pending: candidates by the decision
\* that selects one of them, however many of the others are hidden.
THEOREM PendingBeforeResolvedAlways == LookaheadSpec => []PendingBeforeResolved
<1>1. Recorded => PendingBeforeResolved
  <2> SUFFICES ASSUME Recorded, NEW j \in DOMAIN trace.events, trace.events[j].type = "updateNode",
                      NEW n \in trace.events[j].nodes
               PROVE  \E i \in 1..(j-1) : Adds(trace.events[i], n) /\ trace.events[i].state = "pending"
    BY DEF PendingBeforeResolved
  <2>1. Consistent(trace) /\ AddedPending(trace)
    BY DEF Recorded, Placed
  <2>2. DOMAIN trace.events = 1..Len(trace.events) /\ Len(trace.events) \in Nat
    BY <2>1 DEF Consistent, TraceType
  <2>3. PICK i \in 1..(j-1) : Adds(trace.events[i], n)
    BY <2>1 DEF Consistent, Applicable, AddedBefore
  <2>4. i \in DOMAIN trace.events
    BY <2>2
  <2> QED
    BY <2>1, <2>3, <2>4 DEF AddedPending, Adds
<1> QED
  BY <1>1, AlwaysRecorded, PTL

\* The steps counted, less the one that is not over, are the expansions in the log.
StepsUnderWay == IF call.pc = "expand" THEN 1 ELSE 0

StepsInLog == Cardinality(Resolutions(trace)) + StepsUnderWay = summary.lookaheadSteps

LEMMA StepsInLogInit == LookaheadInit => StepsInLog
<1> SUFFICES ASSUME LookaheadInit PROVE StepsInLog
  OBVIOUS
<1>1. trace = NoTrace /\ summary.lookaheadSteps = 0 /\ call.pc = "idle"
  BY DEF LookaheadInit, Init, Idle, NoSummary
<1>2. Resolutions(trace) = {}
  BY <1>1 DEF Resolutions, NoTrace
<1> QED
  BY <1>1, <1>2, FS_EmptySet DEF StepsInLog, StepsUnderWay

LEMMA StepsInLogNext == Recorded /\ StepsInLog /\ [LookaheadNext]_lookaheadVars => StepsInLog'
<1> SUFFICES ASSUME Recorded, StepsInLog, [LookaheadNext]_lookaheadVars PROVE StepsInLog'
  OBVIOUS
<1> DEFINE k == Cardinality(Resolutions(trace))
<1>0. /\ Typed /\ LookaheadTypeOK /\ TypeOK /\ iteration \in Nat /\ summary \in Summary
      /\ Consistent(trace) /\ trace \in TraceType
  BY DEF Recorded, Typed, LookaheadTypeOK, TypeOK, Placed
<1>1. PlainClosed(WithResolutions(k)) /\ trace \in WithResolutions(k) /\ k \in Nat
  BY <1>0, ResolutionsClosed, ResolutionsFinite DEF WithResolutions
<1>2. k + StepsUnderWay = summary.lookaheadSteps
  BY DEF StepsInLog
<1> HIDE DEF k
<1>3. CASE Rank
  <2>1. PICK d \in TraversalDecision : ObserveFrontierDecision(d)
    BY <1>0, <1>3, RankReports
  <2>2. /\ trace' = FrontierTrace(d) /\ d \in FrontierDecision
        /\ summary'.lookaheadSteps = summary.lookaheadSteps + 1
    BY <1>0, <2>1 DEF ObserveFrontierDecision, TraversalDecision, Summary
  <2>3. trace' \in WithResolutions(k)
    BY <1>0, <1>1, <2>2, FrontierTraceStays
  <2>4. call.pc = "rank" /\ call'.pc = "expand"
    BY <1>0, <1>3, RankReports DEF RankCall, ExpandCall
  <2>5. Cardinality(Resolutions(trace)') = k
    BY <2>3 DEF WithResolutions, Resolutions
  <2> QED
    BY <1>1, <1>2, <2>2, <2>4, <2>5 DEF StepsInLog, StepsUnderWay
<1>4. CASE ExpandSelected
  <2>1. PICK t \in WithResolutions(k), e \in Entry : Shows(t, trace', e) /\ Resolves(e)
    BY <1>1, <1>4, ExpandEntry
  <2>2. Consistent(t) /\ Follows(t, trace', e) /\ Cardinality(Resolutions(t)) = k
    BY <2>1 DEF WithResolutions, Shows
  <2>3. Cardinality(Resolutions(trace')) = k + 1
    BY <2>1, <2>2, FollowsCountsResolutions
  <2>4. Cardinality(Resolutions(trace)') = k + 1
    BY <2>3 DEF Resolutions
  <2>5. call.pc = "expand" /\ call'.pc = "rank" /\ summary' = summary
    BY <1>0, <1>4, ExpandReports DEF RankCall, ExpandCall, ObserveExpansion
  <2> QED
    BY <1>1, <1>2, <2>4, <2>5 DEF StepsInLog, StepsUnderWay
<1>5. CASE call.pc # "expand" /\ TraceElsewhere /\ CallElsewhere
  <2>1. StepsUnderWay = 0 /\ StepsUnderWay' = 0
    BY <1>0, <1>5, ElsewhereCall DEF StepsUnderWay
  <2>2. CASE trace' \in WithResolutions(k) /\ CountsStay
    <3>1. Cardinality(Resolutions(trace)') = k
      BY <2>2 DEF WithResolutions, Resolutions
    <3> QED
      BY <1>1, <1>2, <2>1, <2>2, <3>1 DEF StepsInLog, CountsStay
  <2>3. CASE trace' = NoTrace /\ summary' = NoSummary
    <3>1. Resolutions(trace)' = {} /\ summary'.lookaheadSteps = 0
      BY <2>3 DEF Resolutions, NoTrace, NoSummary
    <3> QED
      BY <2>1, <3>1, FS_EmptySet DEF StepsInLog
  <2>4. (\E d \in AnchorDecision : trace' = AnchorTrace(d)) => trace' \in WithResolutions(k)
    BY <1>0, <1>1, AnchorTraceStays
  <2> QED
    BY <1>1, <1>5, <2>2, <2>3, <2>4 DEF TraceElsewhere
<1>6. CASE trace' = trace /\ summary' = summary /\ call' = call
  BY <1>6 DEF StepsInLog, StepsUnderWay, Resolutions
<1> QED
  BY <1>0, <1>3, <1>4, <1>5, <1>6, StepCases

LEMMA AlwaysStepsInLog == LookaheadSpec => []StepsInLog
  BY AlwaysRecorded, StepsInLogInit, StepsInLogNext, PTL DEF LookaheadSpec

\* When no step is under way there is exactly one expansion in the log for every lookahead
\* step counted since the last clear, wherever a policy raised: a call ends in an error
\* before its decision is reported, and once it is reported the expansion follows.
THEOREM EveryDecisionExpandedAlways == LookaheadSpec => []EveryDecisionExpanded
<1>1. Recorded /\ StepsInLog => EveryDecisionExpanded
  <2> SUFFICES ASSUME Recorded, StepsInLog, call.pc # "expand" PROVE EveryDecisionExpanded
    BY DEF EveryDecisionExpanded
  <2>1. Cardinality(Resolutions(trace)) \in Nat
    BY ResolutionsFinite DEF Recorded, Placed
  <2>2. Cardinality(Resolutions(trace)) = summary.lookaheadSteps
    BY <2>1 DEF StepsInLog, StepsUnderWay
  <2> QED
    BY <2>2 DEF EveryDecisionExpanded, Resolutions, Resolves
<1> QED
  BY <1>1, AlwaysRecorded, AlwaysStepsInLog, PTL

----
(* The limit.                                                              *)

\* The sticky ids, but for the one that is about to be resolved, leave room for one more.
Sticky == IF call.pc = "expand" THEN trace.visible \ {call.selected} ELSE trace.visible

FewSticky == VisibleWithinLimit /\ Cardinality(Sticky) < MaxVisiblePending

LEMMA VisibleFinite ==
    ASSUME TypeOK
    PROVE  IsFiniteSet(trace.visible) /\ Cardinality(trace.visible) \in Nat
<1>1. trace.visible \in SUBSET Node
  BY DEF TypeOK, TraceType
<1> QED
  BY <1>1, FS_Subset, FS_CardinalityType

LEMMA FewStickyInit == LookaheadInit => FewSticky
<1> SUFFICES ASSUME LookaheadInit PROVE FewSticky
  OBVIOUS
<1>1. /\ trace.visible = {} /\ summary.frontier = 0 /\ summary.hidden = 0 /\ call.pc = "idle"
  BY DEF LookaheadInit, Init, NoTrace, NoSummary, Idle
<1>2. Cardinality({}) = 0 /\ MaxVisiblePending \in Nat \ {0}
  BY FS_EmptySet
<1> QED
  BY <1>1, <1>2 DEF FewSticky, Sticky, VisibleWithinLimit

\* A step shows no more than the limit, and what it selects is one of those.
LEMMA RankShowsFew ==
    ASSUME Recorded, FewSticky, Rank
    PROVE  FewSticky'
<1>0. TypeOK /\ LookaheadTypeOK /\ MaxVisiblePending \in Nat \ {0}
  BY DEF Recorded, Typed, LookaheadTypeOK
<1>1. PICK d \in TraversalDecision : ObserveFrontierDecision(d) /\ call'.selected = d.selected
  BY <1>0, RankReports
<1>2. call.pc = "rank" /\ call'.pc = "expand"
  BY <1>0, RankReports DEF RankCall, ExpandCall
<1>3. trace' = FrontierTrace(d)
  BY <1>1 DEF ObserveFrontierDecision
<1> DEFINE V == VisibleFrontier(d)
           shown == ShownCount(d)
           left == d.frontierCount - shown
           hidden == Larger(Larger(d.hiddenCount, left), 0)
<1>4. /\ IsFiniteSet(V) /\ d.selected \in V /\ Cardinality(V) <= MaxVisiblePending
      /\ shown \in Nat /\ shown <= MaxVisiblePending
  <2>1. IsFiniteSet(trace.visible) /\ Cardinality(trace.visible) < MaxVisiblePending
    BY <1>0, <1>2, VisibleFinite DEF FewSticky, Sticky
  <2> QED
    BY <2>1, VisibleFrontierBound
<1>5. trace'.visible \in SUBSET V
  BY <1>0, <1>3, FrontierTraceEffect
<1>6. d.frontierCount \in Nat /\ d.hiddenCount = 0
  BY DEF TraversalDecision, FrontierDecision
<1>7. summary'.frontier = d.frontierCount /\ summary'.hidden = hidden
  BY <1>0, <1>1 DEF ObserveFrontierDecision, TypeOK, Summary
<1> HIDE DEF V, shown
<1>8. summary'.frontier - summary'.hidden <= MaxVisiblePending
  BY <1>0, <1>4, <1>6, <1>7 DEF Larger
<1>9. Cardinality(V) \in Nat
  BY <1>4, FS_CardinalityType
<1>10. Cardinality(trace'.visible) \in Nat /\ Cardinality(trace'.visible) <= MaxVisiblePending
  <2>1. IsFiniteSet(trace'.visible) /\ Cardinality(trace'.visible) <= Cardinality(V)
    BY <1>4, <1>5, FS_Subset
  <2>2. Cardinality(trace'.visible) \in Nat
    BY <2>1, FS_CardinalityType
  <2> QED
    BY <1>0, <1>4, <1>9, <2>1, <2>2
<1>11. Cardinality(trace'.visible \ {d.selected}) < MaxVisiblePending
  <2> DEFINE others == trace'.visible \ {d.selected}
  <2>1. others \in SUBSET V /\ others # V
    BY <1>4, <1>5
  <2> HIDE DEF others
  <2>2. Cardinality(others) \in Nat /\ Cardinality(others) < Cardinality(V)
    BY <1>4, <2>1, ProperSubset
  <2>3. Cardinality(others) < MaxVisiblePending
    BY <1>0, <1>4, <1>9, <2>2
  <2> QED
    BY <2>3 DEF others
<1> HIDE DEF hidden
<1>12. Sticky' = trace'.visible \ {d.selected}
  BY <1>1, <1>2 DEF Sticky
<1> QED
  BY <1>8, <1>10, <1>11, <1>12 DEF FewSticky, VisibleWithinLimit

LEMMA FewStickyNext == Recorded /\ FewSticky /\ [LookaheadNext]_lookaheadVars => FewSticky'
<1> SUFFICES ASSUME Recorded, FewSticky, [LookaheadNext]_lookaheadVars PROVE FewSticky'
  OBVIOUS
<1>0. /\ Typed /\ LookaheadTypeOK /\ TypeOK /\ MaxVisiblePending \in Nat \ {0}
      /\ IsFiniteSet(trace.visible) /\ Cardinality(trace.visible) \in Nat
      /\ Cardinality(Sticky) < MaxVisiblePending
      /\ Cardinality(trace.visible) <= MaxVisiblePending
      /\ summary.frontier - summary.hidden <= MaxVisiblePending
  BY VisibleFinite DEF Recorded, Typed, LookaheadTypeOK, FewSticky, VisibleWithinLimit
<1>1. CASE Rank
  BY <1>1, RankShowsFew
<1>2. CASE ExpandSelected
  <2>1. call.pc = "expand" /\ call'.pc = "rank" /\ summary' = summary
    BY <1>0, <1>2, ExpandReports DEF RankCall, ExpandCall, ObserveExpansion
  <2>2. trace'.visible = trace.visible \ {call.selected}
    BY <1>2, ExpandEffect
  <2>3. Sticky' = Sticky /\ trace'.visible = Sticky
    BY <2>1, <2>2 DEF Sticky
  <2>4. Cardinality(trace'.visible) \in Nat
    BY <1>0, <2>2, FS_Subset, FS_CardinalityType
  <2>5. Cardinality(trace'.visible) < MaxVisiblePending
    BY <1>0, <2>3
  <2>6. Cardinality(trace'.visible) <= MaxVisiblePending
    BY <1>0, <2>4, <2>5
  <2> QED
    BY <1>0, <2>1, <2>3, <2>5, <2>6 DEF FewSticky, VisibleWithinLimit
<1>3. CASE call.pc # "expand" /\ TraceElsewhere /\ CallElsewhere
  <2>1. call'.pc # "expand" /\ Sticky = trace.visible /\ Sticky' = trace'.visible
    BY <1>0, <1>3, ElsewhereCall DEF Sticky
  <2>2. CASE trace'.visible \subseteq trace.visible /\ CountsStay
    <3>1. IsFiniteSet(trace'.visible) /\ Cardinality(trace'.visible) <= Cardinality(trace.visible)
      BY <1>0, <2>2, FS_Subset
    <3>2. Cardinality(trace'.visible) \in Nat
      BY <3>1, FS_CardinalityType
    <3>3. Cardinality(trace'.visible) < MaxVisiblePending /\ Cardinality(trace'.visible) <= MaxVisiblePending
      BY <1>0, <2>1, <3>1, <3>2
    <3> QED
      BY <1>0, <2>1, <2>2, <3>3 DEF FewSticky, VisibleWithinLimit, CountsStay
  <2>3. CASE trace' = NoTrace /\ summary' = NoSummary
    <3>1. trace'.visible = {} /\ summary'.frontier = 0 /\ summary'.hidden = 0
      BY <2>3 DEF NoTrace, NoSummary
    <3>2. Cardinality({}) = 0
      BY FS_EmptySet
    <3> QED
      BY <1>0, <2>1, <3>1, <3>2 DEF FewSticky, VisibleWithinLimit
  <2>4. (\E d \in AnchorDecision : trace' = AnchorTrace(d)) => trace'.visible \subseteq trace.visible
    BY <1>0, AnchorTraceEffect
  <2> QED
    BY <1>3, <2>2, <2>3, <2>4 DEF TraceElsewhere
<1>4. CASE trace' = trace /\ summary' = summary /\ call' = call
  BY <1>4 DEF FewSticky, VisibleWithinLimit, Sticky
<1> QED
  BY <1>0, <1>1, <1>2, <1>3, <1>4, StepCases

LEMMA AlwaysFewSticky == LookaheadSpec => []FewSticky
  BY AlwaysRecorded, FewStickyInit, FewStickyNext, PTL DEF LookaheadSpec

\* The limit holds of every frontier, for any limit and over any number of calls, although
\* the recorder keeps sticky ids without looking at it: the selected node of a decision
\* leaves them by its expansion before the next decision is reported.
THEOREM VisibleWithinLimitAlways == LookaheadSpec => []VisibleWithinLimit
<1>1. FewSticky => VisibleWithinLimit
  BY DEF FewSticky
<1> QED
  BY <1>1, AlwaysFewSticky, PTL

----
(* The trace and the working graph.                                        *)

LEMMA FollowsInit == LookaheadInit => TraceFollowsTraversal
  BY DEF LookaheadInit, Idle, TraceFollowsTraversal

LEMMA FollowsNext ==
    Recorded /\ TraceFollowsTraversal /\ [LookaheadNext]_lookaheadVars => TraceFollowsTraversal'
<1> SUFFICES ASSUME Recorded, TraceFollowsTraversal, [LookaheadNext]_lookaheadVars
             PROVE  TraceFollowsTraversal'
  OBVIOUS
<1>0. Typed /\ LookaheadTypeOK /\ TypeOK
  BY DEF Recorded, Typed, LookaheadTypeOK
<1>1. CASE Rank
  <2>1. PICK d \in TraversalDecision : ObserveFrontierDecision(d)
    BY <1>0, <1>1, RankReports
  <2>2. call'.graph = call.graph /\ session' = session /\ call.pc # "idle"
    BY <1>0, <1>1, RankReports DEF RankCall
  <2>3. \A n \in Node : trace'.known[n] = IF n \in VisibleFrontier(d) \ Known(trace) THEN "pending"
                                          ELSE trace.known[n]
    BY <1>0, <2>1, FrontierTraceEffect DEF ObserveFrontierDecision
  <2>4. \A n \in Node : n \in Known(trace) => n \in Known(trace') /\ trace'.known[n] = trace.known[n]
    BY <2>3 DEF Known
  <2>5. \A n \in Node : trace.known[n] = "resolved" => n \in Known(trace)
    BY DEF Known, Absent
  <2> QED
    BY <2>2, <2>4, <2>5 DEF TraceFollowsTraversal, Nodes, Known
<1>2. CASE ExpandSelected
  <2> DEFINE created == {Child[call.selected]} \ ({NoNode} \union Nodes(call.graph))
  <2>1. /\ \A n \in Node : trace'.known[n] = IF n = call.selected THEN "resolved"
                                             ELSE IF n \in created \ Known(trace) THEN "pending"
                                             ELSE trace.known[n]
        /\ \A n \in Node : call'.graph.state[n]
                              = IF n = call.selected THEN "resolved"
                                ELSE IF n \in created THEN "pending" ELSE call.graph.state[n]
        /\ call.selected \in Node /\ call.selected \in Known(trace) /\ session' = session
    BY <1>2, ExpandEffect
  <2>2. call.pc # "idle"
    BY <1>2 DEF ExpandSelected
  <2> HIDE DEF created
  <2>3. ASSUME NEW n \in Node, call'.graph.state[n] = "resolved", session.state[n] # "resolved"
        PROVE  trace'.known[n] = "resolved"
    <3>1. CASE n = call.selected
      BY <2>1, <3>1
    <3>2. CASE n # call.selected
      <4>1. n \notin created /\ call.graph.state[n] = "resolved"
        BY <2>1, <2>3, <3>2
      <4>2. trace.known[n] = "resolved"
        BY <2>2, <2>3, <4>1 DEF TraceFollowsTraversal
      <4> QED
        BY <2>1, <3>2, <4>1, <4>2
    <3> QED
      BY <3>1, <3>2
  <2>4. ASSUME NEW n \in Node, call'.graph.state[n] # Absent, session.state[n] = Absent
        PROVE  trace'.known[n] # Absent
    <3>1. CASE n \in created \/ n = call.selected
      BY <2>1, <3>1 DEF Known, Absent
    <3>2. CASE n \notin created /\ n # call.selected
      <4>1. call.graph.state[n] # Absent
        BY <2>1, <2>4, <3>2
      <4>2. trace.known[n] # Absent
        BY <2>2, <2>4, <4>1 DEF TraceFollowsTraversal, Nodes, Known
      <4> QED
        BY <2>1, <3>2, <4>2
    <3> QED
      BY <3>1, <3>2
  <2> QED
    BY <2>1, <2>3, <2>4 DEF TraceFollowsTraversal, Nodes, Known
<1>3. CASE call'.pc = "idle"
  BY <1>3 DEF TraceFollowsTraversal
<1>4. CASE CallMade
  <2>1. session' = session /\ \E S : call'.graph = Subgraph(session, S)
    BY <1>4 DEF CallMade
  <2>2. \A n \in Node : call'.graph.state[n] = session.state[n] \/ call'.graph.state[n] = Absent
    BY <2>1 DEF Subgraph
  <2> QED
    BY <2>1, <2>2 DEF TraceFollowsTraversal, Nodes, Absent
<1>5. CASE trace' = trace /\ call' = call /\ session' = session
  BY <1>5 DEF TraceFollowsTraversal, Nodes, Known
<1> QED
  BY <1>0, <1>1, <1>2, <1>3, <1>4, <1>5, StepCases, ElsewhereCall

\* While a call runs the trace is not behind its working graph, whatever earlier calls,
\* resolves and collects left in the trace: what the call has expanded is resolved there,
\* and what it has created is there.
THEOREM TraceFollowsTraversalAlways == LookaheadSpec => []TraceFollowsTraversal
  BY AlwaysRecorded, FollowsInit, FollowsNext, PTL DEF LookaheadSpec

----
(* The balls of a graph.                                                   *)

\* The nodes that a walk of k steps along edges, or on the spot, reaches.
Walks(g, n, k) ==
    {p \in [0..k -> Node] : p[0] = n /\ \A i \in 0..k : i > 0 => p[i] \in Neighbours(g, p[i-1]) \union {p[i-1]}}

Reached(g, n, k) == {p[k] : p \in Walks(g, n, k)}

Around(g, S) == S \union UNION {Neighbours(g, m) : m \in S}

LEMMA ReachedStart ==
    ASSUME NEW g, NEW n \in Node
    PROVE  Reached(g, n, 0) = {n}
<1>1. Reached(g, n, 0) \subseteq {n}
  BY DEF Reached, Walks
<1> DEFINE p == [i \in 0..0 |-> n]
<1>2. p \in Walks(g, n, 0)
  BY DEF Walks
<1>3. p[0] = n
  OBVIOUS
<1> HIDE DEF p
<1>4. n \in Reached(g, n, 0)
  BY <1>2, <1>3 DEF Reached
<1> QED
  BY <1>1, <1>4

LEMMA ReachedNext ==
    ASSUME NEW g, NEW n \in Node, NEW k \in Nat
    PROVE  Reached(g, n, k + 1) = Around(g, Reached(g, n, k))
<1>1. ASSUME NEW m \in Reached(g, n, k + 1) PROVE m \in Around(g, Reached(g, n, k))
  <2>1. PICK p \in Walks(g, n, k + 1) : m = p[k + 1]
    BY DEF Reached
  <2> DEFINE q == [i \in 0..k |-> p[i]]
  <2>2. q \in Walks(g, n, k) /\ q[k] = p[k]
    BY DEF Walks
  <2>3. m \in Neighbours(g, p[k]) \union {p[k]}
    BY <2>1 DEF Walks
  <2> HIDE DEF q
  <2>4. p[k] \in Reached(g, n, k)
    BY <2>2 DEF Reached
  <2> QED
    BY <2>3, <2>4 DEF Around
<1>2. ASSUME NEW m \in Around(g, Reached(g, n, k)) PROVE m \in Reached(g, n, k + 1)
  <2>1. PICK o \in Reached(g, n, k) : m \in Neighbours(g, o) \union {o}
    BY <1>2 DEF Around
  <2>2. PICK q \in Walks(g, n, k) : o = q[k]
    BY DEF Reached
  <2> DEFINE p == [i \in 0..(k + 1) |-> IF i = k + 1 THEN m ELSE q[i]]
  <2>3. m \in Node
    BY <2>1, <2>2 DEF Neighbours, Walks
  <2>4. p \in [0..(k + 1) -> Node] /\ p[0] = n /\ p[k + 1] = m /\ p[k] = o
    BY <2>2, <2>3 DEF Walks
  <2>5. ASSUME NEW i \in 0..(k + 1), i > 0 PROVE p[i] \in Neighbours(g, p[i-1]) \union {p[i-1]}
    <3>1. CASE i = k + 1
      BY <2>1, <2>4, <3>1
    <3>2. CASE i # k + 1
      <4>1. i \in 0..k /\ i - 1 \in 0..k /\ i - 1 # k + 1 /\ i - 1 \in 0..(k + 1)
        BY <2>5, <3>2
      <4>2. p[i] = q[i] /\ p[i-1] = q[i-1]
        BY <3>2, <4>1
      <4> QED
        BY <2>2, <2>5, <4>1, <4>2 DEF Walks
    <3> QED
      BY <3>1, <3>2
  <2> HIDE DEF p
  <2>6. p \in Walks(g, n, k + 1)
    BY <2>4, <2>5 DEF Walks
  <2> QED
    BY <2>4, <2>6 DEF Reached
<1> QED
  BY <1>1, <1>2

\* A ball grows by the neighbours of what it holds.
LEMMA BallGrows ==
    ASSUME NEW g, NEW n \in Node
    PROVE  /\ Ball(g, n, 0) = {n}
           /\ \A k \in Nat : Ball(g, n, k + 1) = Around(g, Ball(g, n, k))
<1> DEFINE within[k \in Nat] ==
              IF k = 0 THEN {n}
              ELSE within[k-1] \union UNION {Neighbours(g, m) : m \in within[k-1]}
           reached == [k \in Nat |-> Reached(g, n, k)]
<1>1. reached = [k \in Nat |-> IF k = 0 THEN {n}
                               ELSE reached[k-1] \union UNION {Neighbours(g, m) : m \in reached[k-1]}]
  <2>1. ASSUME NEW k \in Nat
        PROVE  reached[k] = IF k = 0 THEN {n}
                            ELSE reached[k-1] \union UNION {Neighbours(g, m) : m \in reached[k-1]}
    <3>1. CASE k = 0
      BY <3>1, ReachedStart
    <3>2. CASE k # 0
      <4>1. k - 1 \in Nat /\ (k - 1) + 1 = k
        BY <3>2
      <4>2. Reached(g, n, k) = Around(g, Reached(g, n, k - 1))
        BY <4>1, ReachedNext
      <4> QED
        BY <3>2, <4>1, <4>2 DEF Around
    <3> QED
      BY <3>1, <3>2
  <2> QED
    BY <2>1
<1>2. within = [k \in Nat |-> IF k = 0 THEN {n}
                              ELSE within[k-1] \union UNION {Neighbours(g, m) : m \in within[k-1]}]
  <2> HIDE DEF reached
  <2> QED
    BY <1>1
<1>3. \A k : Ball(g, n, k) = within[k]
  BY DEF Ball
<1> HIDE DEF within, reached
<1>4. within[0] = {n} /\ \A k \in Nat : within[k + 1] = Around(g, within[k])
  <2>1. within[0] = {n}
    BY <1>2
  <2>2. ASSUME NEW k \in Nat PROVE within[k + 1] = Around(g, within[k])
    <3>1. k + 1 \in Nat /\ k + 1 # 0 /\ (k + 1) - 1 = k
      OBVIOUS
    <3>2. within[k + 1] = within[(k + 1) - 1] \union UNION {Neighbours(g, m) : m \in within[(k + 1) - 1]}
      BY <1>2, <3>1
    <3> QED
      BY <3>1, <3>2 DEF Around
  <2> QED
    BY <2>1, <2>2
<1> QED
  BY <1>3, <1>4

LEMMA BallsNest ==
    ASSUME NEW g, NEW n \in Node, NEW k \in Nat
    PROVE  /\ Ball(g, n, k) \in SUBSET Node
           /\ \A j \in Nat : Ball(g, n, k) \subseteq Ball(g, n, k + j)
           /\ n \in Ball(g, n, k)
<1> DEFINE T == {j \in Nat : Ball(g, n, j) \in SUBSET Node /\ n \in Ball(g, n, j)}
           U == {j \in Nat : Ball(g, n, k) \subseteq Ball(g, n, k + j)}
<1>0. /\ Ball(g, n, 0) = {n}
      /\ \A j \in Nat : Ball(g, n, j + 1) = Around(g, Ball(g, n, j))
  BY BallGrows
<1>1. 0 \in T /\ \A j \in Nat : j \in T => j + 1 \in T
  <2>1. \A S \in SUBSET Node : Around(g, S) \in SUBSET Node /\ S \subseteq Around(g, S)
    BY DEF Around, Neighbours
  <2> QED
    BY <1>0, <2>1
<1>2. 0 \in U /\ \A j \in Nat : j \in U => j + 1 \in U
  <2>1. \A j \in Nat : k + j \in Nat /\ k + (j + 1) = (k + j) + 1
    OBVIOUS
  <2>2. \A j \in Nat : Ball(g, n, k + j) \subseteq Ball(g, n, k + (j + 1))
    <3> TAKE j \in Nat
    <3>1. Ball(g, n, (k + j) + 1) = Around(g, Ball(g, n, k + j))
      BY <1>0, <2>1
    <3> QED
      BY <2>1, <3>1 DEF Around
  <2>3. k + 0 = k
    OBVIOUS
  <2> QED
    BY <2>2, <2>3
<1> HIDE DEF T, U
<1>3. (\A j \in Nat : j \in T) /\ (\A j \in Nat : j \in U)
  BY <1>1, <1>2, SetInduction
<1> QED
  BY <1>3 DEF T, U

\* One edge further.
LEMMA BallReaches ==
    ASSUME NEW g, NEW n \in Node, NEW k \in Nat
    PROVE  /\ \A m \in Ball(g, n, k), o \in Node :
                 <<m, o>> \in g.edges \/ <<o, m>> \in g.edges => o \in Ball(g, n, k + 1)
           /\ \A o \in Ball(g, n, k + 1) : o \notin Ball(g, n, k) =>
                 \E m \in Ball(g, n, k) : <<m, o>> \in g.edges \/ <<o, m>> \in g.edges
<1>1. Ball(g, n, k + 1) = Around(g, Ball(g, n, k))
  BY BallGrows
<1>2. \A m, o \in Node : o \in Neighbours(g, m) <=> <<m, o>> \in g.edges \/ <<o, m>> \in g.edges
  BY DEF Neighbours
<1>3. Ball(g, n, k) \in SUBSET Node /\ \A m : Neighbours(g, m) \in SUBSET Node
  BY BallsNest DEF Neighbours
<1> DEFINE B == Ball(g, n, k)
<1>4. \A o : o \in Around(g, B) <=> o \in B \/ \E m \in B : o \in Neighbours(g, m)
  BY DEF Around
<1> HIDE DEF B
<1>5. \A m \in B, o \in Node : <<m, o>> \in g.edges \/ <<o, m>> \in g.edges => o \in Around(g, B)
  BY <1>2, <1>3, <1>4 DEF B
<1>6. \A o \in Around(g, B) : o \notin B => \E m \in B : <<m, o>> \in g.edges \/ <<o, m>> \in g.edges
  BY <1>2, <1>3, <1>4 DEF B
<1> QED
  BY <1>1, <1>5, <1>6 DEF B

----
(* The answer of a call.                                                   *)

\* m was expanded, and n came of it.
Parent(g, m, n) == Child[m] = n /\ g.state[m] = "resolved"

Whole(g) == \A e \in g.edges : e[1] \in Nodes(g) /\ e[2] \in Nodes(g)

\* The graph g is what an expansion of pending nodes, time and again, makes of the graph asked.
GrownFrom(asked, g) ==
    /\ Nodes(asked) \subseteq Nodes(g)
    /\ asked.edges \subseteq g.edges
    /\ \A n \in Nodes(asked) : g.state[n] \in {asked.state[n], "resolved"}
    /\ \A n \in Nodes(g) \ Nodes(asked) : \E m \in Nodes(g) : Parent(g, m, n)
    /\ \A e \in g.edges \ asked.edges : Parent(g, e[1], e[2]) /\ e[2] \notin Nodes(asked)

Asked == Subgraph(session, Ball(session, call.node, call.depth))

WorkingGraphGrows ==
    call.pc # "idle" =>
        /\ Whole(call.graph) /\ Whole(Asked)
        /\ GrownFrom(Asked, call.graph)
        /\ call.node \in Nodes(Asked) \/ Nodes(call.graph) = {}

\* No node of the first search is lost by the second.
LEMMA BallKept ==
    ASSUME NEW s, NEW g, NEW n \in Node, NEW d \in Nat,
           Subgraph(s, Ball(s, n, d)).edges \subseteq g.edges
    PROVE  Ball(s, n, d) \subseteq Ball(g, n, d)
<1> DEFINE T == {k \in Nat : k <= d => Ball(s, n, k) \subseteq Ball(g, n, k)}
<1>1. 0 \in T
  BY BallGrows
<1>2. ASSUME NEW k \in Nat, k \in T PROVE k + 1 \in T
  <2> SUFFICES ASSUME k + 1 <= d, NEW o \in Ball(s, n, k + 1) PROVE o \in Ball(g, n, k + 1)
    OBVIOUS
  <2>1. Ball(s, n, k) \subseteq Ball(g, n, k)
    BY <1>2
  <2>2. Ball(g, n, k) \subseteq Ball(g, n, k + 1)
    BY BallsNest
  <2>3. CASE o \in Ball(s, n, k)
    BY <2>1, <2>2, <2>3
  <2>4. CASE o \notin Ball(s, n, k)
    <3>1. PICK m \in Ball(s, n, k) : <<m, o>> \in s.edges \/ <<o, m>> \in s.edges
      BY <2>4, BallReaches
    <3>2. m \in Ball(s, n, d) /\ o \in Ball(s, n, d) /\ o \in Node
      <4>1. d - k \in Nat /\ k + (d - k) = d /\ d - (k + 1) \in Nat /\ (k + 1) + (d - (k + 1)) = d
        OBVIOUS
      <4>2. Ball(s, n, k) \subseteq Ball(s, n, d)
        BY <4>1, BallsNest
      <4>3. k + 1 \in Nat
        OBVIOUS
      <4>4. Ball(s, n, k + 1) \subseteq Ball(s, n, d)
        <5>1. \A j \in Nat : Ball(s, n, k + 1) \subseteq Ball(s, n, (k + 1) + j)
          BY <4>3, BallsNest
        <5> QED
          BY <4>1, <5>1
      <4>5. Ball(s, n, d) \in SUBSET Node
        BY BallsNest
      <4> QED
        BY <3>1, <4>2, <4>4, <4>5
    <3>3. <<m, o>> \in g.edges \/ <<o, m>> \in g.edges
      BY <3>1, <3>2 DEF Subgraph
    <3> QED
      BY <2>1, <3>1, <3>2, <3>3, BallReaches
  <2> QED
    BY <2>3, <2>4
<1> HIDE DEF T
<1>3. \A k \in Nat : k \in T
  BY <1>1, <1>2, SetInduction
<1> QED
  BY <1>3 DEF T

\* A node that was added is in the second search only together with its parent.
LEMMA ParentReached ==
    ASSUME NEW asked, NEW g \in Graph, Whole(g), Whole(asked), GrownFrom(asked, g),
           NEW n \in Node, n \in Nodes(asked) \/ Nodes(g) = {}, NEW d \in Nat
    PROVE  \A o \in Nodes(g) \ Nodes(asked), m \in Node :
               o \in Ball(g, n, d) /\ Child[m] = o => m \in Ball(g, n, d)
<1> DEFINE P(k) == \A o \in Nodes(g) \ Nodes(asked), m \in Node :
                       o \in Ball(g, n, k) /\ Child[m] = o => m \in Ball(g, n, k)
           T == {k \in Nat : P(k)}
<1>1. 0 \in T
  BY BallGrows
<1>2. ASSUME NEW k \in Nat, P(k) PROVE P(k + 1)
  <2> SUFFICES ASSUME NEW o \in Nodes(g) \ Nodes(asked), NEW m \in Node,
                      o \in Ball(g, n, k + 1), Child[m] = o
               PROVE  m \in Ball(g, n, k + 1)
    OBVIOUS
  <2>1. Ball(g, n, k) \subseteq Ball(g, n, k + 1) /\ Ball(g, n, k) \in SUBSET Node
    BY BallsNest
  <2>2. o \in Node /\ o # NoNode
    BY DEF Nodes
  <2>3. CASE o \in Ball(g, n, k)
    BY <1>2, <2>1, <2>3
  <2>4. CASE o \notin Ball(g, n, k)
    <3>1. PICK q \in Ball(g, n, k) : <<q, o>> \in g.edges \/ <<o, q>> \in g.edges
      BY <2>4, BallReaches
    <3>2. q \in Node /\ <<q, o>> \notin asked.edges /\ <<o, q>> \notin asked.edges
      BY <2>1, <3>1 DEF Whole
    <3>3. CASE <<q, o>> \in g.edges
      <4>1. Child[q] = o
        BY <3>2, <3>3 DEF GrownFrom, Parent
      <4>2. q = m
        BY <2>2, <3>2, <4>1
      <4> QED
        BY <2>1, <3>1, <4>2
    <3>4. CASE <<o, q>> \in g.edges
      <4>1. Child[o] = q /\ q \notin Nodes(asked) /\ q \in Nodes(g)
        BY <3>2, <3>4 DEF GrownFrom, Parent, Whole
      <4>2. o \in Ball(g, n, k)
        BY <1>2, <2>2, <3>1, <4>1
      <4> QED
        BY <2>4, <4>2
    <3> QED
      BY <3>1, <3>3, <3>4
  <2> QED
    BY <2>3, <2>4
<1> HIDE DEF P
<1>3. \A k \in Nat : k \in T
  <2>1. \A k \in Nat : k \in T => k + 1 \in T
    BY <1>2
  <2> HIDE DEF T
  <2> QED
    BY <1>1, <2>1, SetInduction
<1> QED
  BY <1>3 DEF P

\* So what a call returns is as was asked.
LEMMA AnswerOfWorkingGraph ==
    ASSUME Typed, WorkingGraphGrows, call.pc = "rank"
    PROVE  LET h == Returned(call)
           IN  /\ Nodes(Asked) \subseteq Nodes(h)
               /\ Asked.edges \subseteq h.edges
               /\ \A n \in Nodes(Asked) : h.state[n] \in {Asked.state[n], "resolved"}
               /\ \A n \in Nodes(h) \ Nodes(Asked) : \E m \in Nodes(h) : Parent(h, m, n)
               /\ \A e \in h.edges \ Asked.edges : Parent(h, e[1], e[2])
<1> DEFINE h == Returned(call)
           g == call.graph
           asked == Asked
           B == Ball(g, call.node, call.depth)
           first == Ball(session, call.node, call.depth)
<1>1. /\ call.node \in Node /\ call.depth \in Nat /\ g \in Graph /\ session \in Graph
      /\ Whole(g) /\ Whole(asked) /\ GrownFrom(asked, g)
      /\ call.node \in Nodes(asked) \/ Nodes(g) = {}
  BY CallKinds, SessionType DEF Typed, LookaheadTypeOK, RankCall, WorkingGraphGrows
<1>2. asked = Subgraph(session, first)
  BY DEF Asked
<1>3. h = Subgraph(g, B)
  BY DEF Returned
<1>4. first \subseteq B
  <2>1. Subgraph(session, Ball(session, call.node, call.depth)).edges \subseteq g.edges
    BY <1>1, <1>2 DEF GrownFrom
  <2> HIDE DEF asked, g
  <2> QED
    BY <1>1, <2>1, BallKept DEF g
<1> HIDE DEF asked, g
<1>5. \A o \in Nodes(g) \ Nodes(asked), m \in Node : o \in B /\ Child[m] = o => m \in B
  BY <1>1, ParentReached
<1> HIDE DEF B, first, h
<1>6. /\ \A n \in Node : h.state[n] = IF n \in B THEN g.state[n] ELSE Absent
      /\ h.edges = g.edges \intersect (B \X B)
      /\ \A n \in Node : asked.state[n] = IF n \in first THEN session.state[n] ELSE Absent
      /\ asked.edges = session.edges \intersect (first \X first)
  BY <1>2, <1>3 DEF Subgraph
<1>7. Nodes(h) = Nodes(g) \intersect B /\ Nodes(asked) \subseteq first
  BY <1>6 DEF Nodes
<1>8. Nodes(asked) \subseteq Nodes(h)
  BY <1>1, <1>4, <1>7 DEF GrownFrom
<1>9. asked.edges \subseteq h.edges
  BY <1>1, <1>4, <1>6 DEF GrownFrom
<1>10. \A n \in Nodes(asked) : h.state[n] \in {asked.state[n], "resolved"}
  BY <1>1, <1>6, <1>7, <1>8 DEF GrownFrom, Nodes
<1>11. ASSUME NEW n \in Nodes(h) \ Nodes(asked) PROVE \E m \in Nodes(h) : Parent(h, m, n)
  <2>1. n \in Nodes(g) \ Nodes(asked) /\ n \in B
    BY <1>7, <1>11
  <2>2. PICK m \in Nodes(g) : Parent(g, m, n)
    BY <1>1, <2>1 DEF GrownFrom
  <2>3. m \in Node /\ m \in B
    BY <1>5, <2>1, <2>2 DEF Parent, Nodes
  <2> QED
    BY <1>6, <1>7, <2>2, <2>3 DEF Parent
<1>12. ASSUME NEW e \in h.edges \ asked.edges PROVE Parent(h, e[1], e[2])
  <2>1. e \in g.edges \ asked.edges /\ e[1] \in B
    BY <1>6, <1>12
  <2>2. Parent(g, e[1], e[2]) /\ e[1] \in Node
    BY <1>1, <2>1 DEF GrownFrom, Whole, Nodes
  <2> QED
    BY <1>6, <2>1, <2>2 DEF Parent
<1> QED
  BY <1>8, <1>9, <1>10, <1>11, <1>12 DEF asked, h

LEMMA SessionWhole ==
    ASSUME session \in SessionGraphs, NEW S
    PROVE  Whole(Subgraph(session, S))
<1>1. session \in Graph
        /\ \A e \in session.edges : {session.state[e[1]], session.state[e[2]]} \subseteq NodeState
  OBVIOUS
<1>2. \A e \in session.edges : e[1] \in Node /\ e[2] \in Node
  BY <1>1 DEF Graph, Edge
<1> QED
  BY <1>1, <1>2 DEF Whole, Subgraph, Nodes, NodeState, Settled, Absent

\* A call starts with the graph it was asked for.
LEMMA CallStartsWhole ==
    ASSUME Typed, CallMade
    PROVE  WorkingGraphGrows'
<1>1. PICK n \in Node, steps \in Nat :
         /\ n \in Nodes(session) \/ steps = 0
         /\ call' = [pc |-> "rank", node |-> n, depth |-> steps, left |-> steps,
                     graph |-> Subgraph(session, Ball(session, n, steps)), selected |-> NoNode]
  BY DEF CallMade
<1> DEFINE S == Ball(session, n, steps)
           g == Subgraph(session, S)
<1>2. session' = session /\ session \in SessionGraphs
  BY DEF CallMade, Typed, LookaheadTypeOK
<1>3. Asked' = g /\ call'.graph = g /\ call'.node = n
  BY <1>1, <1>2 DEF Asked, Subgraph, Ball, Neighbours
<1>4. n \in S /\ (steps = 0 => S = {n})
  BY BallsNest, BallGrows
<1> HIDE DEF S
<1>5. Whole(g)
  BY <1>2, SessionWhole
<1>6. n \in Nodes(g) \/ Nodes(g) = {}
  BY <1>1, <1>4 DEF Subgraph, Nodes
<1>7. GrownFrom(g, g)
  BY DEF GrownFrom
<1> HIDE DEF g
<1>8. Whole(call'.graph) /\ Whole(Asked') /\ GrownFrom(Asked', call'.graph)
      /\ (call'.node \in Nodes(Asked') \/ Nodes(call'.graph) = {})
  BY <1>3, <1>5, <1>6, <1>7
<1> QED
  BY <1>8 DEF WorkingGraphGrows, Whole, GrownFrom, Parent, Nodes

\* The graph h is g in which a pending node was expanded.
Expanded(g, h, sel, created) ==
    /\ sel \in Frontier(g) /\ created \in SUBSET Node
    /\ created = {Child[sel]} \ ({NoNode} \union Nodes(g))
    /\ \A n \in Node : h.state[n] = IF n = sel THEN "resolved"
                                     ELSE IF n \in created THEN "pending" ELSE g.state[n]
    /\ h.edges = g.edges \union ({sel} \X created)

LEMMA ExpansionGrows ==
    ASSUME NEW asked, NEW g, NEW h, NEW sel, NEW created, Expanded(g, h, sel, created),
           Whole(g), GrownFrom(asked, g)
    PROVE  Whole(h) /\ GrownFrom(asked, h) /\ Nodes(g) # {}
<1>0. /\ sel \in Frontier(g) /\ created \in SUBSET Node
      /\ created = {Child[sel]} \ ({NoNode} \union Nodes(g))
      /\ \A n \in Node : h.state[n] = IF n = sel THEN "resolved"
                                       ELSE IF n \in created THEN "pending" ELSE g.state[n]
      /\ h.edges = g.edges \union ({sel} \X created)
  BY DEF Expanded
<1>1. sel \in Node /\ sel \in Nodes(g) /\ sel \notin created /\ created \intersect Nodes(g) = {}
  BY <1>0 DEF Frontier, Nodes, Absent
<1>2. Nodes(h) = Nodes(g) \union created
  BY <1>0, <1>1 DEF Nodes, Absent
<1>3. \A m \in Nodes(g) : \A n : Parent(g, m, n) => Parent(h, m, n)
  BY <1>0, <1>1 DEF Parent, Nodes
<1>4. \A n \in created : Parent(h, sel, n)
  BY <1>0, <1>1 DEF Parent
<1>5. Whole(h)
  BY <1>0, <1>1, <1>2 DEF Whole
<1>6. Nodes(asked) \subseteq Nodes(g) /\ Nodes(asked) \subseteq Nodes(h) /\ asked.edges \subseteq h.edges
  BY <1>0, <1>2 DEF GrownFrom
<1>7. \A n \in Nodes(asked) : h.state[n] \in {asked.state[n], "resolved"}
  <2> TAKE n \in Nodes(asked)
  <2>1. n \in Node /\ n \notin created /\ g.state[n] \in {asked.state[n], "resolved"}
    BY <1>1, <1>6 DEF GrownFrom, Nodes
  <2> QED
    BY <1>0, <2>1
<1>8. ASSUME NEW n \in Nodes(h) \ Nodes(asked) PROVE \E m \in Nodes(h) : Parent(h, m, n)
  <2>1. CASE n \in created
    BY <1>1, <1>2, <1>4, <2>1
  <2>2. CASE n \in Nodes(g)
    BY <1>2, <1>3, <1>8, <2>2 DEF GrownFrom
  <2> QED
    BY <1>2, <2>1, <2>2
<1>9. ASSUME NEW e \in h.edges \ asked.edges PROVE Parent(h, e[1], e[2]) /\ e[2] \notin Nodes(asked)
  <2>1. CASE e \in g.edges
    BY <1>3, <1>9, <2>1 DEF GrownFrom, Whole
  <2>2. CASE e \in {sel} \X created
    BY <1>1, <1>4, <1>6, <2>2
  <2> QED
    BY <1>0, <1>9, <2>1, <2>2
<1> QED
  BY <1>1, <1>5, <1>6, <1>7, <1>8, <1>9 DEF GrownFrom

LEMMA WorkingGraphInit == LookaheadInit => WorkingGraphGrows
  BY DEF LookaheadInit, Idle, WorkingGraphGrows

LEMMA WorkingGraphNext ==
    Recorded /\ WorkingGraphGrows /\ [LookaheadNext]_lookaheadVars => WorkingGraphGrows'
<1> SUFFICES ASSUME Recorded, WorkingGraphGrows, [LookaheadNext]_lookaheadVars
             PROVE  WorkingGraphGrows'
  OBVIOUS
<1>0. Typed /\ LookaheadTypeOK
  BY DEF Recorded, Typed
<1>1. CASE Rank
  <2>1. /\ call.pc = "rank" /\ session' = session
        /\ call'.graph = call.graph /\ call'.node = call.node /\ call'.depth = call.depth
    BY <1>0, <1>1, RankReports DEF RankCall
  <2>2. Asked' = Asked
    BY <2>1 DEF Asked
  <2>3. Whole(call'.graph) /\ Whole(Asked') /\ GrownFrom(Asked', call'.graph)
        /\ (call'.node \in Nodes(Asked') \/ Nodes(call'.graph) = {})
    BY <2>1, <2>2 DEF WorkingGraphGrows
  <2> QED
    BY <2>3 DEF WorkingGraphGrows, Whole, GrownFrom, Parent, Nodes
<1>2. CASE ExpandSelected
  <2> DEFINE created == {Child[call.selected]} \ ({NoNode} \union Nodes(call.graph))
  <2>1. /\ call.selected \in Frontier(call.graph) /\ created \in SUBSET Node
        /\ \A n \in Node : call'.graph.state[n]
                              = IF n = call.selected THEN "resolved"
                                ELSE IF n \in created THEN "pending" ELSE call.graph.state[n]
        /\ call'.graph.edges = call.graph.edges \union ({call.selected} \X created)
        /\ session' = session /\ call'.node = call.node /\ call'.depth = call.depth
    BY <1>2, ExpandEffect
  <2>2. Asked' = Asked /\ call.pc = "expand"
    BY <1>2, <2>1 DEF Asked, ExpandSelected
  <2>3. /\ Whole(call.graph) /\ Whole(Asked) /\ GrownFrom(Asked, call.graph)
        /\ call.node \in Nodes(Asked) \/ Nodes(call.graph) = {}
    BY <2>2 DEF WorkingGraphGrows
  <2>4. created = {Child[call.selected]} \ ({NoNode} \union Nodes(call.graph))
    OBVIOUS
  <2> HIDE DEF created
  <2>5. Whole(call'.graph) /\ GrownFrom(Asked, call'.graph) /\ Nodes(call.graph) # {}
    <3>1. Expanded(call.graph, call'.graph, call.selected, created)
      BY <2>1, <2>4 DEF Expanded
    <3> QED
      BY <2>3, <3>1, ExpansionGrows
  <2>6. Whole(call'.graph) /\ Whole(Asked') /\ GrownFrom(Asked', call'.graph) /\ call'.node \in Nodes(Asked')
    BY <2>1, <2>2, <2>3, <2>5
  <2> QED
    BY <2>6 DEF WorkingGraphGrows, Whole, GrownFrom, Parent, Nodes
<1>3. CASE call'.pc = "idle"
  BY <1>3 DEF WorkingGraphGrows
<1>4. CASE CallMade
  BY <1>0, <1>4, CallStartsWhole
<1>5. CASE call' = call /\ session' = session
  BY <1>5 DEF WorkingGraphGrows, Asked, Whole, GrownFrom, Parent, Nodes
<1> QED
  BY <1>0, <1>1, <1>2, <1>3, <1>4, <1>5, StepCases, ElsewhereCall

LEMMA AlwaysWorkingGraph == LookaheadSpec => []WorkingGraphGrows
  BY AlwaysRecorded, WorkingGraphInit, WorkingGraphNext, PTL DEF LookaheadSpec

LEMMA AnswerInit == LookaheadInit => AnswerIsNeighbourhood
  BY DEF LookaheadInit, AnswerIsNeighbourhood

LEMMA AnswerNext ==
    Recorded /\ WorkingGraphGrows /\ AnswerIsNeighbourhood /\ [LookaheadNext]_lookaheadVars
        => AnswerIsNeighbourhood'
<1> SUFFICES ASSUME Recorded, WorkingGraphGrows, AnswerIsNeighbourhood, [LookaheadNext]_lookaheadVars
             PROVE  AnswerIsNeighbourhood'
  OBVIOUS
<1>0. Typed /\ LookaheadTypeOK
  BY DEF Recorded, Typed
<1>1. CASE Rank \/ ExpandSelected \/ CallMade
  <2>1. call'.pc # "idle"
    BY <1>0, <1>1, RankReports, ExpandReports DEF RankCall, ExpandCall, CallMade
  <2> QED
    BY <2>1 DEF AnswerIsNeighbourhood
<1>2. CASE call' = Idle
  BY <1>2 DEF AnswerIsNeighbourhood
<1>3. CASE call.pc = "rank" /\ call' = Answered(call) /\ session' = session
  <2> DEFINE h == Returned(call)
  <2>1. /\ Nodes(Asked) \subseteq Nodes(h)
        /\ Asked.edges \subseteq h.edges
        /\ \A n \in Nodes(Asked) : h.state[n] \in {Asked.state[n], "resolved"}
        /\ \A n \in Nodes(h) \ Nodes(Asked) : \E m \in Nodes(h) : Parent(h, m, n)
        /\ \A e \in h.edges \ Asked.edges : Parent(h, e[1], e[2])
    BY <1>0, <1>3, AnswerOfWorkingGraph
  <2>2. call'.answer = h /\ call'.node = call.node /\ call'.depth = call.depth
    BY <1>3 DEF Answered
  <2> HIDE DEF h
  <2>3. Asked' = Asked
    BY <1>3, <2>2 DEF Asked
  <2>4. LET asked == Subgraph(session, Ball(session, call.node, call.depth))'
        IN  /\ Nodes(asked) \subseteq Nodes(call'.answer)
            /\ asked.edges \subseteq call'.answer.edges
            /\ \A n \in Nodes(asked) : call'.answer.state[n] \in {asked.state[n], "resolved"}
            /\ \A n \in Nodes(call'.answer) \ Nodes(asked) :
                  \E m \in Nodes(call'.answer) : Parent(call'.answer, m, n)
            /\ \A e \in call'.answer.edges \ asked.edges : Parent(call'.answer, e[1], e[2])
    BY <2>1, <2>2, <2>3 DEF Asked
  <2> QED
    BY <2>4 DEF AnswerIsNeighbourhood, Parent, Nodes
<1>4. CASE call' = call /\ session' = session
  BY <1>4 DEF AnswerIsNeighbourhood, Nodes
<1> QED
  BY <1>0, <1>1, <1>2, <1>3, <1>4, StepCases DEF CallElsewhere

\* For any graph, depth and policy: what expand returns holds the whole neighbourhood that
\* was asked for, in which nodes were resolved and children of resolved nodes added, and
\* nothing else.  The search in the session's graph and the one in the grown copy agree,
\* because edges are only added, and only from a resolved node to the child it created.
THEOREM AnswerIsNeighbourhoodAlways == LookaheadSpec => []AnswerIsNeighbourhood
  BY AlwaysRecorded, AlwaysWorkingGraph, AnswerInit, AnswerNext, PTL DEF LookaheadSpec
====
