---- MODULE ToolRuntimeProofs ----
(***************************************************************************)
(* Proofs about the runtime around its parts, for any policies, nodes,     *)
(* depths and versions of the repository.                                  *)
(***************************************************************************)
EXTENDS ToolRuntime, FiniteSetTheorems, TLAPS

USE RuntimeAssumption DEF Version, NotLoaded, Idle, Error

----
(* Types.                                                                  *)

Histories(h) ==
    /\ DOMAIN h = {"queries", "expands", "depths"}
    /\ IsDict(h.queries, Query, Nat \ {0})
    /\ IsDict(h.expands, Node, Nat \ {0})
    /\ IsDict(h.depths, Node, Depth)
    /\ DOMAIN h.depths = DOMAIN h.expands

Record == [entries: Trace, resolves: Nat, expands: Nat]

Asked == Seq([node: Node, depth: Depth])

LEMMA WithType ==
    ASSUME NEW K, NEW V, NEW d, IsDict(d, K, V), NEW k \in K, NEW v \in V
    PROVE  IsDict(With(d, k, v), K, V)
  BY DEF IsDict, With

LEMMA WithDomain ==
    ASSUME NEW d, NEW k, NEW v
    PROVE  DOMAIN With(d, k, v) = DOMAIN d \union {k}
  BY DEF With

LEMMA ValueType ==
    ASSUME NEW K, NEW d, IsDict(d, K, Nat \ {0}), NEW k
    PROVE  Value(d, k, 0) \in Nat
  BY DEF IsDict, Value

LEMMA NoHistoriesType == Histories(NoHistories)
  BY DEF Histories, NoHistories, IsDict

LEMMA NoRecordType == NoRecord \in Record
  BY DEF NoRecord, Record, Trace

LEMMA NoteQueryType ==
    ASSUME NEW h, Histories(h), NEW q \in Query
    PROVE  Histories(NoteQuery(h, q))
<1>1. Value(h.queries, q, 0) + 1 \in Nat \ {0}
  BY ValueType DEF Histories
<1>2. IsDict(With(h.queries, q, Value(h.queries, q, 0) + 1), Query, Nat \ {0})
  BY <1>1, WithType DEF Histories
<1> DEFINE g == NoteQuery(h, q)
<1>3. /\ DOMAIN g = DOMAIN h
      /\ g.queries = With(h.queries, q, Value(h.queries, q, 0) + 1)
      /\ g.expands = h.expands
      /\ g.depths = h.depths
  BY DEF NoteQuery, Histories
<1> QED
  BY <1>2, <1>3 DEF Histories

LEMMA NoteExpandFields ==
    ASSUME NEW h, Histories(h), NEW n \in Node, NEW depth \in Depth
    PROVE  /\ DOMAIN NoteExpand(h, n, depth) = DOMAIN h
           /\ NoteExpand(h, n, depth).queries = h.queries
           /\ NoteExpand(h, n, depth).expands = With(h.expands, n, Value(h.expands, n, 0) + 1)
           /\ NoteExpand(h, n, depth).depths =
                 IF n \in DOMAIN h.depths /\ depth <= h.depths[n] THEN h.depths
                 ELSE With(h.depths, n, depth)
  BY DEF NoteExpand, Histories

LEMMA NoteExpandType ==
    ASSUME NEW h, Histories(h), NEW n \in Node, NEW depth \in Depth
    PROVE  Histories(NoteExpand(h, n, depth))
<1>1. /\ IsDict(h.expands, Node, Nat \ {0})
      /\ IsDict(h.depths, Node, Depth)
      /\ DOMAIN h.depths = DOMAIN h.expands
  BY DEF Histories
<1>2. Value(h.expands, n, 0) + 1 \in Nat \ {0}
  BY <1>1, ValueType
<1> DEFINE g == NoteExpand(h, n, depth)
           expands == With(h.expands, n, Value(h.expands, n, 0) + 1)
<1>3. IsDict(expands, Node, Nat \ {0})
  BY <1>1, <1>2, WithType
<1>4. IsDict(With(h.depths, n, depth), Node, Depth)
  BY <1>1, WithType
<1>5. DOMAIN With(h.depths, n, depth) = DOMAIN h.depths \union {n}
  BY WithDomain
<1>6. DOMAIN expands = DOMAIN h.expands \union {n}
  BY WithDomain
<1>7. IsDict(g.depths, Node, Depth) /\ DOMAIN g.depths = DOMAIN h.depths \union {n}
  <2>1. CASE n \in DOMAIN h.depths /\ depth <= h.depths[n]
    BY <2>1, <1>1, NoteExpandFields
  <2>2. CASE ~(n \in DOMAIN h.depths /\ depth <= h.depths[n])
    BY <2>2, <1>4, <1>5, NoteExpandFields
  <2> QED
    BY <2>1, <2>2
<1> QED
  BY <1>1, <1>3, <1>6, <1>7, NoteExpandFields DEF Histories

\* What TypeOK says, by the names used here.
LEMMA TypeParts ==
    TypeOK <=> /\ files \in Version
               /\ policy \in Policy \union {NoPolicy}
               /\ graph \in 0..files
               /\ Histories(histories)
               /\ recorder \in Record
               /\ call \in {Idle} \union [pc: {"decide"}, budget: Depth \intersect Nat]
               /\ reply \in Reply
               /\ asked \in Asked
               /\ mixed \in BOOLEAN
  BY DEF TypeOK, Histories, Record, Asked

LEMMA ReplyKinds ==
    /\ {[type |-> "none"], [type |-> "installed"], Error} \subseteq Reply
    /\ \A entries \in Trace, p \in Policy \union {NoPolicy}, g \in Version \union {NotLoaded} :
          [type |-> "trace", entries |-> entries, policy |-> p, graph |-> g] \in Reply
    /\ \A selected \in Node \union {NoNode}, g \in Version :
          [type |-> "anchor", selected |-> selected, graph |-> g] \in Reply
    /\ \A h : \A n \in Node, depth \in Depth, g \in Version, prior \in Nat :
          [type |-> "graph", node |-> n, depth |-> depth, graph |-> g, prior |-> prior,
           advice |-> Advice(h, n, depth)] \in Reply
<1>1. \A n, depth, h :
         Advice(h, n, depth) \in {"do_not_repeat_same_or_shallower_expand", "fresh_expand",
                                 "only_continue_if_new_symbol_requires_deeper_context"}
  BY DEF Advice
<1> QED
  BY <1>1 DEF Reply

LEMMA DecisionNotedType ==
    ASSUME recorder \in Record, policy \in Policy, files \in Version
    PROVE  /\ DecisionNoted \in Record
           /\ DecisionNoted.entries = Append(recorder.entries, [policy |-> policy, graph |-> files])
<1> DEFINE entry == [policy |-> policy, graph |-> files]
<1>1. recorder.entries \in Trace /\ recorder.resolves \in Nat /\ recorder.expands \in Nat
  BY DEF Record
<1>2. Append(recorder.entries, entry) \in Trace
  BY <1>1 DEF Trace
<1>3. PICK noted : noted = DecisionNoted
  OBVIOUS
<1>4. noted = [entries |-> Append(recorder.entries, entry), resolves |-> recorder.resolves + 1,
               expands |-> recorder.expands]
  BY <1>3 DEF DecisionNoted, Record
<1> QED
  BY <1>1, <1>2, <1>3, <1>4 DEF Record

LEMMA ExpandNodeType ==
    ASSUME NEW n \in Node, NEW depth \in Depth, NEW g \in Version, NEW record \in Record,
           policy \in Policy, Histories(histories), asked \in Asked,
           ExpandNode(n, depth, g, record)
    PROVE  /\ recorder' \in Record
           /\ Histories(histories)'
           /\ reply' \in Reply
           /\ asked' \in Asked
<1>1. PICK o \in Outcomes(n, depth, g) :
         /\ recorder' = [record EXCEPT
               !.expands = @ + 1,
               !.entries = IF o.stepped THEN Append(@, [policy |-> policy, graph |-> g]) ELSE @]
         /\ histories' = NoteExpand(histories, n, depth)
         /\ asked' = Append(asked, [node |-> n, depth |-> depth])
         /\ reply' = IF o.ok
                     THEN [type |-> "graph", node |-> n, depth |-> depth, graph |-> g,
                           prior |-> Value(histories.expands, n, 0),
                           advice |-> Advice(histories, n, depth)]
                     ELSE Error
  BY DEF ExpandNode
<1>2. recorder' \in Record
  <2> DEFINE entries == IF o.stepped THEN Append(record.entries, [policy |-> policy, graph |-> g])
                        ELSE record.entries
  <2>1. record.entries \in Trace /\ record.resolves \in Nat /\ record.expands \in Nat
    BY DEF Record
  <2>2. Append(record.entries, [policy |-> policy, graph |-> g]) \in Trace
    BY <2>1 DEF Trace
  <2>3. recorder' = [entries |-> entries, resolves |-> record.resolves, expands |-> record.expands + 1]
    BY <1>1 DEF Record
  <2> QED
    BY <2>1, <2>2, <2>3, entries \in Trace DEF Record
<1>3. Histories(histories)'
  BY <1>1, NoteExpandType DEF Histories
<1>4. reply' \in Reply
  <2>1. Value(histories.expands, n, 0) \in Nat
    BY ValueType DEF Histories
  <2> QED
    BY <1>1, <2>1, ReplyKinds
<1>5. asked' \in Asked
  BY <1>1 DEF Asked
<1> QED
  BY <1>2, <1>3, <1>4, <1>5

----
(* Nothing without a policy.  That every entry of a trace names a policy   *)
(* rests on a call running only while one is installed, so types and this  *)
(* property are one inductive invariant.                                   *)

Inv == TypeOK /\ NothingWithoutPolicy

LEMMA InitInv == Init => Inv
<1> SUFFICES ASSUME Init PROVE Inv
  OBVIOUS
<1>1. Histories(histories) /\ recorder \in Record
  BY NoHistoriesType, NoRecordType DEF Init
<1>2. reply \in Reply /\ asked \in Asked
  BY ReplyKinds DEF Init, Asked
<1>3. files \in Version /\ graph \in 0..files
  BY DEF Init
<1>4. call = Idle /\ mixed \in BOOLEAN /\ policy = NoPolicy
  BY DEF Init
<1>5. TypeOK
  BY <1>1, <1>2, <1>3, <1>4, TypeParts
<1> QED
  BY <1>5 DEF Inv, NothingWithoutPolicy, Init

LEMMA DecideInv ==
    ASSUME Inv, NEW selected \in Node \union {NoNode}, Decide(selected)
    PROVE  Inv'
<1>1. /\ files \in Version
      /\ Histories(histories)
      /\ recorder \in Record
      /\ asked \in Asked
      /\ call \in [pc: {"decide"}, budget: Depth \intersect Nat]
      /\ policy \in Policy
  BY TypeParts DEF Inv, NothingWithoutPolicy, Decide
<1>2. /\ files' = files /\ policy' = policy /\ graph' = files /\ call' = Idle
      /\ mixed' \in BOOLEAN
  BY <1>1, TypeParts DEF Inv, Decide, Relabelled
<1>3. /\ recorder' \in Record
      /\ Histories(histories)'
      /\ reply' \in Reply
      /\ asked' \in Asked
  <2>1. CASE selected = NoNode \/ call.budget <= 0
    BY <2>1, <1>1, DecisionNotedType, ReplyKinds DEF Decide, Histories
  <2>2. CASE ~(selected = NoNode \/ call.budget <= 0)
    <3>1. selected \in Node /\ call.budget \in Depth /\ DecisionNoted \in Record
      BY <2>2, <1>1, DecisionNotedType
    <3>2. ExpandNode(selected, call.budget, files, DecisionNoted)
      BY <2>2 DEF Decide
    <3> QED
      BY <3>1, <3>2, <1>1, ExpandNodeType
  <2> QED
    BY <2>1, <2>2
<1>4. TypeOK'
  BY <1>1, <1>2, <1>3 DEF TypeOK, Histories, Record, Asked
<1> QED
  BY <1>1, <1>2, <1>4 DEF Inv, NothingWithoutPolicy

LEMMA ExpandInv ==
    ASSUME Inv, NEW n \in Node, NEW depth \in Depth, Expand(n, depth)
    PROVE  Inv'
<1>1. /\ files \in Version
      /\ Histories(histories)
      /\ recorder \in Record
      /\ asked \in Asked
      /\ call = Idle
      /\ policy \in Policy
  BY TypeParts DEF Inv, Expand, MayEvaluate
<1>2. /\ files' = files /\ policy' = policy /\ graph' = files /\ call' = Idle
      /\ mixed' \in BOOLEAN
  BY <1>1, TypeParts DEF Inv, Expand, Relabelled
<1>3. /\ recorder' \in Record
      /\ Histories(histories)'
      /\ reply' \in Reply
      /\ asked' \in Asked
  BY <1>1, ExpandNodeType DEF Expand
<1>4. TypeOK'
  BY <1>1, <1>2, <1>3 DEF TypeOK, Histories, Record, Asked
<1> QED
  BY <1>1, <1>2, <1>4 DEF Inv, NothingWithoutPolicy

LEMMA StepInv == Inv /\ [Next]_vars => Inv'
<1> SUFFICES ASSUME Inv, [Next]_vars PROVE Inv'
  OBVIOUS
<1>1. /\ files \in Version
      /\ policy \in Policy \union {NoPolicy}
      /\ graph \in 0..files
      /\ Histories(histories)
      /\ recorder \in Record
      /\ call \in {Idle} \union [pc: {"decide"}, budget: Depth \intersect Nat]
      /\ reply \in Reply
      /\ asked \in Asked
      /\ mixed \in BOOLEAN
      /\ policy = NoPolicy => recorder = NoRecord /\ histories = NoHistories /\ call = Idle
  BY TypeParts DEF Inv, NothingWithoutPolicy
<1> DEFINE Typed ==
      /\ files' \in Version
      /\ policy' \in Policy \union {NoPolicy}
      /\ graph' \in 0..files'
      /\ Histories(histories)'
      /\ recorder' \in Record
      /\ call' \in {Idle} \union [pc: {"decide"}, budget: Depth \intersect Nat]
      /\ reply' \in Reply
      /\ asked' \in Asked
      /\ mixed' \in BOOLEAN
      /\ policy' = NoPolicy => recorder' = NoRecord /\ histories' = NoHistories /\ call' = Idle
<1>2. Typed => Inv'
  BY DEF Inv, NothingWithoutPolicy, TypeOK, Histories, Record, Asked
<1>3. CASE Edit
  BY <1>1, <1>2, <1>3 DEF Edit, Histories
<1>4. CASE Refuse
  BY <1>1, <1>2, <1>4, ReplyKinds DEF Refuse, Histories
<1>5. ASSUME NEW p \in Policy, Install(p) PROVE Inv'
  BY <1>1, <1>2, <1>5, ReplyKinds DEF Install, Histories, Relabelled
<1>6. CASE ClearPolicy
  <2>1. Histories(histories)' /\ recorder' \in Record /\ reply' \in Reply /\ asked' \in Asked
    BY <1>6, ReplyKinds, NoHistoriesType, NoRecordType DEF ClearPolicy, Histories, Asked
  <2> QED
    BY <1>1, <1>2, <1>6, <2>1 DEF ClearPolicy
<1>7. CASE ResetSession
  <2>1. Histories(histories)' /\ recorder' \in Record /\ reply' \in Reply /\ asked' \in Asked
    BY <1>7, ReplyKinds, NoHistoriesType, NoRecordType DEF ResetSession, Histories, Asked
  <2>2. graph' \in 0..files' /\ files' \in Version
    BY <1>1, <1>7 DEF ResetSession
  <2> QED
    BY <1>1, <1>2, <1>7, <2>1, <2>2 DEF ResetSession
<1>8. ASSUME NEW clear \in BOOLEAN, Collect(clear) PROVE Inv'
  <2>1. reply' \in Reply
    BY <1>1, <1>8, ReplyKinds DEF Collect, Record
  <2>2. recorder' \in Record
    BY <1>1, <1>8, NoRecordType DEF Collect
  <2> QED
    BY <1>1, <1>2, <1>8, <2>1, <2>2 DEF Collect, Histories
<1>9. ASSUME NEW q \in Query, NEW budget \in Depth \intersect Nat, Resolve(q, budget) PROVE Inv'
  <2>1. Histories(histories)'
    BY <1>1, <1>9, NoteQueryType DEF Resolve, Histories
  <2> QED
    BY <1>1, <1>2, <1>9, <2>1, ReplyKinds DEF Resolve, MayEvaluate, Relabelled
<1>10. ASSUME NEW selected \in Node \union {NoNode}, Decide(selected) PROVE Inv'
  BY <1>10, DecideInv
<1>11. CASE DecisionFails
  BY <1>1, <1>2, <1>11, ReplyKinds DEF DecisionFails, Histories, Relabelled
<1>12. ASSUME NEW n \in Node, NEW depth \in Depth, Expand(n, depth) PROVE Inv'
  BY <1>12, ExpandInv
<1>13. CASE UNCHANGED vars
  BY <1>1, <1>2, <1>13 DEF vars, Histories
<1> QED
  BY <1>3, <1>4, <1>5, <1>6, <1>7, <1>8, <1>9, <1>10, <1>11, <1>12, <1>13 DEF Next

LEMMA Invariant == Spec => []Inv
<1> QED
  BY InitInv, StepInv, PTL DEF Spec

\* Every variable keeps its type for any order of installs, evaluator calls that may
\* raise, clears and collects: every trace entry names a policy and a loaded graph, and
\* a node has a depth in the history exactly when it has been counted.
THEOREM TypeCorrect == Spec => []TypeOK
<1> QED
  BY Invariant, PTL DEF Inv

\* While no policy is installed nothing is recorded or remembered, and no call is running.
THEOREM NothingWithoutPolicyAlways == Spec => []NothingWithoutPolicy
<1> QED
  BY Invariant, PTL DEF Inv

----
(* Labels and answers.                                                     *)

LEMMA ExpandNodeEntries ==
    ASSUME NEW n \in Node, NEW depth \in Depth, NEW g \in Version, NEW record \in Record,
           ExpandNode(n, depth, g, record)
    PROVE  /\ \/ recorder'.entries = record.entries
              \/ recorder'.entries = Append(record.entries, [policy |-> policy, graph |-> g])
           /\ reply' = Error \/ (reply'.type = "graph" /\ reply'.graph = g)
<1>1. PICK o \in Outcomes(n, depth, g) :
         /\ recorder' = [record EXCEPT
               !.expands = @ + 1,
               !.entries = IF o.stepped THEN Append(@, [policy |-> policy, graph |-> g]) ELSE @]
         /\ reply' = IF o.ok
                     THEN [type |-> "graph", node |-> n, depth |-> depth, graph |-> g,
                           prior |-> Value(histories.expands, n, 0),
                           advice |-> Advice(histories, n, depth)]
                     ELSE Error
  BY DEF ExpandNode
<1>2. recorder'.entries = IF o.stepped THEN Append(record.entries, [policy |-> policy, graph |-> g])
                          ELSE record.entries
  BY <1>1 DEF Record
<1> QED
  BY <1>1, <1>2

\* All entries are of a policy and a graph.
Uniform(entries, p, g) == \A i \in DOMAIN entries : entries[i] = [policy |-> p, graph |-> g]

LEMMA UniformAppend ==
    ASSUME NEW entries \in Trace, NEW p \in Policy, NEW g \in Version, Uniform(entries, p, g)
    PROVE  Uniform(Append(entries, [policy |-> p, graph |-> g]), p, g)
  BY DEF Uniform, Trace

\* A readied graph under an unmixed trace is the one all entries are of.
LEMMA RelabelledUniform ==
    ASSUME recorder \in Record, mixed \in BOOLEAN, LabelsAreOfTrace, NEW p, NEW g,
           ~Relabelled(p, g)
    PROVE  Uniform(recorder.entries, p, g)
  BY DEF Relabelled, LabelsAreOfTrace, Uniform, Record, Trace

LEMMA LabelsStep == Inv /\ LabelsAreOfTrace /\ [Next]_vars => LabelsAreOfTrace'
<1> SUFFICES ASSUME Inv, LabelsAreOfTrace, [Next]_vars, ~mixed'
             PROVE  Uniform(recorder'.entries, policy', graph')
  BY DEF LabelsAreOfTrace, Uniform
<1>1. /\ files \in Version /\ recorder \in Record /\ mixed \in BOOLEAN
      /\ call # Idle => policy \in Policy
  BY TypeParts DEF Inv, NothingWithoutPolicy
<1>2. ~mixed => Uniform(recorder.entries, policy, graph)
  BY DEF LabelsAreOfTrace, Uniform
<1>3. \A p, g : Uniform(NoRecord.entries, p, g)
  BY DEF Uniform, NoRecord
<1>4. CASE Edit \/ Refuse \/ UNCHANGED vars
  BY <1>2, <1>4 DEF Edit, Refuse, vars
<1>5. ASSUME NEW p \in Policy, Install(p) PROVE Uniform(recorder'.entries, policy', graph')
  BY <1>1, <1>5, RelabelledUniform DEF Install
<1>6. CASE ClearPolicy \/ ResetSession
  BY <1>3, <1>6 DEF ClearPolicy, ResetSession
<1>7. ASSUME NEW clear \in BOOLEAN, Collect(clear) PROVE Uniform(recorder'.entries, policy', graph')
  BY <1>2, <1>3, <1>7 DEF Collect
<1>8. ASSUME NEW q \in Query, NEW budget \in Depth \intersect Nat, Resolve(q, budget)
      PROVE  Uniform(recorder'.entries, policy', graph')
  BY <1>1, <1>8, RelabelledUniform DEF Resolve
<1>9. ASSUME NEW selected \in Node \union {NoNode}, Decide(selected)
      PROVE  Uniform(recorder'.entries, policy', graph')
  <2>1. policy \in Policy /\ policy' = policy /\ graph' = files
    BY <1>1, <1>9 DEF Decide
  <2>2. Uniform(recorder.entries, policy, files) /\ recorder.entries \in Trace
    BY <1>1, <1>9, RelabelledUniform DEF Decide, Record
  <2>3. DecisionNoted \in Record /\ Uniform(DecisionNoted.entries, policy, files)
    <3>1. /\ DecisionNoted \in Record
          /\ DecisionNoted.entries = Append(recorder.entries, [policy |-> policy, graph |-> files])
      BY <1>1, <2>1, DecisionNotedType
    <3>2. Uniform(Append(recorder.entries, [policy |-> policy, graph |-> files]), policy, files)
      BY <1>1, <2>1, <2>2, UniformAppend
    <3> QED
      BY <3>1, <3>2
  <2>4. CASE selected = NoNode \/ call.budget <= 0
    BY <1>9, <2>1, <2>3, <2>4 DEF Decide
  <2>5. CASE ~(selected = NoNode \/ call.budget <= 0)
    <3>1. ExpandNode(selected, call.budget, files, DecisionNoted)
      BY <1>9, <2>5 DEF Decide
    <3>2. DecisionNoted.entries \in Trace
      BY <2>3 DEF Record
    <3>3. selected \in Node /\ call.budget \in Depth /\ files \in Version /\ DecisionNoted \in Record
      BY <1>1, <1>9, <2>3, <2>5, TypeParts DEF Inv, Decide
    <3>4. \/ recorder'.entries = DecisionNoted.entries
          \/ recorder'.entries = Append(DecisionNoted.entries, [policy |-> policy, graph |-> files])
      BY <3>1, <3>3, ExpandNodeEntries
    <3> QED
      BY <2>1, <2>3, <3>2, <3>3, <3>4, UniformAppend
  <2> QED
    BY <2>4, <2>5
<1>10. CASE DecisionFails
  BY <1>1, <1>10, RelabelledUniform DEF DecisionFails
<1>11. ASSUME NEW n \in Node, NEW depth \in Depth, Expand(n, depth)
       PROVE  Uniform(recorder'.entries, policy', graph')
  <2>1. policy \in Policy /\ policy' = policy /\ graph' = files
    BY <1>11, TypeParts DEF Expand, MayEvaluate, Inv
  <2>2. Uniform(recorder.entries, policy, files) /\ recorder.entries \in Trace
    BY <1>1, <1>11, RelabelledUniform DEF Expand, Record
  <2>3. ExpandNode(n, depth, files, recorder)
    BY <1>11 DEF Expand
  <2>4. \/ recorder'.entries = recorder.entries
        \/ recorder'.entries = Append(recorder.entries, [policy |-> policy, graph |-> files])
    BY <1>1, <2>3, ExpandNodeEntries
  <2> QED
    BY <1>1, <2>1, <2>2, <2>4, UniformAppend
<1> QED
  BY <1>4, <1>5, <1>6, <1>7, <1>8, <1>9, <1>10, <1>11 DEF Next

\* A trace under which neither policy nor graph changed is labelled rightly, entry by
\* entry, by a collect at any moment: no call records under labels that are not current.
THEOREM LabelsAreOfTraceAlways == Spec => []LabelsAreOfTrace
<1>1. Init => LabelsAreOfTrace
  BY DEF Init, LabelsAreOfTrace, NoRecord
<1> QED
  BY <1>1, Invariant, LabelsStep, PTL DEF Spec

LEMMA AnswerStep == Inv /\ AnswerIsOfDecidedGraph /\ [Next]_vars => AnswerIsOfDecidedGraph'
<1> SUFFICES ASSUME Inv, AnswerIsOfDecidedGraph, [Next]_vars PROVE AnswerIsOfDecidedGraph'
  OBVIOUS
<1>1. /\ files \in Version /\ recorder \in Record
      /\ call # Idle => policy \in Policy
  BY TypeParts DEF Inv, NothingWithoutPolicy
<1>2. CASE Edit \/ UNCHANGED vars
  BY <1>2 DEF Edit, vars, AnswerIsOfDecidedGraph
<1>3. CASE reply'.type \notin {"anchor", "graph"}
  BY <1>3 DEF AnswerIsOfDecidedGraph
<1>4. Refuse \/ (\E p \in Policy : Install(p)) \/ ClearPolicy \/ ResetSession \/ DecisionFails
         => reply'.type \notin {"anchor", "graph"}
  BY DEF Refuse, Install, ClearPolicy, ResetSession, DecisionFails
<1>5. ASSUME NEW clear \in BOOLEAN, Collect(clear) PROVE reply'.type \notin {"anchor", "graph"}
  BY <1>5 DEF Collect
<1>6. ASSUME NEW q \in Query, NEW budget \in Depth \intersect Nat, Resolve(q, budget)
      PROVE  reply'.type \notin {"anchor", "graph"}
  BY <1>6 DEF Resolve
<1>7. ASSUME NEW selected \in Node \union {NoNode}, Decide(selected) PROVE AnswerIsOfDecidedGraph'
  <2>1. policy \in Policy /\ graph' = files
    BY <1>1, <1>7 DEF Decide
  <2>2. DecisionNoted \in Record
    BY <1>1, <2>1, DecisionNotedType
  <2>3. CASE selected = NoNode \/ call.budget <= 0
    <3> DEFINE entry == [policy |-> policy, graph |-> files]
    <3>1. reply'.graph = files /\ recorder' = DecisionNoted
      BY <1>7, <2>3 DEF Decide
    <3>2. /\ recorder'.entries = Append(recorder.entries, entry)
          /\ recorder.entries \in Seq([policy: Policy, graph: Version])
      BY <1>1, <2>1, <3>1, DecisionNotedType DEF Record, Trace
    <3>3. recorder'.entries # <<>> /\ recorder'.entries[Len(recorder'.entries)] = entry
      BY <3>2
    <3> QED
      BY <2>1, <3>1, <3>3 DEF AnswerIsOfDecidedGraph
  <2>4. CASE ~(selected = NoNode \/ call.budget <= 0)
    <3>1. ExpandNode(selected, call.budget, files, DecisionNoted)
      BY <1>7, <2>4 DEF Decide
    <3>2. selected \in Node /\ call.budget \in Depth
      BY <1>1, <1>7, <2>4, TypeParts DEF Inv, Decide
    <3>3. reply' = Error \/ (reply'.type = "graph" /\ reply'.graph = files)
      BY <1>1, <2>2, <3>1, <3>2, ExpandNodeEntries
    <3> QED
      BY <2>1, <3>3 DEF AnswerIsOfDecidedGraph
  <2> QED
    BY <2>3, <2>4
<1>8. ASSUME NEW n \in Node, NEW depth \in Depth, Expand(n, depth) PROVE AnswerIsOfDecidedGraph'
  <2>1. policy \in Policy /\ graph' = files /\ ExpandNode(n, depth, files, recorder)
    BY <1>8, TypeParts DEF Expand, MayEvaluate, Inv
  <2>2. reply' = Error \/ (reply'.type = "graph" /\ reply'.graph = files)
    BY <1>1, <2>1, ExpandNodeEntries
  <2> QED
    BY <2>1, <2>2 DEF AnswerIsOfDecidedGraph
<1> QED
  BY <1>2, <1>3, <1>4, <1>5, <1>6, <1>7, <1>8 DEF Next

\* What a client is shown with a decision or an expansion is of the graph the runtime holds,
\* and of the one the trace recorded the decision on.
THEOREM AnswerIsOfDecidedGraphAlways == Spec => []AnswerIsOfDecidedGraph
<1>1. Init => AnswerIsOfDecidedGraph
  BY DEF Init, AnswerIsOfDecidedGraph
<1> QED
  BY <1>1, Invariant, AnswerStep, PTL DEF Spec

----
(* Advice.  The histories are what the calls noted since the last clear    *)
(* amount to.                                                              *)

Ask == [node: Node, depth: Depth]

\* The expansions of n among those of a list.
Of(list, n) == {i \in 1..Len(list) : list[i].node = n}

\* A node is counted as often as it was asked for, with the greatest depth asked.
Follow(h, list) ==
    \A n \in Node :
        /\ Value(h.expands, n, 0) = Cardinality(Of(list, n))
        /\ n \in DOMAIN h.depths => \E i \in Of(list, n) : list[i].depth = h.depths[n]
        /\ \A i \in Of(list, n) : n \in DOMAIN h.depths /\ list[i].depth <= h.depths[n]

HistoriesFollowCalls == Follow(histories, asked)

LEMMA FollowEmpty == Follow(NoHistories, <<>>)
<1>1. \A n : Of(<<>>, n) = {}
  BY DEF Of
<1>2. \A n : Value(NoHistories.expands, n, 0) = 0 /\ n \notin DOMAIN NoHistories.depths
  BY DEF NoHistories, Value
<1> QED
  BY <1>1, <1>2, FS_EmptySet DEF Follow

LEMMA OfDepth ==
    ASSUME NEW list \in Asked, NEW n, NEW i \in Of(list, n)
    PROVE  list[i].depth \in Int
<1> DEFINE R == [node: Node, depth: Depth]
<1>1. list \in Seq(R) /\ i \in 1..Len(list)
  BY DEF Of, Asked
<1>2. list[i] \in R
  <2> HIDE DEF R
  <2> QED
    BY <1>1
<1> QED
  BY <1>2

LEMMA OfFinite ==
    ASSUME NEW list \in Asked, NEW n
    PROVE  IsFiniteSet(Of(list, n))
<1>1. Len(list) \in Nat /\ Of(list, n) \subseteq 1..Len(list)
  BY DEF Of, Asked
<1>2. IsFiniteSet(1..Len(list))
  BY <1>1, FS_Interval
<1> QED
  BY <1>1, <1>2, FS_Subset

LEMMA OfAppend ==
    ASSUME NEW list \in Asked, NEW e \in Ask, NEW n
    PROVE  /\ Append(list, e) \in Asked
           /\ Len(Append(list, e)) = Len(list) + 1
           /\ Append(list, e)[Len(list) + 1] = e
           /\ \A i \in Of(list, n) : Append(list, e)[i] = list[i]
           /\ e.node = n => Of(Append(list, e), n) = Of(list, n) \union {Len(list) + 1}
           /\ e.node # n => Of(Append(list, e), n) = Of(list, n)
           /\ Len(list) + 1 \notin Of(list, n)
<1>1. list \in Seq(Ask)
  BY DEF Asked, Ask
<1> QED
  BY <1>1 DEF Of, Asked, Ask

LEMMA NotedFollows ==
    ASSUME HistoriesFollowCalls, Histories(histories), asked \in Asked,
           NEW n \in Node, NEW depth \in Depth,
           histories' = NoteExpand(histories, n, depth),
           asked' = Append(asked, [node |-> n, depth |-> depth])
    PROVE  HistoriesFollowCalls'
<1> DEFINE last == Len(asked) + 1
<1>1. /\ histories'.expands = With(histories.expands, n, Value(histories.expands, n, 0) + 1)
      /\ histories'.depths = IF n \in DOMAIN histories.depths /\ depth <= histories.depths[n]
                             THEN histories.depths ELSE With(histories.depths, n, depth)
      /\ IsDict(histories.depths, Node, Depth)
      /\ IsDict(histories.expands, Node, Nat \ {0})
  BY NoteExpandFields DEF Histories
<1>2. \A m : /\ asked'[last] = [node |-> n, depth |-> depth]
             /\ \A i \in Of(asked, m) : asked'[i] = asked[i]
             /\ Of(asked', m) = IF m = n THEN Of(asked, m) \union {last} ELSE Of(asked, m)
             /\ last \notin Of(asked, m)
             /\ IsFiniteSet(Of(asked, m))
  <2> DEFINE e == [node |-> n, depth |-> depth]
  <2>1. e \in Ask /\ e.node = n
    BY DEF Ask
  <2>2. SUFFICES ASSUME NEW m
                 PROVE  /\ Append(asked, e)[last] = e
                        /\ \A i \in Of(asked, m) : Append(asked, e)[i] = asked[i]
                        /\ Of(Append(asked, e), m)
                              = IF m = n THEN Of(asked, m) \union {last} ELSE Of(asked, m)
                        /\ last \notin Of(asked, m)
                        /\ IsFiniteSet(Of(asked, m))
    OBVIOUS
  <2> HIDE DEF e
  <2>3. /\ Append(asked, e)[Len(asked) + 1] = e
        /\ \A i \in Of(asked, m) : Append(asked, e)[i] = asked[i]
        /\ e.node = m => Of(Append(asked, e), m) = Of(asked, m) \union {Len(asked) + 1}
        /\ e.node # m => Of(Append(asked, e), m) = Of(asked, m)
        /\ Len(asked) + 1 \notin Of(asked, m)
    <3>1. Append(asked, e)[Len(asked) + 1] = e
      BY <2>1, OfAppend
    <3>2. \A i \in Of(asked, m) : Append(asked, e)[i] = asked[i]
      BY <2>1 DEF Of, Asked, Ask
    <3>3. e.node = m => Of(Append(asked, e), m) = Of(asked, m) \union {Len(asked) + 1}
      BY <2>1, OfAppend
    <3>4. e.node # m => Of(Append(asked, e), m) = Of(asked, m)
      BY <2>1, OfAppend
    <3>5. Len(asked) + 1 \notin Of(asked, m)
      BY <2>1, OfAppend
    <3> QED
      BY <3>1, <3>2, <3>3, <3>4, <3>5
  <2> QED
    BY <2>1, <2>3, OfFinite
<1> SUFFICES ASSUME NEW m \in Node
             PROVE  /\ Value(histories'.expands, m, 0) = Cardinality(Of(asked', m))
                    /\ m \in DOMAIN histories'.depths =>
                          \E i \in Of(asked', m) : asked'[i].depth = histories'.depths[m]
                    /\ \A i \in Of(asked', m) :
                          m \in DOMAIN histories'.depths /\ asked'[i].depth <= histories'.depths[m]
  BY DEF HistoriesFollowCalls, Follow
<1>3. /\ Value(histories.expands, m, 0) = Cardinality(Of(asked, m))
      /\ m \in DOMAIN histories.depths =>
            \E i \in Of(asked, m) : asked[i].depth = histories.depths[m]
      /\ \A i \in Of(asked, m) :
            m \in DOMAIN histories.depths /\ asked[i].depth <= histories.depths[m]
  BY DEF HistoriesFollowCalls, Follow
<1>4. CASE m # n
  <2>1. Of(asked', m) = Of(asked, m) /\ \A i \in Of(asked, m) : asked'[i] = asked[i]
    BY <1>2, <1>4
  <2>2. Value(histories'.expands, m, 0) = Value(histories.expands, m, 0)
    BY <1>1, <1>4 DEF Value, With
  <2>3. /\ m \in DOMAIN histories'.depths <=> m \in DOMAIN histories.depths
        /\ m \in DOMAIN histories.depths => histories'.depths[m] = histories.depths[m]
    BY <1>1, <1>4 DEF With
  <2> QED
    BY <1>3, <2>1, <2>2, <2>3
<1>5. CASE m = n
  <2>1. Of(asked', n) = Of(asked, n) \union {last}
    BY <1>2
  <2>2. Cardinality(Of(asked', n)) = Cardinality(Of(asked, n)) + 1
    BY <1>2, <2>1, FS_AddElement
  <2>3. Value(histories'.expands, n, 0) = Value(histories.expands, n, 0) + 1
    BY <1>1 DEF Value, With
  <2>4. n \in DOMAIN histories'.depths
    BY <1>1 DEF With
  <2>5. CASE n \in DOMAIN histories.depths /\ depth <= histories.depths[n]
    <3>1. histories'.depths = histories.depths
      BY <1>1, <2>5
    <3>2. asked'[last].depth = depth
      BY <1>2
    <3>3. \E i \in Of(asked', n) : asked'[i].depth = histories'.depths[n]
      BY <1>2, <1>3, <1>5, <2>1, <2>5, <3>1
    <3>4. \A i \in Of(asked', n) : asked'[i].depth <= histories'.depths[n]
      BY <1>2, <1>3, <1>5, <2>1, <2>5, <3>1, <3>2
    <3> QED
      BY <1>3, <1>5, <2>2, <2>3, <2>4, <3>3, <3>4
  <2>6. CASE ~(n \in DOMAIN histories.depths /\ depth <= histories.depths[n])
    <3>1. histories'.depths[n] = depth
      BY <1>1, <2>6 DEF With
    <3>2. \A i \in Of(asked, n) : asked[i].depth <= depth
      <4>1. SUFFICES ASSUME NEW i \in Of(asked, n) PROVE asked[i].depth <= depth
        OBVIOUS
      <4>2. n \in DOMAIN histories.depths /\ asked[i].depth <= histories.depths[n]
        BY <1>3, <1>5
      <4>3. histories.depths[n] \in Int /\ depth \in Int
        BY <1>1, <4>2 DEF IsDict
      <4>4. asked[i].depth \in Int
        BY OfDepth
      <4> QED
        BY <2>6, <4>2, <4>3, <4>4
    <3>3. depth <= depth
      OBVIOUS
    <3>4. asked'[last].depth = depth
      BY <1>2
    <3>5. \E i \in Of(asked', n) : asked'[i].depth = histories'.depths[n]
      BY <2>1, <3>1, <3>4
    <3>6. \A i \in Of(asked', n) : asked'[i].depth <= histories'.depths[n]
      BY <1>2, <2>1, <3>1, <3>2, <3>3, <3>4
    <3> QED
      BY <1>3, <1>5, <2>2, <2>3, <2>4, <3>5, <3>6
  <2> QED
    BY <2>5, <2>6
<1> QED
  BY <1>4, <1>5

\* The advice given with a call, from what the histories amount to.
LEMMA AdviceGiven ==
    ASSUME HistoriesFollowCalls, Histories(histories), asked \in Asked,
           NEW n \in Node, NEW depth \in Depth, NEW g,
           asked' = Append(asked, [node |-> n, depth |-> depth]),
           reply' = [type |-> "graph", node |-> n, depth |-> depth, graph |-> g,
                     prior |-> Value(histories.expands, n, 0),
                     advice |-> Advice(histories, n, depth)]
    PROVE  AdviceFollowsCalls'
<1> DEFINE before == {i \in 1..(Len(asked') - 1) : asked'[i].node = n}
<1>1. before = Of(asked, n) /\ \A i \in before : asked'[i] = asked[i]
  BY DEF Of, Asked
<1>2. /\ Value(histories.expands, n, 0) = Cardinality(before)
      /\ n \in DOMAIN histories.depths =>
            \E i \in before : asked'[i].depth = histories.depths[n]
      /\ \A i \in before :
            n \in DOMAIN histories.depths /\ asked'[i].depth <= histories.depths[n]
  BY <1>1 DEF HistoriesFollowCalls, Follow
<1>3. Value(histories.expands, n, 0) = 0 <=> before = {}
  BY <1>1, <1>2, OfFinite, FS_EmptySet
<1>4. /\ \A i \in before : asked'[i].depth \in Int
      /\ n \in DOMAIN histories.depths => histories.depths[n] \in Int
      /\ depth \in Int
  <2>1. \A i \in before : asked'[i].depth \in Int
    BY <1>1, OfDepth
  <2> QED
    BY <2>1 DEF Histories, IsDict
<1>5. n \in DOMAIN histories.depths /\ depth <= histories.depths[n]
         <=> \E i \in before : asked'[i].depth >= depth
  <2>1. ASSUME n \in DOMAIN histories.depths, depth <= histories.depths[n]
        PROVE  \E i \in before : asked'[i].depth >= depth
    <3>1. PICK i \in before : asked'[i].depth = histories.depths[n]
      BY <1>2, <2>1
    <3> QED
      BY <1>4, <2>1, <3>1
  <2>2. ASSUME NEW i \in before, asked'[i].depth >= depth
        PROVE  n \in DOMAIN histories.depths /\ depth <= histories.depths[n]
    <3>1. n \in DOMAIN histories.depths /\ asked'[i].depth <= histories.depths[n]
      BY <1>2
    <3>2. PICK d : d = asked'[i].depth
      OBVIOUS
    <3>3. d \in Int /\ d >= depth /\ d <= histories.depths[n]
      BY <1>4, <2>2, <3>1, <3>2
    <3>4. histories.depths[n] \in Int /\ depth \in Int
      BY <1>4, <3>1
    <3> QED
      BY <3>1, <3>3, <3>4
  <2> QED
    BY <2>1, <2>2
<1>6. /\ Advice(histories, n, depth) = "do_not_repeat_same_or_shallower_expand"
            <=> n \in DOMAIN histories.depths /\ depth <= histories.depths[n]
      /\ Advice(histories, n, depth) = "fresh_expand"
            <=> /\ ~(n \in DOMAIN histories.depths /\ depth <= histories.depths[n])
                /\ Value(histories.expands, n, 0) = 0
  <2>1. CASE n \in DOMAIN histories.depths /\ depth <= histories.depths[n]
    <3>1. Value(histories.expands, n, 0) # 0
      BY <2>1 DEF Histories, IsDict, Value
    <3>2. Advice(histories, n, depth) = "do_not_repeat_same_or_shallower_expand"
      BY <2>1, <3>1 DEF Advice
    <3> QED
      BY <2>1, <3>2
  <2>2. CASE /\ ~(n \in DOMAIN histories.depths /\ depth <= histories.depths[n])
             /\ Value(histories.expands, n, 0) = 0
    <3>1. Advice(histories, n, depth) = "fresh_expand"
      BY <2>2 DEF Advice
    <3> QED
      BY <2>2, <3>1
  <2>3. CASE /\ ~(n \in DOMAIN histories.depths /\ depth <= histories.depths[n])
             /\ Value(histories.expands, n, 0) # 0
    <3>1. Advice(histories, n, depth) = "only_continue_if_new_symbol_requires_deeper_context"
      BY <2>3 DEF Advice
    <3> QED
      BY <2>3, <3>1
  <2> QED
    BY <2>1, <2>2, <2>3
<1>7. before = {} => ~(n \in DOMAIN histories.depths /\ depth <= histories.depths[n])
  BY <1>5
<1>8. reply'.node = n /\ reply'.depth = depth
      /\ reply'.prior = Value(histories.expands, n, 0) /\ reply'.advice = Advice(histories, n, depth)
  OBVIOUS
<1> QED
  BY <1>2, <1>3, <1>5, <1>6, <1>7, <1>8 DEF AdviceFollowsCalls

LEMMA ExpandNodeAdvice ==
    ASSUME HistoriesFollowCalls, Histories(histories), asked \in Asked,
           NEW n \in Node, NEW depth \in Depth, NEW g \in Version, NEW record \in Record,
           ExpandNode(n, depth, g, record)
    PROVE  HistoriesFollowCalls' /\ AdviceFollowsCalls'
<1>1. PICK o \in Outcomes(n, depth, g) :
         /\ histories' = NoteExpand(histories, n, depth)
         /\ asked' = Append(asked, [node |-> n, depth |-> depth])
         /\ reply' = IF o.ok
                     THEN [type |-> "graph", node |-> n, depth |-> depth, graph |-> g,
                           prior |-> Value(histories.expands, n, 0),
                           advice |-> Advice(histories, n, depth)]
                     ELSE Error
  BY DEF ExpandNode
<1>2. HistoriesFollowCalls'
  BY <1>1, NotedFollows
<1>3. CASE o.ok
  <2>1. reply' = [type |-> "graph", node |-> n, depth |-> depth, graph |-> g,
                  prior |-> Value(histories.expands, n, 0),
                  advice |-> Advice(histories, n, depth)]
    BY <1>1, <1>3
  <2> QED
    BY <1>1, <1>2, <2>1, AdviceGiven
<1>4. CASE ~o.ok
  <2>1. reply'.type # "graph"
    BY <1>1, <1>4
  <2> QED
    BY <1>2, <2>1 DEF AdviceFollowsCalls
<1> QED
  BY <1>2, <1>3, <1>4

LEMMA AdviceStep ==
    Inv /\ HistoriesFollowCalls /\ AdviceFollowsCalls /\ [Next]_vars
        => HistoriesFollowCalls' /\ AdviceFollowsCalls'
<1> SUFFICES ASSUME Inv, HistoriesFollowCalls, AdviceFollowsCalls, [Next]_vars
             PROVE  HistoriesFollowCalls' /\ AdviceFollowsCalls'
  OBVIOUS
<1>1. /\ files \in Version /\ recorder \in Record /\ Histories(histories) /\ asked \in Asked
      /\ call # Idle => policy \in Policy
  BY TypeParts DEF Inv, NothingWithoutPolicy
\* The two parts, by what a step may leave alone.
<1>2. asked' = asked /\ histories'.expands = histories.expands /\ histories'.depths = histories.depths
         => HistoriesFollowCalls'
  BY DEF HistoriesFollowCalls, Follow
<1>3. histories' = NoHistories /\ asked' = <<>> => HistoriesFollowCalls'
  BY FollowEmpty DEF HistoriesFollowCalls
<1>4. reply'.type # "graph" => AdviceFollowsCalls'
  BY DEF AdviceFollowsCalls
<1>5. CASE Edit \/ UNCHANGED vars
  BY <1>2, <1>5 DEF Edit, vars, AdviceFollowsCalls
<1>6. CASE Refuse \/ DecisionFails
  BY <1>2, <1>4, <1>6 DEF Refuse, DecisionFails
<1>7. ASSUME NEW p \in Policy, Install(p) PROVE HistoriesFollowCalls' /\ AdviceFollowsCalls'
  BY <1>2, <1>4, <1>7 DEF Install
<1>8. CASE ClearPolicy \/ ResetSession
  BY <1>3, <1>4, <1>8 DEF ClearPolicy, ResetSession
<1>9. ASSUME NEW clear \in BOOLEAN, Collect(clear)
      PROVE  HistoriesFollowCalls' /\ AdviceFollowsCalls'
  BY <1>2, <1>4, <1>9 DEF Collect
<1>10. ASSUME NEW q \in Query, NEW budget \in Depth \intersect Nat, Resolve(q, budget)
       PROVE  HistoriesFollowCalls' /\ AdviceFollowsCalls'
  <2>1. /\ NoteQuery(histories, q).expands = histories.expands
        /\ NoteQuery(histories, q).depths = histories.depths
    BY <1>1 DEF NoteQuery, Histories
  <2> QED
    BY <1>2, <1>4, <1>10, <2>1 DEF Resolve
<1>11. ASSUME NEW selected \in Node \union {NoNode}, Decide(selected)
       PROVE  HistoriesFollowCalls' /\ AdviceFollowsCalls'
  <2>1. CASE selected = NoNode \/ call.budget <= 0
    BY <1>2, <1>4, <1>11, <2>1 DEF Decide
  <2>2. CASE ~(selected = NoNode \/ call.budget <= 0)
    <3>1. ExpandNode(selected, call.budget, files, DecisionNoted)
      BY <1>11, <2>2 DEF Decide
    <3>2. selected \in Node /\ call.budget \in Depth
      BY <1>1, <1>11, <2>2, TypeParts DEF Inv, Decide
    <3>3. policy \in Policy
      BY <1>1, <1>11 DEF Decide
    <3>4. DecisionNoted \in Record
      BY <1>1, <3>3, DecisionNotedType
    <3> QED
      BY <1>1, <3>1, <3>2, <3>4, ExpandNodeAdvice
  <2> QED
    BY <2>1, <2>2
<1>12. ASSUME NEW n \in Node, NEW depth \in Depth, Expand(n, depth)
       PROVE  HistoriesFollowCalls' /\ AdviceFollowsCalls'
  BY <1>1, <1>12, ExpandNodeAdvice DEF Expand
<1> QED
  BY <1>5, <1>6, <1>7, <1>8, <1>9, <1>10, <1>11, <1>12 DEF Next

\* The advice against repeating an expansion is given exactly when one as deep was asked
\* for since the last clear, and the count with it is right, whatever else was called
\* between and whichever calls raised.
THEOREM AdviceFollowsCallsAlways == Spec => []AdviceFollowsCalls
<1>1. Init => HistoriesFollowCalls /\ AdviceFollowsCalls
  BY FollowEmpty DEF Init, HistoriesFollowCalls, AdviceFollowsCalls
<1> QED
  BY <1>1, Invariant, AdviceStep, PTL DEF Spec


----
(* The counts of the recorder and of the histories.  A call adds one to    *)
(* the count of its key, so one more is counted of all keys together.      *)

LEMMA CountedEmpty == IsFiniteSet(Counted(<<>>)) /\ Calls(<<>>) = 0
<1>1. Counted(<<>>) = {}
  BY DEF Counted
<1> QED
  BY <1>1, FS_EmptySet DEF Calls

LEMMA CountedMore ==
    ASSUME NEW K, NEW d, IsDict(d, K, Nat \ {0}), IsFiniteSet(Counted(d)), NEW k \in K
    PROVE  /\ IsFiniteSet(Counted(With(d, k, Value(d, k, 0) + 1)))
           /\ Calls(d) \in Nat
           /\ Calls(With(d, k, Value(d, k, 0) + 1)) = Calls(d) + 1
<1> DEFINE n == Value(d, k, 0)
           w == With(d, k, n + 1)
<1>1. n \in Nat /\ (k \notin DOMAIN d => n = 0) /\ (k \in DOMAIN d => n = d[k])
  BY DEF Value, IsDict
<1>2. /\ DOMAIN w = DOMAIN d \union {k}
      /\ w[k] = n + 1
      /\ \A x \in DOMAIN d \ {k} : w[x] = d[x]
  BY DEF With
<1>3. \A x \in DOMAIN d : d[x] \in Nat
  BY DEF IsDict
<1> HIDE DEF n, w
<1>4. 1..(n + 1) = (1..n) \union {n + 1}
  BY <1>1
<1>5. \A p : p \in Counted(d) <=> \E x \in DOMAIN d : p \in {x} \X (1..d[x])
  BY DEF Counted
<1>6. \A p : p \in Counted(w) <=> \E x \in DOMAIN w : p \in {x} \X (1..w[x])
  BY DEF Counted
<1>7. Counted(w) \subseteq Counted(d) \union {<<k, n + 1>>}
  <2>1. SUFFICES ASSUME NEW p \in Counted(w), p # <<k, n + 1>> PROVE p \in Counted(d)
    OBVIOUS
  <2>2. PICK x \in DOMAIN w : p \in {x} \X (1..w[x])
    BY <1>6
  <2>3. CASE x = k
    <3>1. PICK i \in 1..(n + 1) : p = <<k, i>>
      BY <2>2, <2>3, <1>2
    <3>2. i \in 1..n
      BY <3>1, <2>1, <1>4
    <3>3. k \in DOMAIN d /\ d[k] = n
      BY <3>2, <1>1
    <3> QED
      BY <3>1, <3>2, <3>3, <1>5
  <2>4. CASE x # k
    BY <2>2, <2>4, <1>2, <1>5
  <2> QED
    BY <2>3, <2>4
<1>8. Counted(d) \union {<<k, n + 1>>} \subseteq Counted(w)
  <2>1. <<k, n + 1>> \in Counted(w)
    <3>1. k \in DOMAIN w /\ <<k, n + 1>> \in {k} \X (1..w[k])
      BY <1>1, <1>2
    <3> QED
      BY <3>1, <1>6
  <2>2. ASSUME NEW p \in Counted(d) PROVE p \in Counted(w)
    <3>1. PICK x \in DOMAIN d : p \in {x} \X (1..d[x])
      BY <1>5
    <3>2. 1..d[x] \subseteq 1..w[x]
      BY <1>1, <1>2, <1>3, <1>4
    <3> QED
      BY <3>1, <3>2, <1>2, <1>6
  <2> QED
    BY <2>1, <2>2
<1>9. <<k, n + 1>> \notin Counted(d)
  <2>1. ASSUME NEW x \in DOMAIN d, <<k, n + 1>> \in {x} \X (1..d[x]) PROVE FALSE
    BY <2>1, <1>1
  <2> QED
    BY <2>1, <1>5
<1>10. Counted(w) = Counted(d) \union {<<k, n + 1>>}
  BY <1>7, <1>8
<1>11. IsFiniteSet(Counted(w)) /\ Cardinality(Counted(w)) = Cardinality(Counted(d)) + 1
  <2>1. \A p : p \notin Counted(d) => /\ IsFiniteSet(Counted(d) \union {p})
                                     /\ Cardinality(Counted(d) \union {p}) = Cardinality(Counted(d)) + 1
    BY FS_AddElement
  <2> QED
    BY <1>9, <1>10, <2>1
<1>12. Cardinality(Counted(d)) \in Nat
  BY FS_CardinalityType
<1> QED
  BY <1>11, <1>12 DEF Calls, n, w

\* The two counts of a record, and the counts a step notes them against.
Within(record, h) ==
    /\ IsFiniteSet(Counted(h.queries)) /\ IsFiniteSet(Counted(h.expands))
    /\ record.resolves <= Calls(h.queries)
    /\ record.expands <= Calls(h.expands)

LEMMA NothingWithin == Within(NoRecord, NoHistories)
  BY CountedEmpty DEF Within, NoRecord, NoHistories

LEMMA CallsType ==
    ASSUME NEW d, IsFiniteSet(Counted(d))
    PROVE  Calls(d) \in Nat
  BY FS_CardinalityType DEF Calls

LEMMA ExpandNodeCounts ==
    ASSUME NEW n \in Node, NEW depth \in Depth, NEW g \in Version, NEW record \in Record,
           Histories(histories), Within(record, histories), ExpandNode(n, depth, g, record)
    PROVE  Within(recorder', histories')
<1>1. PICK o \in Outcomes(n, depth, g) :
         /\ recorder' = [record EXCEPT
               !.expands = @ + 1,
               !.entries = IF o.stepped THEN Append(@, [policy |-> policy, graph |-> g]) ELSE @]
         /\ histories' = NoteExpand(histories, n, depth)
  BY DEF ExpandNode
<1>2. /\ recorder'.resolves = record.resolves
      /\ recorder'.expands = record.expands + 1
      /\ record.resolves \in Nat /\ record.expands \in Nat
  BY <1>1 DEF Record
<1>3. /\ histories'.queries = histories.queries
      /\ histories'.expands = With(histories.expands, n, Value(histories.expands, n, 0) + 1)
  BY <1>1, NoteExpandFields
<1>4. IsDict(histories.expands, Node, Nat \ {0})
  BY DEF Histories
<1>5. IsFiniteSet(Counted(histories.expands))
  BY DEF Within
<1>6. /\ IsFiniteSet(Counted(histories'.expands))
      /\ Calls(histories.expands) \in Nat
      /\ Calls(histories'.expands) = Calls(histories.expands) + 1
  BY <1>3, <1>4, <1>5, CountedMore
<1> QED
  BY <1>2, <1>3, <1>6 DEF Within

\* Between the two halves of a resolve the query is counted and the decision is not.
QueryNotedFirst ==
    /\ Within(recorder, histories)
    /\ call # Idle => recorder.resolves < Calls(histories.queries)

LEMMA CountsStep == Inv /\ QueryNotedFirst /\ [Next]_vars => QueryNotedFirst'
<1> SUFFICES ASSUME Inv, QueryNotedFirst, [Next]_vars
             PROVE  QueryNotedFirst'
  OBVIOUS
<1>0. Within(recorder, histories)
  BY DEF QueryNotedFirst
<1> DEFINE Goal == /\ Within(recorder', histories')
                   /\ call' # Idle => recorder'.resolves < Calls(histories'.queries)
<1>g. Goal => QueryNotedFirst'
  BY DEF QueryNotedFirst, Within
<1>1. /\ files \in Version
      /\ Histories(histories)
      /\ recorder \in Record
      /\ policy = NoPolicy => call = Idle
  BY TypeParts DEF Inv, NothingWithoutPolicy
<1>2. recorder' = recorder /\ histories' = histories /\ call' \in {call, Idle} => Goal
  BY DEF QueryNotedFirst
<1>3. recorder' = NoRecord /\ histories' = NoHistories /\ call' = Idle => Goal
  BY NothingWithin
<1>4. Within(NoRecord, histories)
  <2>1. Calls(histories.queries) \in Nat /\ Calls(histories.expands) \in Nat
    BY <1>0, CallsType DEF Within
  <2> QED
    BY <2>1, <1>0 DEF Within, NoRecord
<1>5. ASSUME Edit \/ Refuse \/ DecisionFails \/ UNCHANGED vars PROVE Goal
  <2>1. recorder' = recorder /\ histories' = histories /\ call' \in {call, Idle}
    BY <1>5 DEF Edit, Refuse, DecisionFails, vars
  <2> QED
    BY <1>2, <2>1
<1>6. ASSUME NEW p \in Policy, Install(p) PROVE Goal
  BY <1>2, <1>6 DEF Install
<1>7. ASSUME ClearPolicy \/ ResetSession PROVE Goal
  <2>1. recorder' = NoRecord /\ histories' = NoHistories /\ call' = Idle
    BY <1>7 DEF ClearPolicy, ResetSession
  <2> QED
    BY <1>3, <2>1
<1>8. ASSUME NEW clear \in BOOLEAN, Collect(clear) PROVE Goal
  BY <1>0, <1>4, <1>8 DEF Collect
<1>9. ASSUME NEW q \in Query, NEW budget \in Depth \intersect Nat, Resolve(q, budget)
      PROVE  Goal
  <2>1. recorder' = recorder /\ histories' = NoteQuery(histories, q)
    BY <1>9 DEF Resolve
  <2>2. /\ histories'.queries = With(histories.queries, q, Value(histories.queries, q, 0) + 1)
        /\ histories'.expands = histories.expands
    BY <1>1, <2>1 DEF NoteQuery, Histories
  <2>3. IsDict(histories.queries, Query, Nat \ {0}) /\ IsFiniteSet(Counted(histories.queries))
    BY <1>0, <1>1 DEF Histories, Within
  <2>4. /\ IsFiniteSet(Counted(histories'.queries))
        /\ Calls(histories.queries) \in Nat
        /\ Calls(histories'.queries) = Calls(histories.queries) + 1
    BY <2>2, <2>3, CountedMore
  <2>5. recorder.resolves \in Nat
    BY <1>1 DEF Record
  <2> QED
    BY <2>1, <2>2, <2>4, <2>5, <1>0 DEF Within
<1>10. ASSUME NEW selected \in Node \union {NoNode}, Decide(selected)
       PROVE  Goal
  <2>1. policy \in Policy /\ call \in [pc: {"decide"}, budget: Depth \intersect Nat]
    BY <1>10, TypeParts DEF Inv, NothingWithoutPolicy, Decide
  <2>2. DecisionNoted \in Record
    BY <1>1, <2>1, DecisionNotedType
  <2>3. Within(DecisionNoted, histories) /\ call' = Idle
    <3>1. /\ DecisionNoted.resolves = recorder.resolves + 1
          /\ DecisionNoted.expands = recorder.expands
          /\ recorder.resolves \in Nat
      BY <1>1 DEF DecisionNoted, Record
    <3>2. recorder.resolves < Calls(histories.queries) /\ Calls(histories.queries) \in Nat
      BY <2>1, CallsType DEF QueryNotedFirst, Within
    <3> QED
      BY <1>0, <1>10, <3>1, <3>2 DEF Within, Decide
  <2>4. CASE selected = NoNode \/ call.budget <= 0
    BY <2>3, <2>4, <1>10 DEF Decide
  <2>5. CASE ~(selected = NoNode \/ call.budget <= 0)
    BY <2>5, <2>1, <2>2, <2>3, <1>1, <1>10, ExpandNodeCounts DEF Decide
  <2> QED
    BY <2>4, <2>5
<1>11. ASSUME NEW n \in Node, NEW depth \in Depth, Expand(n, depth)
       PROVE  Goal
  BY <1>0, <1>1, <1>11, TypeParts, ExpandNodeCounts DEF Expand, MayEvaluate, Inv
<1> QED
  BY <1>g, <1>5, <1>6, <1>7, <1>8, <1>9, <1>10, <1>11 DEF Next

\* The recorder counts no resolve and no expansion that the histories have not counted,
\* for any number of calls, whichever half of a call raises: a query is noted before
\* its decision can be, an expand call before its traversal runs, and whatever drops
\* the histories drops the record too.
THEOREM RecorderWithinHistoriesAlways == Spec => []RecorderWithinHistories
<1>1. Init => QueryNotedFirst
  BY NothingWithin DEF Init, QueryNotedFirst
<1>2. QueryNotedFirst => RecorderWithinHistories
  BY DEF QueryNotedFirst, Within, RecorderWithinHistories
<1> QED
  BY <1>1, <1>2, CountsStep, Invariant, PTL DEF Spec
====
