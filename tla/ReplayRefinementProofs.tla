---- MODULE ReplayRefinementProofs ----
(***************************************************************************)
(* A runtime implements GraphReplay: proof that every step of its calls    *)
(* maps to a step of the abstract trace or to none, and that a reader who  *)
(* parses and applies a collected log (GraphEvents) rebuilds the graph the *)
(* recorder believes it shows.                                             *)
(***************************************************************************)
EXTENDS LookaheadProofs

USE LookaheadAssumption, ConstantsAssumption

----
(* apply_events on a growing log.                                          *)

\* f gives what is left after each number of the events.
Run(f, g, events) ==
    f = [i \in 0..Len(events) |->
            IF i = 0 THEN {g} ELSE UNION {Events!ApplyRaw(h, events[i]) : h \in f[i - 1]}]

LEMMA RunExists ==
    ASSUME NEW g, NEW events, Len(events) \in Nat
    PROVE  \E f : Run(f, g, events)
<1> DEFINE after(f, i) == IF i = 0 THEN {g} ELSE UNION {Events!ApplyRaw(h, events[i]) : h \in f[i - 1]}
           T == {k \in Nat : \E f : f = [i \in 0..k |-> after(f, i)]}
<1>1. 0 \in T
  <2> DEFINE f == [i \in 0..0 |-> {g}]
  <2>1. f = [i \in 0..0 |-> after(f, i)]
    OBVIOUS
  <2> QED
    BY <2>1
<1>2. ASSUME NEW k \in Nat, k \in T PROVE k + 1 \in T
  <2>1. PICK f : f = [i \in 0..k |-> after(f, i)]
    BY <1>2
  <2> DEFINE h == [i \in 0..(k + 1) |-> IF i = k + 1 THEN after(f, k + 1) ELSE f[i]]
  <2>2. \A i \in 0..(k + 1) : i # 0 => i - 1 \in 0..k /\ h[i - 1] = f[i - 1]
    OBVIOUS
  <2>3. \A i \in 0..(k + 1) : h[i] = after(h, i)
    <3> SUFFICES ASSUME NEW i \in 0..(k + 1) PROVE h[i] = after(h, i)
      OBVIOUS
    <3>1. h[i] = after(f, i)
      <4>1. CASE i = k + 1
        BY <4>1
      <4>2. CASE i # k + 1
        <5>1. i \in 0..k /\ h[i] = f[i]
          BY <4>2
        <5> HIDE DEF h, after
        <5> QED
          BY <2>1, <5>1
      <4> QED
        BY <4>1, <4>2
    <3>2. after(f, i) = after(h, i)
      <4>1. CASE i = 0
        BY <4>1
      <4>2. CASE i # 0
        <5>1. h[i - 1] = f[i - 1]
          BY <2>2, <4>2
        <5> HIDE DEF h
        <5> QED
          BY <4>2, <5>1
      <4> QED
        BY <4>1, <4>2
    <3> HIDE DEF h, after
    <3> QED
      BY <3>1, <3>2
  <2>4. h = [i \in 0..(k + 1) |-> after(h, i)]
    <3>1. h = [i \in 0..(k + 1) |-> h[i]]
      OBVIOUS
    <3> HIDE DEF h, after
    <3> QED
      BY <2>3, <3>1
  <2> HIDE DEF h, after
  <2> QED
    BY <2>4
<1> HIDE DEF T
<1>3. Len(events) \in T
  BY <1>1, <1>2, SetInduction
<1> QED
  BY <1>3 DEF T, Run

LEMMA ApplyIsRun ==
    ASSUME NEW g, NEW events, Len(events) \in Nat
    PROVE  \E f : Run(f, g, events) /\ Events!ApplyEvents(g, events) = f[Len(events)]
<1> DEFINE after[i \in 0..Len(events)] ==
              IF i = 0 THEN {g} ELSE UNION {Events!ApplyRaw(h, events[i]) : h \in after[i - 1]}
<1>0. \E f : f = [i \in 0..Len(events) |->
                     IF i = 0 THEN {g} ELSE UNION {Events!ApplyRaw(h, events[i]) : h \in f[i - 1]}]
  <2>1. PICK f : Run(f, g, events)
    BY RunExists
  <2> QED
    BY <2>1 DEF Run
<1>1. Run(after, g, events)
  <2>1. after = [i \in 0..Len(events) |->
                    IF i = 0 THEN {g} ELSE UNION {Events!ApplyRaw(h, events[i]) : h \in after[i - 1]}]
    BY <1>0
  <2> HIDE DEF after
  <2> QED
    BY <2>1 DEF Run
<1>2. Events!ApplyEvents(g, events) = after[Len(events)]
  BY DEF Events!ApplyEvents
<1> HIDE DEF after
<1> QED
  BY <1>1, <1>2

\* The first entries of a run do not depend on the rest.
LEMMA RunsAgree ==
    ASSUME NEW g, NEW s, NEW u, Len(s) \in Nat, Len(u) = Len(s) + 1,
           \A i \in 1..Len(s) : u[i] = s[i],
           NEW f, NEW h, Run(f, g, s), Run(h, g, u)
    PROVE  \A i \in 0..Len(s) : f[i] = h[i]
<1> DEFINE len == Len(s)
           T == {i \in Nat : i <= len => f[i] = h[i]}
<1>1. /\ f = [i \in 0..len |->
                 IF i = 0 THEN {g} ELSE UNION {Events!ApplyRaw(x, s[i]) : x \in f[i - 1]}]
      /\ h = [i \in 0..(len + 1) |->
                 IF i = 0 THEN {g} ELSE UNION {Events!ApplyRaw(x, u[i]) : x \in h[i - 1]}]
      /\ len \in Nat
  BY DEF Run
<1>2. \A i \in 1..len : u[i] = s[i]
  OBVIOUS
<1> HIDE DEF len
<1>3. 0 \in T
  <2>1. 0 \in 0..len /\ 0 \in 0..(len + 1)
    BY <1>1
  <2>2. f[0] = {g} /\ h[0] = {g}
    BY <1>1, <2>1
  <2> QED
    BY <2>2
<1>4. ASSUME NEW i \in Nat, i \in T PROVE i + 1 \in T
  <2> SUFFICES ASSUME i + 1 <= len PROVE f[i + 1] = h[i + 1]
    OBVIOUS
  <2>1. /\ i + 1 \in 0..len /\ i + 1 \in 0..(len + 1) /\ i + 1 # 0 /\ (i + 1) - 1 = i
        /\ i + 1 \in 1..len
    BY <1>1
  <2>2. f[i] = h[i]
    BY <1>1, <1>4, <2>1
  <2>3. f[i + 1] = UNION {Events!ApplyRaw(x, s[i + 1]) : x \in f[i]}
    BY <1>1, <2>1
  <2>4. h[i + 1] = UNION {Events!ApplyRaw(x, u[i + 1]) : x \in h[i]}
    BY <1>1, <2>1
  <2> QED
    BY <1>2, <2>1, <2>2, <2>3, <2>4
<1> HIDE DEF T
<1>5. \A i \in Nat : i \in T
  BY <1>3, <1>4, SetInduction
<1>6. \A i \in 0..len : f[i] = h[i]
  <2> TAKE i \in 0..len
  <2>1. i \in Nat /\ i <= len
    BY <1>1
  <2> QED
    BY <1>5, <2>1 DEF T
<1> QED
  BY <1>6 DEF len

\* One more event is applied to what the others left.
Extends(s, u) ==
    /\ Len(s) \in Nat /\ Len(u) = Len(s) + 1
    /\ \A i \in 1..Len(s) : u[i] = s[i]

LEMMA ApplyOneMore ==
    ASSUME NEW g, NEW s, NEW u, Extends(s, u)
    PROVE  Events!ApplyEvents(g, u)
             = UNION {Events!ApplyRaw(x, u[Len(s) + 1]) : x \in Events!ApplyEvents(g, s)}
<1> DEFINE len == Len(s)
<1>0. /\ Len(s) \in Nat /\ Len(u) = Len(s) + 1
      /\ \A i \in 1..Len(s) : u[i] = s[i]
  BY DEF Extends
<1>1. PICK f : Run(f, g, s) /\ Events!ApplyEvents(g, s) = f[len]
  BY <1>0, ApplyIsRun
<1>2. Len(u) \in Nat
  BY <1>0
<1>3. PICK h : Run(h, g, u) /\ Events!ApplyEvents(g, u) = h[len + 1]
  BY <1>0, <1>2, ApplyIsRun
<1>4. f[len] = h[len]
  <2>1. \A i \in 0..len : f[i] = h[i]
    BY <1>0, <1>1, <1>3, RunsAgree
  <2> QED
    BY <1>0, <2>1
<1>5. /\ h = [i \in 0..(len + 1) |->
                 IF i = 0 THEN {g} ELSE UNION {Events!ApplyRaw(x, u[i]) : x \in h[i - 1]}]
      /\ len \in Nat
  BY <1>0, <1>3 DEF Run
<1> HIDE DEF len
<1>6. h[len + 1] = UNION {Events!ApplyRaw(x, u[len + 1]) : x \in h[len]}
  <2>1. len + 1 \in 0..(len + 1) /\ len + 1 # 0 /\ (len + 1) - 1 = len
    BY <1>5
  <2> QED
    BY <1>5, <2>1
<1> QED
  BY <1>1, <1>3, <1>4, <1>6 DEF len

LEMMA ApplyNone ==
    ASSUME NEW g
    PROVE  Events!ApplyEvents(g, <<>>) = {g}
<1>1. Len(<<>>) = 0
  OBVIOUS
<1>2. PICK f : Run(f, g, <<>>) /\ Events!ApplyEvents(g, <<>>) = f[0]
  BY <1>1, ApplyIsRun
<1>3. f[0] = {g}
  BY <1>1, <1>2 DEF Run
<1> QED
  BY <1>2, <1>3

----
(* What a reader of the log rebuilds.                                      *)

\* The graph that the recorder believes its log shows.
View(t) == [state |-> [n \in Known(t) |-> t.known[n]], edges |-> t.edges]

\* Parsed, the log gives this graph; as it is, only the graph without nodes.
Rebuilt(t) ==
    /\ \A i \in 1..Len(t.events) : Events!IsGraphEvent(t.events[i])
    /\ Events!ApplyEvents(Events!EmptyGraph, Events!Objects(t.events)) = {View(t)}
    /\ Events!ApplyEvents(Events!EmptyGraph, Events!Dicts(t.events))
          = {View(t)} \intersect {Events!EmptyGraph}

LEMMA ViewOfNoTrace == View(NoTrace) = Events!EmptyGraph
<1>1. Known(NoTrace) = {} /\ NoTrace.edges = {}
  BY DEF Known, NoTrace
<1>2. [n \in Known(NoTrace) |-> NoTrace.known[n]] = <<>>
  BY <1>1
<1> QED
  BY <1>1, <1>2 DEF View, Events!EmptyGraph

\* The reader does with an entry what the recorder did with its mirror.
LEMMA ReaderFollows ==
    ASSUME NEW t, NEW u, NEW e, Consistent(t), Follows(t, u, e),
           e.type = "addEdges" => \A x \in e.edges : x[1] \in Known(t) /\ x[2] \in Known(t),
           e.type \notin {"setContext", "tokenAdd"}
    PROVE  Events!ApplyEvent(View(t), e) = {View(u)}
<1> DEFINE g == View(t)
           h == View(u)
<1>0. /\ t \in TraceType /\ u \in TraceType /\ e \in Entry
      /\ \A n \in Node : u.known[n] = IF Speaks(e, n) THEN e.state ELSE t.known[n]
      /\ e.type = "addNodes" => e.nodes \intersect Known(t) = {}
      /\ e.type = "updateNode" => e.nodes \subseteq Known(t)
      /\ u.edges = t.edges \union (IF e.type = "addEdges" THEN e.edges ELSE {})
  BY DEF Follows, Consistent
<1>1. /\ g = [state |-> [n \in Known(t) |-> t.known[n]], edges |-> t.edges]
      /\ h = [state |-> [n \in Known(u) |-> u.known[n]], edges |-> u.edges]
      /\ Events!Nodes(g) = Known(t)
  BY DEF View, Events!Nodes
<1>2. e.type \in {"addNodes", "updateNode", "addEdges", "iteration"}
  BY <1>0 DEF Entry, NodesEntry, PatchEntry, EdgesEntry, IterationEntry, NoteEntry
<1>3. /\ e.type = "addNodes" => e.state \in NodeState /\ e.nodes \subseteq Node
      /\ e.type = "updateNode" => e.state \in NodeState \union {NoPatch} /\ e.nodes \subseteq Node
      /\ e.type = "addEdges" => e.edges \subseteq Edge
  BY <1>0 DEF Entry, NodesEntry, PatchEntry, EdgesEntry, IterationEntry, NoteEntry
<1> HIDE DEF g, h
<1>4. CASE e.type = "addNodes"
  <2>1. \A n \in Node : Speaks(e, n) <=> n \in e.nodes
    BY <1>3, <1>4 DEF Speaks, NodeState, Settled, NoPatch
  <2>2. Known(u) = Known(t) \union e.nodes
    BY <1>0, <1>3, <1>4, <2>1 DEF Known, NodeState, Settled, Absent
  <2>3. h = [state |-> [n \in Known(t) \union e.nodes |-> IF n \in Known(t) THEN t.known[n] ELSE e.state],
             edges |-> t.edges]
    <3>1. \A n \in Known(u) : u.known[n] = IF n \in Known(t) THEN t.known[n] ELSE e.state
      BY <1>0, <1>4, <2>1, <2>2 DEF Known
    <3>2. u.edges = t.edges
      BY <1>0, <1>4
    <3>3. [n \in Known(u) |-> u.known[n]]
            = [n \in Known(t) \union e.nodes |-> IF n \in Known(t) THEN t.known[n] ELSE e.state]
      BY <2>2, <3>1
    <3> QED
      BY <1>1, <3>2, <3>3
  <2> DEFINE states == [n \in Events!Nodes(g) \union e.nodes |->
                            IF n \in Events!Nodes(g) THEN g.state[n] ELSE e.state]
  <2>4. Events!ApplyEvent(g, e) = {[g EXCEPT !.state = states]}
    BY <1>4 DEF Events!ApplyEvent
  <2>5. states = [n \in Known(t) \union e.nodes |-> IF n \in Known(t) THEN t.known[n] ELSE e.state]
    BY <1>1
  <2> HIDE DEF states
  <2>6. [g EXCEPT !.state = states] = [state |-> states, edges |-> t.edges]
    BY <1>1
  <2> QED
    BY <2>3, <2>4, <2>5, <2>6 DEF g, h
<1>5. CASE e.type = "addEdges"
  <2>1. \A n \in Node : u.known[n] = t.known[n]
    BY <1>0, <1>5 DEF Speaks
  <2>2. Known(u) = Known(t)
    BY <2>1 DEF Known
  <2>3. h = [state |-> [n \in Known(t) |-> t.known[n]], edges |-> t.edges \union e.edges]
    <3>1. [n \in Known(u) |-> u.known[n]] = [n \in Known(t) |-> t.known[n]]
      BY <2>1, <2>2 DEF Known
    <3> QED
      BY <1>0, <1>1, <1>5, <3>1
  <2>4. Events!Ends(e.edges) \subseteq Events!Nodes(g)
    BY <1>1, <1>5 DEF Events!Ends
  <2>5. Events!ApplyEvent(g, e) = {[g EXCEPT !.edges = @ \union e.edges]}
    BY <1>5, <2>4 DEF Events!ApplyEvent
  <2>6. [g EXCEPT !.edges = @ \union e.edges]
          = [state |-> [n \in Known(t) |-> t.known[n]], edges |-> t.edges \union e.edges]
    <3> DEFINE states == [n \in Known(t) |-> t.known[n]]
               edges == t.edges \union e.edges
    <3>1. g = [state |-> states, edges |-> t.edges]
      BY <1>1
    <3> HIDE DEF states, edges
    <3>2. [g EXCEPT !.edges = edges] = [state |-> states, edges |-> edges]
      BY <3>1
    <3>3. g.edges = t.edges
      BY <3>1
    <3> QED
      BY <3>2, <3>3 DEF states, edges
  <2> QED
    BY <2>3, <2>5, <2>6 DEF g, h
<1>6. CASE e.type = "updateNode"
  <2>1. Known(u) = Known(t)
    BY <1>0, <1>3, <1>6 DEF Known, Speaks, NodeState, Settled, Absent, NoPatch
  <2> DEFINE states == [n \in Events!Nodes(g) |-> IF n \in e.nodes THEN e.state ELSE g.state[n]]
  <2>2. Events!ApplyEvent(g, e) = {IF e.state = NoPatch THEN g ELSE [g EXCEPT !.state = states]}
    <3>1. e.nodes \subseteq Events!Nodes(g)
      BY <1>0, <1>1, <1>6
    <3>2. Events!NoPatch = NoPatch
      BY DEF Events!NoPatch, NoPatch
    <3> QED
      BY <1>6, <3>1, <3>2 DEF Events!ApplyEvent
  <2>3. u.edges = t.edges
    BY <1>0, <1>6
  <2>4. CASE e.state = NoPatch
    <3>1. \A n \in Node : u.known[n] = t.known[n]
      BY <1>0, <2>4 DEF Speaks
    <3>2. h = g
      BY <1>1, <2>1, <2>3, <3>1 DEF Known
    <3> QED
      BY <2>2, <2>4, <3>2 DEF g, h
  <2>5. CASE e.state # NoPatch
    <3>1. \A n \in Known(t) : u.known[n] = IF n \in e.nodes THEN e.state ELSE t.known[n]
      BY <1>0, <1>6, <2>5 DEF Speaks, Known
    <3>2. h = [state |-> [n \in Known(t) |-> IF n \in e.nodes THEN e.state ELSE t.known[n]],
               edges |-> t.edges]
      <4>1. [n \in Known(u) |-> u.known[n]] = [n \in Known(t) |-> IF n \in e.nodes THEN e.state ELSE t.known[n]]
        BY <2>1, <3>1
      <4> QED
        BY <1>1, <2>3, <4>1
    <3>3. states = [n \in Known(t) |-> IF n \in e.nodes THEN e.state ELSE t.known[n]]
      BY <1>1
    <3> HIDE DEF states
    <3>4. [g EXCEPT !.state = states] = [state |-> states, edges |-> t.edges]
      BY <1>1
    <3> QED
      BY <2>2, <2>5, <3>2, <3>3, <3>4 DEF g, h
  <2> QED
    BY <2>4, <2>5
<1>7. CASE e.type = "iteration"
  <2>1. \A n \in Node : u.known[n] = t.known[n]
    BY <1>0, <1>7 DEF Speaks
  <2>2. Known(u) = Known(t)
    BY <2>1 DEF Known
  <2>3. h = g
    BY <1>0, <1>1, <1>7, <2>1, <2>2 DEF Known
  <2>4. Events!ApplyEvent(g, e) = {g}
    BY <1>7 DEF Events!ApplyEvent
  <2> QED
    BY <2>3, <2>4 DEF g, h
<1> QED
  BY <1>2, <1>4, <1>5, <1>6, <1>7

\* The traces whose log rebuilds their view.
Rebuildable == {t \in TraceType : Consistent(t) /\ Rebuilt(t)}

\* One more entry, read as an object or as a dict.
LEMMA OneMoreRead ==
    ASSUME NEW s, NEW u, Extends(s, u), NEW e, u[Len(s) + 1] = e,
           DOMAIN s = 1..Len(s), DOMAIN u = 1..Len(u),
           NEW g
    PROVE  /\ Events!ApplyEvents(g, Events!Objects(u))
                = UNION {Events!ApplyRaw(x, Events!AsObject(e)) : x \in Events!ApplyEvents(g, Events!Objects(s))}
           /\ Events!ApplyEvents(g, Events!Dicts(u))
                = UNION {Events!ApplyRaw(x, Events!AsDict(e)) : x \in Events!ApplyEvents(g, Events!Dicts(s))}
<1> DEFINE len == Len(s)
<1>1. /\ len \in Nat /\ Len(u) = len + 1 /\ u[len + 1] = e
      /\ \A i \in 1..len : u[i] = s[i]
      /\ DOMAIN s = 1..len /\ DOMAIN u = 1..(len + 1)
  BY DEF Extends
<1> HIDE DEF len
<1>2. len + 1 \in 1..(len + 1) /\ \A i \in 1..len : i \in 1..(len + 1)
  BY <1>1
<1>3. ASSUME NEW S, NEW U, S = [i \in 1..len |-> S[i]], U = [i \in 1..(len + 1) |-> U[i]],
             \A i \in 1..len : U[i] = S[i]
      PROVE  Len(S) = len /\ Extends(S, U)
  <2>1. Len(S) = len /\ Len(U) = len + 1
    BY <1>1, <1>3
  <2> QED
    BY <1>1, <1>3, <2>1 DEF Extends
<1>4. /\ Len(Events!Objects(s)) = len /\ Extends(Events!Objects(s), Events!Objects(u))
      /\ Events!Objects(u)[len + 1] = Events!AsObject(e)
  <2> DEFINE S == [i \in 1..len |-> Events!AsObject(s[i])]
             U == [i \in 1..(len + 1) |-> Events!AsObject(u[i])]
  <2>1. Events!Objects(s) = S /\ Events!Objects(u) = U
    BY <1>1 DEF Events!Objects
  <2>2. /\ S = [i \in 1..len |-> S[i]] /\ U = [i \in 1..(len + 1) |-> U[i]]
        /\ \A i \in 1..len : U[i] = S[i]
        /\ U[len + 1] = Events!AsObject(e)
    BY <1>1, <1>2
  <2> HIDE DEF S, U
  <2>3. Len(S) = len /\ Extends(S, U)
    BY <1>3, <2>2
  <2> QED
    BY <2>1, <2>2, <2>3
<1>5. /\ Len(Events!Dicts(s)) = len /\ Extends(Events!Dicts(s), Events!Dicts(u))
      /\ Events!Dicts(u)[len + 1] = Events!AsDict(e)
  <2> DEFINE S == [i \in 1..len |-> Events!AsDict(s[i])]
             U == [i \in 1..(len + 1) |-> Events!AsDict(u[i])]
  <2>1. Events!Dicts(s) = S /\ Events!Dicts(u) = U
    BY <1>1 DEF Events!Dicts
  <2>2. /\ S = [i \in 1..len |-> S[i]] /\ U = [i \in 1..(len + 1) |-> U[i]]
        /\ \A i \in 1..len : U[i] = S[i]
        /\ U[len + 1] = Events!AsDict(e)
    BY <1>1, <1>2
  <2> HIDE DEF S, U
  <2>3. Len(S) = len /\ Extends(S, U)
    BY <1>3, <2>2
  <2> QED
    BY <2>1, <2>2, <2>3
<1>6. Events!ApplyEvents(g, Events!Objects(u))
        = UNION {Events!ApplyRaw(x, Events!Objects(u)[len + 1]) : x \in Events!ApplyEvents(g, Events!Objects(s))}
  BY <1>4, ApplyOneMore
<1>7. Events!ApplyEvents(g, Events!Dicts(u))
        = UNION {Events!ApplyRaw(x, Events!Dicts(u)[len + 1]) : x \in Events!ApplyEvents(g, Events!Dicts(s))}
  BY <1>5, ApplyOneMore
<1> QED
  BY <1>4, <1>5, <1>6, <1>7

LEMMA RawForms ==
    ASSUME NEW g, NEW e
    PROVE  /\ Events!ApplyRaw(g, Events!AsObject(e)) = Events!ApplyEvent(g, e)
           /\ Events!ToGraphEvent(e) = {e} =>
                 Events!ApplyRaw(g, Events!AsDict(e)) = Events!ApplyEvent(g, e)
           /\ Events!ToGraphEvent(e) = {} => Events!ApplyRaw(g, Events!AsDict(e)) = {}
<1>1. Events!Runtime(Events!AsObject(e)) = {e}
  BY DEF Events!Runtime, Events!AsObject
<1>2. Events!Runtime(Events!AsDict(e)) = Events!ToGraphEvent(e)
  BY DEF Events!Runtime, Events!AsDict
<1> QED
  BY <1>1, <1>2 DEF Events!ApplyRaw

\* The dict of an entry does the same as the entry, or is refused because it shows a node.
LEMMA DictFollows ==
    ASSUME NEW t, NEW u, NEW e, Consistent(t), Shows(t, u, e)
    PROVE  UNION {Events!ApplyRaw(x, Events!AsDict(e)) : x \in {View(t)} \intersect {Events!EmptyGraph}}
             = {View(u)} \intersect {Events!EmptyGraph}
<1>0. /\ t \in TraceType /\ u \in TraceType /\ e \in Entry
      /\ \A n \in Node : u.known[n] = IF Speaks(e, n) THEN e.state ELSE t.known[n]
      /\ e.type = "updateNode" => e.nodes \subseteq Known(t)
      /\ u.edges = t.edges \union (IF e.type = "addEdges" THEN e.edges ELSE {})
      /\ e.type = "addEdges" => \A x \in e.edges : x[1] \in Known(t) /\ x[2] \in Known(t)
      /\ e.type = "addNodes" => e.state = "pending"
      /\ e.type \notin {"setContext", "tokenAdd"}
      /\ Follows(t, u, e)
  BY DEF Follows, Consistent, Shows
<1>1. /\ e.type \in {"addNodes", "updateNode", "addEdges", "iteration"}
      /\ e.type = "addNodes" => e.nodes \subseteq Node
      /\ e.type = "updateNode" => e.nodes \subseteq Node /\ e.state \in NodeState \union {NoPatch}
  BY <1>0 DEF Entry, NodesEntry, PatchEntry, EdgesEntry, IterationEntry, NoteEntry
<1>2. \A r \in TraceType : View(r) = Events!EmptyGraph <=> Known(r) = {} /\ r.edges = {}
  <2> TAKE r \in TraceType
  <2>1. View(r).edges = r.edges /\ View(r).state = [n \in Known(r) |-> r.known[n]]
        /\ DOMAIN View(r).state = Known(r)
    BY DEF View
  <2>2. Events!EmptyGraph.edges = {} /\ DOMAIN Events!EmptyGraph.state = {}
    BY DEF Events!EmptyGraph
  <2>3. View(r) = Events!EmptyGraph => Known(r) = {} /\ r.edges = {}
    BY <2>1, <2>2
  <2>4. Known(r) = {} => [n \in Known(r) |-> r.known[n]] = <<>>
    OBVIOUS
  <2> QED
    BY <2>3, <2>4 DEF View, Events!EmptyGraph
<1>3. Known(t) \subseteq Known(u) /\ t.edges \subseteq u.edges
  BY <1>0, <1>1 DEF Known, Speaks, NodeState, Settled, Absent, NoPatch
<1>4. CASE View(t) # Events!EmptyGraph
  <2>1. View(u) # Events!EmptyGraph
    BY <1>0, <1>2, <1>3, <1>4
  <2> QED
    BY <1>4, <2>1
<1>5. CASE View(t) = Events!EmptyGraph /\ e.type = "addNodes" /\ e.nodes # {}
  <2>1. Known(u) # {}
    <3>1. PICK n \in e.nodes : n \in Node
      BY <1>1, <1>5
    <3>2. u.known[n] = "pending"
      BY <1>0, <1>5, <3>1 DEF Speaks, NoPatch
    <3> QED
      BY <3>1, <3>2 DEF Known, Absent
  <2>2. View(u) # Events!EmptyGraph
    BY <1>0, <1>2, <2>1
  <2>3. Events!ToGraphEvent(e) = {}
    BY <1>5 DEF Events!ToGraphEvent
  <2>4. Events!ApplyRaw(View(t), Events!AsDict(e)) = {}
    BY <2>3, RawForms
  <2> QED
    BY <1>5, <2>2, <2>4
<1>6. CASE View(t) = Events!EmptyGraph /\ ~(e.type = "addNodes" /\ e.nodes # {})
  <2>1. Known(t) = {} /\ t.edges = {}
    BY <1>0, <1>2, <1>6
  <2>2. Known(u) = {}
    BY <1>0, <1>1, <1>6, <2>1 DEF Known, Speaks, Absent
  <2>3. u.edges = {}
    <3>1. e.type = "addEdges" => e.edges = {}
      BY <1>0, <2>1
    <3> QED
      BY <1>0, <2>1, <3>1
  <2>4. View(u) = Events!EmptyGraph
    BY <1>0, <1>2, <2>2, <2>3
  <2>5. Events!ToGraphEvent(e) = {e}
    BY <1>1, <1>6 DEF Events!ToGraphEvent
  <2>6. Events!ApplyRaw(View(t), Events!AsDict(e)) = Events!ApplyEvent(View(t), e)
    BY <2>5, RawForms
  <2>7. Events!ApplyEvent(View(t), e) = {View(u)}
    BY <1>0, ReaderFollows
  <2> QED
    BY <1>6, <2>4, <2>6, <2>7
<1> QED
  BY <1>4, <1>5, <1>6

LEMMA ShowsKeepsRebuilt ==
    ASSUME NEW t \in Rebuildable, NEW u, NEW e, Shows(t, u, e)
    PROVE  u \in Rebuildable
<1>1. Consistent(t) /\ Rebuilt(t) /\ Follows(t, u, e)
  BY DEF Rebuildable, Shows
<1> DEFINE len == Len(t.events)
<1>2. /\ len \in Nat /\ Len(u.events) = len + 1
      /\ DOMAIN t.events = 1..len /\ DOMAIN u.events = 1..Len(u.events)
      /\ \A i \in 1..len : u.events[i] = t.events[i]
      /\ u.events[len + 1] = e
      /\ u \in TraceType /\ Consistent(u)
  <2>1. t.events \in Seq(Entry) /\ e \in Entry /\ u.events = Append(t.events, e)
    BY <1>1 DEF Consistent, TraceType, Follows
  <2>2. Consistent(u) /\ u \in TraceType
    BY <1>1, OneMoreEntry
  <2> QED
    BY <2>1, <2>2
<1>3. Extends(t.events, u.events)
  BY <1>2 DEF Extends
<1>4. Events!ApplyEvents(Events!EmptyGraph, Events!Objects(u.events)) = {View(u)}
  <2>1. Events!ApplyEvent(View(t), e) = {View(u)}
    BY <1>1, ReaderFollows DEF Shows
  <2>2. Events!ApplyRaw(View(t), Events!AsObject(e)) = {View(u)}
    BY <2>1, RawForms
  <2>3. Events!ApplyEvents(Events!EmptyGraph, Events!Objects(t.events)) = {View(t)}
    BY <1>1 DEF Rebuilt
  <2>4. Events!ApplyEvents(Events!EmptyGraph, Events!Objects(u.events))
          = UNION {Events!ApplyRaw(x, Events!AsObject(e)) : x \in {View(t)}}
    BY <1>2, <1>3, <2>3, OneMoreRead
  <2> QED
    BY <2>2, <2>4
<1>5. Events!ApplyEvents(Events!EmptyGraph, Events!Dicts(u.events)) = {View(u)} \intersect {Events!EmptyGraph}
  <2>1. Events!ApplyEvents(Events!EmptyGraph, Events!Dicts(t.events)) = {View(t)} \intersect {Events!EmptyGraph}
    BY <1>1 DEF Rebuilt
  <2>2. Events!ApplyEvents(Events!EmptyGraph, Events!Dicts(u.events))
          = UNION {Events!ApplyRaw(x, Events!AsDict(e)) : x \in {View(t)} \intersect {Events!EmptyGraph}}
    BY <1>2, <1>3, <2>1, OneMoreRead
  <2> QED
    BY <1>1, <2>2, DictFollows
<1>6. \A i \in 1..Len(u.events) : Events!IsGraphEvent(u.events[i])
  <2>1. Events!IsGraphEvent(e)
    <3>1. /\ e \in Entry
          /\ e.type = "addNodes" => e.state = "pending"
          /\ e.type \notin {"setContext", "tokenAdd"}
      BY <1>1 DEF Shows, Follows
    <3>2. e.type \in {"addNodes", "updateNode", "addEdges", "iteration"}
      BY <3>1 DEF Entry, NodesEntry, PatchEntry, EdgesEntry, IterationEntry, NoteEntry
    <3> QED
      BY <3>1, <3>2 DEF Events!IsGraphEvent
  <2>2. \A i \in 1..len : Events!IsGraphEvent(t.events[i])
    BY <1>1 DEF Rebuilt
  <2> HIDE DEF len
  <2>3. \A i \in 1..(len + 1) : i = len + 1 \/ i \in 1..len
    BY <1>2
  <2> QED
    BY <1>2, <2>1, <2>2, <2>3
<1> QED
  BY <1>2, <1>4, <1>5, <1>6 DEF Rebuildable, Rebuilt

LEMMA RebuildableClosed == PlainClosed(Rebuildable)
<1>1. \A t \in Rebuildable : Consistent(t)
  BY DEF Rebuildable
<1>2. \A t \in Rebuildable, u \in TraceType, e \in Entry : Plain(t, u, e) => u \in Rebuildable
  BY ShowsKeepsRebuilt DEF Plain
<1>3. ASSUME NEW t \in Rebuildable, NEW S \in SUBSET Node, \A n \in S : t.known[n] = "pending"
      PROVE  [t EXCEPT !.visible = S] \in Rebuildable
  <2> DEFINE u == [t EXCEPT !.visible = S]
  <2>1. /\ Consistent(u) /\ u \in TraceType
        /\ u.events = t.events /\ u.known = t.known /\ u.edges = t.edges
    BY <1>1, <1>3, StickyConsistent
  <2> HIDE DEF u
  <2>2. View(u) = View(t)
    BY <2>1 DEF View, Known
  <2>3. u \in Rebuildable
    BY <2>1, <2>2 DEF Rebuildable, Rebuilt
  <2> QED
    BY <2>3 DEF u
<1> QED
  BY <1>1, <1>2, <1>3 DEF PlainClosed

LEMMA NoTraceRebuildable == NoTrace \in Rebuildable
<1>1. NoTrace.events = <<>> /\ Len(<<>>) = 0
  BY DEF NoTrace
<1>2. Events!Objects(<<>>) = <<>> /\ Events!Dicts(<<>>) = <<>>
  BY DEF Events!Objects, Events!Dicts
<1>3. Rebuilt(NoTrace)
  BY <1>1, <1>2, ApplyNone, ViewOfNoTrace DEF Rebuilt
<1> QED
  BY <1>3, NoTraceType, NoTraceConsistent DEF Rebuildable

LogRebuilds == trace \in Rebuildable

LEMMA RebuildsInit == LookaheadInit => LogRebuilds
  BY NoTraceRebuildable DEF LookaheadInit, Init, LogRebuilds

LEMMA RebuildsNext == Recorded /\ LogRebuilds /\ [LookaheadNext]_lookaheadVars => LogRebuilds'
<1> SUFFICES ASSUME Recorded, LogRebuilds, [LookaheadNext]_lookaheadVars PROVE trace' \in Rebuildable
  BY DEF LogRebuilds, Rebuildable, Rebuilt, View, Consistent, KnownIsAdded, EdgesAreAdded, LastWord, Applicable, AddedBefore, Known
<1>0. /\ Typed /\ LookaheadTypeOK /\ TypeOK /\ iteration \in Nat /\ trace \in Rebuildable
      /\ PlainClosed(Rebuildable)
  BY RebuildableClosed DEF Recorded, Typed, LookaheadTypeOK, TypeOK, LogRebuilds
<1>1. CASE Rank
  <2>1. PICK d \in TraversalDecision : ObserveFrontierDecision(d)
    BY <1>0, <1>1, RankReports
  <2>2. trace' = FrontierTrace(d) /\ d \in FrontierDecision
    BY <2>1 DEF ObserveFrontierDecision, TraversalDecision
  <2> QED
    BY <1>0, <2>2, FrontierTraceStays
<1>2. CASE ExpandSelected
  BY <1>0, <1>2, ExpandEntry, ShowsKeepsRebuilt
<1>3. CASE TraceElsewhere
  BY <1>0, <1>3, AnchorTraceStays, NoTraceRebuildable DEF TraceElsewhere
<1> QED
  BY <1>0, <1>1, <1>2, <1>3, StepCases

LEMMA AlwaysRebuilds == LookaheadSpec => []LogRebuilds
  BY AlwaysRecorded, RebuildsInit, RebuildsNext, PTL DEF LookaheadSpec

----
(* Each step of a runtime is one of the abstract trace, or none.           *)

\* The trace shows no less after a step, and what changes is settled.
ShowsMore ==
    /\ Known(trace) \subseteq Known(trace')
    /\ trace.edges \subseteq trace'.edges
    /\ \A n \in Known(trace) : trace'.known[n] = trace.known[n] \/ trace'.known[n] \in Settled

LEMMA ReplayTerms ==
    ASSUME Known(trace) \subseteq Known(trace')
    PROVE  /\ Replay!New = Known(trace') \ Known(trace)
           /\ Replay!Changed = {n \in Known(trace) : trace'.known[n] # trace.known[n]}
<1>1. [n \in Known(trace) |-> trace.known[n]]' = [n \in Known(trace') |-> trace'.known[n]]
  BY DEF Known
<1>2. Replay!New = Known(trace') \ Known(trace)
  BY <1>1 DEF Replay!New, Replay!Nodes
<1>3. Replay!Changed = {n \in Known(trace) : [m \in Known(trace') |-> trace'.known[m]][n] # trace.known[n]}
  BY <1>1 DEF Replay!Changed, Replay!Nodes
<1> QED
  BY <1>2, <1>3

\* The ends of the edges shown are shown.
LEMMA EndsAreShown ==
    ASSUME NEW t \in Placed
    PROVE  \A x \in t.edges : x[1] \in Known(t) /\ x[2] \in Known(t)
<1>1. Consistent(t) /\ EdgesPlaced(t) /\ t \in TraceType
  BY DEF Placed
<1>2. DOMAIN t.events = 1..Len(t.events) /\ Len(t.events) \in Nat
  BY <1>1 DEF TraceType
<1>3. ASSUME NEW x \in t.edges PROVE x[1] \in Known(t) /\ x[2] \in Known(t)
  <2>1. x \in Edge /\ x[1] \in Node /\ x[2] \in Node
    BY <1>1 DEF TraceType, Edge
  <2>2. PICK j \in DOMAIN t.events : t.events[j].type = "addEdges" /\ x \in t.events[j].edges
    BY <1>1, <2>1 DEF Consistent, EdgesAreAdded
  <2>3. AddedBefore(t, j, x[1]) /\ AddedBefore(t, j, x[2])
    BY <1>1, <2>2 DEF EdgesPlaced
  <2>4. \A n : AddedBefore(t, j, n) => \E i \in DOMAIN t.events : Adds(t.events[i], n)
    BY <1>2 DEF AddedBefore
  <2> QED
    BY <1>1, <2>1, <2>3, <2>4 DEF Consistent, KnownIsAdded
<1> QED
  BY <1>3

LEMMA ReplayGrows ==
    ASSUME Recorded, Recorded', ShowsMore
    PROVE  Replay!Grows
<1>1. [n \in Known(trace) |-> trace.known[n]]' = [n \in Known(trace') |-> trace'.known[n]]
  BY DEF Known
<1>2. Known(trace) \subseteq Known(trace') /\ trace.edges \subseteq trace'.edges
  BY DEF ShowsMore
<1>3. trace' \in Placed
  BY DEF Recorded, Placed, Consistent, KnownIsAdded, EdgesAreAdded, LastWord, Applicable, AddedBefore,
         EdgesPlaced, AddedPending, Known
<1>4. \A x \in trace'.edges : x[1] \in Known(trace') /\ x[2] \in Known(trace')
  BY <1>3, EndsAreShown
<1>5. [n \in Known(trace') |-> trace'.known[n]] \in [Known(trace') -> Settled \union {"pending"}]
  BY <1>3 DEF Placed, TraceType, Known, NodeState, Settled, Absent
<1>6. Replay!Changed = {n \in Known(trace) : trace'.known[n] # trace.known[n]}
  BY <1>2, ReplayTerms
<1>7. \A n \in Replay!Changed : n \in Known(trace') /\ trace'.known[n] \in Settled
  BY <1>2, <1>6 DEF ShowsMore
<1>8. Replay!Ends(trace'.edges) \subseteq Known(trace')
  BY <1>4 DEF Replay!Ends
<1>9. Replay!Settled = Settled
  BY DEF Replay!Settled, Settled
<1> QED
  BY <1>1, <1>2, <1>5, <1>7, <1>8, <1>9 DEF Replay!Grows, Replay!Nodes, Replay!Pending

\* The state of a node in the graph the trace shows after a step.
LEMMA ReplayStates ==
    ASSUME NEW n \in Known(trace')
    PROVE  [m \in Known(trace) |-> trace.known[m]]'[n] = trace'.known[n]
<1>1. [m \in Known(trace) |-> trace.known[m]]' = [m \in Known(trace') |-> trace'.known[m]]
  BY DEF Known
<1> QED
  BY <1>1

LEMMA FewNew ==
    ASSUME NEW S, IsFiniteSet(S), Cardinality(S) <= MaxVisiblePending, NEW T \in SUBSET S
    PROVE  Cardinality(T) <= MaxVisiblePending
<1>1. IsFiniteSet(T) /\ Cardinality(T) <= Cardinality(S)
  BY FS_Subset
<1>2. Cardinality(T) \in Nat /\ Cardinality(S) \in Nat /\ MaxVisiblePending \in Nat
  BY <1>1, FS_CardinalityType
<1> QED
  BY <1>1, <1>2

LEMMA ReplayCardinality == \A S : Replay!Cardinality(S) = Cardinality(S)
  BY DEF Replay!Cardinality, Cardinality

\* A lookahead step.
LEMMA RankIsStep ==
    ASSUME Recorded, Recorded', FewSticky, Rank
    PROVE  Replay!Step
<1>0. TypeOK /\ LookaheadTypeOK
  BY DEF Recorded, Typed, LookaheadTypeOK
<1>1. PICK d \in TraversalDecision : ObserveFrontierDecision(d)
  BY <1>0, RankReports
<1> DEFINE V == VisibleFrontier(d)
<1>2. /\ V \in SUBSET Node /\ IsFiniteSet(V) /\ Cardinality(V) <= MaxVisiblePending
  <2>1. IsFiniteSet(trace.visible) /\ Cardinality(trace.visible) < MaxVisiblePending
    BY <1>0, VisibleFinite DEF FewSticky, Sticky, Rank
  <2>2. V \in SUBSET Node
    BY VisibleFrontierAreCandidates DEF TraversalDecision, FrontierDecision
  <2> QED
    BY <2>1, <2>2, VisibleFrontierBound
<1>3. /\ trace' = FrontierTrace(d) /\ reply'.type = "none"
  BY <1>1 DEF ObserveFrontierDecision
<1>4. /\ \A n \in Node : trace'.known[n] = IF n \in V \ Known(trace) THEN "pending" ELSE trace.known[n]
      /\ trace'.edges = trace.edges \union {e \in Edge : /\ e[2] \in V /\ e[1] = d.source[e[2]]
                                                         /\ e[1] \in Known(trace) \union V}
  BY <1>0, <1>3, FrontierTraceEffect
<1> HIDE DEF V
<1>5. /\ Known(trace') = Known(trace) \union V
      /\ \A n \in Known(trace) : trace'.known[n] = trace.known[n]
      /\ \A n \in V \ Known(trace) : trace'.known[n] = "pending"
  BY <1>2, <1>4 DEF Known, Absent
<1>6. Replay!Grows
  BY <1>4, <1>5, ReplayGrows DEF ShowsMore
<1>7. Replay!New = V \ Known(trace) /\ Replay!Changed = {}
  BY <1>5, ReplayTerms
<1>8. Cardinality(Replay!New) <= MaxVisiblePending
  <2>1. Replay!New \in SUBSET V
    BY <1>7
  <2> QED
    BY <1>2, <2>1, FewNew
<1>9. \A n \in Replay!New : [m \in Known(trace) |-> trace.known[m]]'[n] = Replay!Pending
  BY <1>5, <1>7, ReplayStates DEF Replay!Pending
<1>10. \A e, f \in trace'.edges \ trace.edges : e[2] = f[2] => e = f
  <2>1. \A e \in trace'.edges \ trace.edges : e \in Edge /\ e[1] = d.source[e[2]]
    BY <1>4
  <2> QED
    BY <2>1 DEF Edge
<1> QED
  BY <1>3, <1>6, <1>7, <1>8, <1>9, <1>10, ReplayCardinality DEF Replay!Step, Replay!NoPayload

\* An expansion.
LEMMA ExpandSelectedIsExpand ==
    ASSUME Recorded, Recorded', ExpandSelected
    PROVE  Replay!Expand
<1> DEFINE n == call.selected
           created == {Child[call.selected]} \ ({NoNode} \union Nodes(call.graph))
<1>1. /\ n \in Node /\ n \in Known(trace) /\ created \in SUBSET Node /\ n \notin created
      /\ \A m \in Node : trace'.known[m] = IF m = n THEN "resolved"
                                           ELSE IF m \in created \ Known(trace) THEN "pending"
                                           ELSE trace.known[m]
      /\ trace'.edges = trace.edges \union ({n} \X created)
  BY ExpandEffect
<1>2. reply'.type = "none"
  BY DEF ExpandSelected, ObserveExpansion
<1> HIDE DEF n, created
<1>3. /\ Known(trace') = Known(trace) \union created
      /\ \A m \in Known(trace) : m # n => trace'.known[m] = trace.known[m]
      /\ \A m \in created \ Known(trace) : trace'.known[m] = "pending"
      /\ trace'.known[n] = "resolved" /\ n \in Known(trace')
  BY <1>1 DEF Known, Absent
<1>4. Replay!Grows
  BY <1>1, <1>3, ReplayGrows DEF ShowsMore, Settled
<1>5. Replay!New = created \ Known(trace) /\ Replay!Changed \subseteq {n}
  BY <1>3, ReplayTerms
<1>6. [m \in Known(trace) |-> trace.known[m]]'[n] = "resolved"
  BY <1>3, ReplayStates
<1>7. \A m \in Replay!New : /\ [o \in Known(trace) |-> trace.known[o]]'[m] = Replay!Pending
                            /\ <<n, m>> \in trace'.edges
  BY <1>1, <1>3, <1>5, ReplayStates DEF Replay!Pending
<1>8. \A e \in trace'.edges \ trace.edges : e[1] = n
  BY <1>1
<1> QED
  BY <1>1, <1>2, <1>4, <1>5, <1>6, <1>7, <1>8 DEF Replay!Expand, Replay!NoPayload, Replay!Nodes

\* A resolve.
LEMMA ResolveIsDecide ==
    ASSUME Recorded, Recorded', NEW d \in AnchorDecision, ObserveAnchorDecision(d)
    PROVE  Replay!Decide
<1>0. TypeOK
  BY DEF Recorded, Typed, LookaheadTypeOK
<1>1. trace' = AnchorTrace(d) /\ reply'.type = "none"
  BY DEF ObserveAnchorDecision
<1> DEFINE V == VisibleAnchors(d)
           s == d.selected
<1>2. V \in SUBSET Node /\ IsFiniteSet(V) /\ Cardinality(V) <= MaxVisiblePending
      /\ d.status \in {"resolved", "ambiguous", "not_found"}
  BY VisibleAnchorsBound, VisibleAnchorsAreCandidates DEF AnchorDecision
<1>3. /\ d.status = "not_found" => trace'.known = trace.known
      /\ d.status = "ambiguous" =>
            \A n \in Node : trace'.known[n] = IF n \in V \ Known(trace) THEN "pending" ELSE trace.known[n]
      /\ d.status = "resolved" =>
            \A n \in Node : trace'.known[n] =
               IF n = s /\ n \in Known(trace) \union V THEN "anchor"
               ELSE IF n \in V \ {s} THEN "pruned" ELSE trace.known[n]
      /\ trace'.edges = trace.edges
  BY <1>0, <1>1, AnchorTraceEffect
<1> HIDE DEF V, s
<1>4. /\ ShowsMore /\ Known(trace') \subseteq Known(trace) \union V
  BY <1>2, <1>3 DEF ShowsMore, Known, Absent, Settled
<1>5. Replay!Grows /\ Known(trace) \subseteq Known(trace')
  BY <1>4, ReplayGrows DEF ShowsMore
<1>6. /\ Replay!New = Known(trace') \ Known(trace)
      /\ Replay!Changed = {n \in Known(trace) : trace'.known[n] # trace.known[n]}
  BY <1>5, ReplayTerms
<1>7. Cardinality(Replay!New) <= MaxVisiblePending
  <2>1. Replay!New \in SUBSET V
    BY <1>4, <1>6
  <2> QED
    BY <1>2, <2>1, FewNew
<1>8. \A n \in Replay!New \union Replay!Changed :
         [m \in Known(trace) |-> trace.known[m]]'[n] = trace'.known[n]
  <2>1. Replay!New \union Replay!Changed \subseteq Known(trace')
    BY <1>5, <1>6
  <2> QED
    BY <2>1, ReplayStates
<1> DEFINE anchors == {n \in Replay!New \union Replay!Changed :
                          [m \in Known(trace) |-> trace.known[m]]'[n] = "anchor"}
<1>9. CASE d.status # "resolved"
  <2>1. Replay!Changed = {} /\ \A n \in Replay!New : trace'.known[n] = "pending"
    BY <1>2, <1>3, <1>6, <1>9 DEF Known
  <2>2. anchors = {}
    BY <1>8, <2>1
  <2>3. Cardinality(anchors) <= 1
    <3> HIDE DEF anchors
    <3>1. Cardinality(anchors) = 0
      BY <2>2, FS_EmptySet
    <3> QED
      BY <3>1
  <2>4. \A n \in Replay!New : [m \in Known(trace) |-> trace.known[m]]'[n] = Replay!Pending
    BY <1>8, <2>1 DEF Replay!Pending
  <2> QED
    BY <1>1, <1>3, <1>5, <1>7, <2>1, <2>3, <2>4, ReplayCardinality DEF Replay!Decide, Replay!NoPayload, anchors
<1>10. CASE d.status = "resolved"
  <2>1. \A n \in Replay!New \union Replay!Changed :
           n \in Node /\ (trace'.known[n] = "pruned" \/ (n = s /\ trace'.known[n] = "anchor"))
    BY <1>3, <1>6, <1>10 DEF Known
  <2>2. anchors \in SUBSET {s}
    BY <1>8, <2>1
  <2>3. Cardinality(anchors) <= 1
    <3> HIDE DEF anchors
    <3>1. anchors = {} \/ anchors = {s}
      BY <2>2
    <3>2. Cardinality(anchors) = 0 \/ Cardinality(anchors) = 1
      BY <3>1, FS_EmptySet, FS_Singleton
    <3> QED
      BY <3>2
  <2>4. \A n \in (Replay!New \union Replay!Changed) \ anchors :
           [m \in Known(trace) |-> trace.known[m]]'[n] = "pruned"
    BY <1>8, <2>1
  <2> QED
    BY <1>1, <1>3, <1>5, <1>7, <2>3, <2>4, ReplayCardinality DEF Replay!Decide, Replay!NoPayload
<1> QED
  BY <1>9, <1>10

LEMMA InitIsInit == LookaheadInit => Replay!Init
<1> SUFFICES ASSUME LookaheadInit PROVE Replay!Init
  OBVIOUS
<1>1. trace = NoTrace /\ reply.type = "none"
  BY DEF LookaheadInit, Init
<1>2. View(trace) = Replay!EmptyGraph
  BY <1>1, ViewOfNoTrace DEF Replay!EmptyGraph, Events!EmptyGraph
<1> QED
  BY <1>1, <1>2 DEF Replay!Init, Replay!NoPayload, View

\* A call that leaves the trace alone.
LEMMA QuietStep ==
    ASSUME trace' = trace, reply'.type # "payload"
    PROVE  Replay!Quiet
<1>1. View(trace)' = View(trace)
  BY DEF View, Known
<1> QED
  BY <1>1 DEF Replay!Quiet, Replay!NoPayload, View

\* A collect.
LEMMA CollectIsDeliver ==
    ASSUME LogRebuilds, NEW clear \in BOOLEAN, Collect(clear)
    PROVE  Replay!Deliver
<1>1. /\ reply'.type = "payload" /\ reply'.events = trace.events
      /\ trace' = trace \/ trace' = NoTrace
  BY DEF Collect, ClearedTrace
<1>2. /\ Events!Parsed(reply'.events) = {View(trace)}
      /\ Events!Unparsed(reply'.events) = {View(trace)} \intersect {Replay!EmptyGraph}
  <2>1. Rebuilt(trace) /\ DOMAIN trace.events = 1..Len(trace.events)
    BY DEF LogRebuilds, Rebuildable, TraceType
  <2> QED
    BY <1>1, <2>1 DEF Rebuilt, Events!Parsed, Events!Unparsed, Replay!EmptyGraph, Events!EmptyGraph
<1>3. View(trace') \in {View(trace), Replay!EmptyGraph}
  BY <1>1, ViewOfNoTrace DEF Replay!EmptyGraph, Events!EmptyGraph
<1>4. View(trace)' = View(trace')
  BY DEF View, Known
<1> QED
  BY <1>1, <1>2, <1>3, <1>4 DEF Replay!Deliver, Replay!Payload, View

LEMMA ResetIsDrop ==
    ASSUME Reset
    PROVE  Replay!Drop
<1>1. trace' = NoTrace /\ reply'.type = "reset"
  BY DEF Reset, ClearedTrace
<1>2. View(trace)' = Replay!EmptyGraph
  <2>1. View(trace') = Replay!EmptyGraph
    BY <1>1, ViewOfNoTrace DEF Replay!EmptyGraph, Events!EmptyGraph
  <2> QED
    BY <2>1 DEF View, Known
<1> QED
  BY <1>1, <1>2 DEF Replay!Drop, Replay!NoPayload, View

LEMMA NextIsNext ==
    Recorded /\ Recorded' /\ FewSticky /\ LogRebuilds /\ [LookaheadNext]_lookaheadVars
        => [Replay!Next]_Replay!vars
<1> SUFFICES ASSUME Recorded, Recorded', FewSticky, LogRebuilds, [LookaheadNext]_lookaheadVars
             PROVE  Replay!Next \/ UNCHANGED <<trace, reply>>
  <2>1. UNCHANGED <<trace, reply>> => UNCHANGED Replay!vars
    BY DEF Replay!vars, Known
  <2> QED
    BY <2>1
<1>0. Typed /\ LookaheadTypeOK
  BY DEF Recorded, Typed
<1>1. ASSUME NEW n \in Node, NEW depth \in Depths, Expand(n, depth) PROVE Replay!Next
  <2>1. trace' = trace /\ reply'.type = "none"
    BY <1>1 DEF Expand, NoteExpandCall
  <2> QED
    BY <2>1, QuietStep DEF Replay!Next
<1>2. CASE Rank
  BY <1>2, RankIsStep DEF Replay!Next
<1>3. CASE ExpandSelected
  BY <1>3, ExpandSelectedIsExpand DEF Replay!Next
<1>4. CASE Return \/ PolicyRaises
  BY <1>4 DEF Return, PolicyRaises, vars
<1>5. ASSUME NEW d \in AnchorDecisions, Resolve(d) PROVE Replay!Next
  <2>1. d \in AnchorDecision /\ ObserveAnchorDecision(d)
    BY <1>5 DEF Resolve
  <2> QED
    BY <2>1, ResolveIsDecide DEF Replay!Next
<1>6. ASSUME NEW clear \in BOOLEAN, CollectTrace(clear) PROVE Replay!Next
  BY <1>6, CollectIsDeliver DEF CollectTrace, Replay!Next
<1>7. ASSUME NEW g \in SessionGraphs, Reload(g) \/ ResetRuntime(g)
      PROVE  Replay!Next \/ UNCHANGED <<trace, reply>>
  BY <1>7, ResetIsDrop DEF Reload, ResetRuntime, vars, Replay!Next
<1>8. CASE UNCHANGED lookaheadVars
  BY <1>8 DEF lookaheadVars, vars
<1> QED
  BY <1>1, <1>2, <1>3, <1>4, <1>5, <1>6, <1>7, <1>8 DEF LookaheadNext, CallSteps

\* Runtime, traversal and recorder together implement the trace that notes/graph_replay.md
\* promises, for any node ids, graphs, depths, limit and policy: resolve, lookahead step,
\* expansion, collect and reset change what is shown only as their kind of call may; every
\* entry of a collected log is a GraphEvent of graph_models.py, and apply_events on these
\* objects gives exactly the graph the recorder shows, refusing none.  On the dicts of the
\* log themselves it refuses, in to_graph_event, unless the graph is still empty.
THEOREM ReplayImplemented == LookaheadSpec => ImplementsReplay
<1>1. LookaheadSpec => [](Recorded /\ FewSticky /\ LogRebuilds)
  BY AlwaysRecorded, AlwaysFewSticky, AlwaysRebuilds, PTL
<1> QED
  BY <1>1, InitIsInit, NextIsNext, PTL DEF LookaheadSpec, ImplementsReplay, Replay!Spec
====
