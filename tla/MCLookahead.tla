---- MODULE MCLookahead ----
(* Three root ids with up to three generations of children.  One graph holds
   the roots on a path, one a root whose child id already exists, one nothing
   that is pending.                                                         *)
EXTENDS Lookahead

CONSTANTS a, b, c, Generations

MCNode == {a, b, c} \X (0..Generations)

MCChild == [n \in MCNode |-> IF n[2] < Generations THEN <<n[1], n[2] + 1>> ELSE NoNode]

Root(n) == CASE n[1] = a -> 0 [] n[1] = b -> 1 [] n[1] = c -> 2
MCIdOrder == [n \in MCNode |-> Root(n) * (Generations + 1) + n[2]]

PendingGraph(S, edges) ==
    [state |-> [n \in MCNode |-> IF n \in S THEN "pending" ELSE Absent], edges |-> edges]

A == <<a, 0>>
B == <<b, 0>>
C == <<c, 0>>
Path == PendingGraph({A, B, C}, {<<A, B>>, <<B, C>>})
WithChild == PendingGraph({A, B, <<a, 1>>}, {<<B, A>>, <<B, <<a, 1>>>>})
\* Nothing to expand: a graph set by a caller, of one anchor.
OneAnchor == [state |-> [n \in MCNode |-> IF n = C THEN "anchor" ELSE Absent], edges |-> {}]
MCSessionGraphs == {Path, WithChild, OneAnchor}

Anchors(status, candidates, selected) ==
    [status |-> status, candidates |-> candidates, rank |-> MCIdOrder, selected |-> selected]
MCAnchorDecisions ==
    {Anchors("ambiguous", {A, C}, NoNode), Anchors("resolved", {A, B}, B)}
====
