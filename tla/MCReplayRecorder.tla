---- MODULE MCReplayRecorder ----
(* Three nodes, of which two may be visible.  The decisions are the cases a
   caller can be in: a winner among the visible candidates, beyond them and not
   a candidate at all, a selected node that was hidden, a pruned one beyond the
   limit, and candidates that come back after they were settled.            *)
EXTENDS ReplayRecorder

CONSTANTS a, b, c

MCNode == {a, b, c}

MCRank == [n \in MCNode |-> CASE n = a -> 1 [] n = b -> 2 [] n = c -> 3]

Anchors(status, candidates, selected) ==
    [status |-> status, candidates |-> candidates, rank |-> MCRank, selected |-> selected]

MCAnchorDecisions ==
    {Anchors("not_found", {}, NoNode), Anchors("ambiguous", MCNode, NoNode),
     Anchors("resolved", {a, b}, b), Anchors("resolved", MCNode, c), Anchors("resolved", {b, c}, a)}

Frontier(candidates, requested, selected, pruned) ==
    [candidates |-> candidates, rank |-> MCRank,
     source |-> [n \in MCNode |-> IF n = a THEN NoNode ELSE a],
     requested |-> requested, selected |-> selected, pruned |-> pruned,
     frontierCount |-> Cardinality(candidates), hiddenCount |-> 0]

MCFrontierDecisions ==
    {Frontier(MCNode, {}, a, {}), Frontier(MCNode, {c}, a, {}), Frontier(MCNode, {}, c, {b}),
     Frontier({b, c}, {c}, NoNode, {}), Frontier(MCNode, {}, b, {a, c})}

MCExpansions ==
    {[source |-> a, state |-> "pending", created |-> {b}, edges |-> {<<a, b>>}],
     [source |-> c, state |-> "anchor", created |-> {}, edges |-> {}]}
====
