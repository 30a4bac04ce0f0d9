---- MODULE GraphReplay ----
(***************************************************************************)
(* What notes/graph_replay.md promises of a trace, without a log and       *)
(* without the recorder's bookkeeping: a view of the graph that each       *)
(* resolve, lookahead step and expansion changes a little, and payloads    *)
(* from which exactly that view is rebuilt by a reader who has the entries *)
(* parsed first.                                                           *)
(***************************************************************************)
EXTENDS Naturals, FiniteSets, GraphEvents

CONSTANT Limit  \* maxVisiblePending

VARIABLES
    view,     \* the graph the trace shows
    payload   \* what the log last collected rebuilds, until another call is made

vars == <<view, payload>>

NoPayload == [type |-> "none"]

\* The graphs a payload is read as, its entries parsed or not; no graph where the reader
\* must refuse an entry.
Payload(parsed, unparsed) == [type |-> "payload", parsed |-> parsed, unparsed |-> unparsed]

Pending == "pending"
Settled == {"resolved", "anchor", "pruned"}

Init ==
    /\ view = EmptyGraph
    /\ payload = NoPayload

New == Nodes(view') \ Nodes(view)

Changed == {n \in Nodes(view) : view'.state[n] # view.state[n]}

\* Nothing shown is taken back: nodes and edges stay, edges have both ends shown, and
\* what is settled does not become pending.
Grows ==
    /\ view'.state \in [Nodes(view') -> Settled \union {Pending}]
    /\ Nodes(view) \subseteq Nodes(view')
    /\ view.edges \subseteq view'.edges
    /\ Ends(view'.edges) \subseteq Nodes(view')
    /\ \A n \in Changed : view'.state[n] \in Settled

\* A resolve shows candidates within the limit; when it is resolved one of them is the
\* anchor and the others are pruned.
Decide ==
    /\ Grows
    /\ Cardinality(New) <= Limit
    /\ view'.edges = view.edges
    /\ LET anchors == {n \in New \union Changed : view'.state[n] = "anchor"}
       IN  /\ Cardinality(anchors) <= 1
           /\ \/ \A n \in New : view'.state[n] = Pending /\ Changed = {}
              \/ \A n \in (New \union Changed) \ anchors : view'.state[n] = "pruned"
    /\ payload' = NoPayload

\* A lookahead step shows candidates within the limit, all pending, each with no more
\* than the edge it was found by.
Step ==
    /\ Grows
    /\ Cardinality(New) <= Limit
    /\ Changed = {}
    /\ \A n \in New : view'.state[n] = Pending
    /\ \A e, d \in view'.edges \ view.edges : e[2] = d[2] => e = d
    /\ payload' = NoPayload

\* An expansion settles one node that was shown; what is new is what that node led to.
Expand ==
    /\ Grows
    /\ \E n \in Nodes(view) :
          /\ view'.state[n] = "resolved"
          /\ Changed \subseteq {n}
          /\ \A m \in New : view'.state[m] = Pending /\ <<n, m>> \in view'.edges
          /\ \A e \in view'.edges \ view.edges : e[1] = n
    /\ payload' = NoPayload

\* A collect delivers the view, and starts a new one when it clears.  Entries that are not
\* parsed give back no more than the graph without nodes.
Deliver ==
    /\ payload' = Payload({view}, {view} \intersect {EmptyGraph})
    /\ view' \in {view, EmptyGraph}

\* A reset drops it.
Drop ==
    /\ view' = EmptyGraph
    /\ payload' = NoPayload

\* A call that shows nothing.
Quiet ==
    /\ payload' = NoPayload
    /\ UNCHANGED view

Next == Decide \/ Step \/ Expand \/ Deliver \/ Drop \/ Quiet

Spec == Init /\ [][Next]_vars
====
