---- MODULE GraphStore ----
(***************************************************************************)
(* GraphStore of store.py over the graph of a repository: the anchor       *)
(* candidates a policy is offered, the direct lookup of exploration's      *)
(* resolve, and the neighbourhood search, step by step.                    *)
(*                                                                         *)
(* A store is made with its graph and is never changed; the indexes are    *)
(* operators on the graph.  How similar a query is to a symbol is          *)
(* rapidfuzz's; here it is any score.                                      *)
(***************************************************************************)
EXTENDS RepoGraph, Integers

CONSTANTS
    Repos,    \* the repositories explored: functions from files to Content
    Query,    \* queries, stripped, as places in the order of strings
    Blank,    \* the empty one
    Score,    \* the score of a symbol for a query
    InPath,   \* the pairs of a query and a path that contains it
    Limits,   \* the numbers of candidates asked for
    Radii     \* the radii of neighbourhoods asked for

VARIABLES
    repo,     \* the repository
    graph,    \* the graph the store is of
    answer,   \* what the last query returned
    search    \* the local variables of get_neighborhood

vars == <<repo, graph, answer, search>>

Symbol == Name \union File

MaxScore == 100

ASSUME GraphStoreAssumption ==
    /\ \A r \in Repos : DOMAIN r \subseteq File /\ r \in [DOMAIN r -> Content]
    /\ Query \subseteq Nat
    /\ Blank \in Query /\ Blank \notin Symbol
    /\ Score \in [Query \X Symbol -> 0..MaxScore]
    /\ \A s \in Query \intersect Symbol : Score[<<s, s>>] = MaxScore
    /\ InPath \subseteq Query \X File
    /\ \A f \in File : <<Blank, f>> \in InPath
    /\ Limits \subseteq Nat /\ Radii \subseteq Int

NoAnswer == [type |-> "none"]

Idle == [pc |-> "idle"]

Init ==
    /\ repo \in Repos
    /\ graph = EmptyGraph
    /\ answer = NoAnswer
    /\ search = Idle

\* set_graph makes a store with the graph it is given.
Load ==
    /\ graph = EmptyGraph
    /\ ~Escapes(repo)
    /\ graph' = GraphOf(repo)
    /\ UNCHANGED <<repo, answer, search>>

\* The load raises: there is no store, and whoever asked gets the error.
LoadFails ==
    /\ graph = EmptyGraph /\ answer = NoAnswer
    /\ Escapes(repo)
    /\ answer' = [type |-> "failed"]
    /\ UNCHANGED <<repo, graph, search>>

\* No query changes anything a later one depends on: a behaviour is one query, of the
\* loaded graph, and ends with its answer.
Open == graph # EmptyGraph /\ search = Idle /\ answer = NoAnswer

----
(* The indexes.                                                            *)

\* A slip in _build_indexes: ids are sorted the other way round.
FindSymbolBackwards(s) == Reverse(Sorted({id \in DOMAIN graph.nodes : graph.nodes[id].symbol = s}))

\* find_symbol, index_by_symbol
FindSymbol(s) == Sorted({id \in DOMAIN graph.nodes : graph.nodes[id].symbol = s})

\* index_by_file; what has no file is not in it.
InFile(f) == Sorted({id \in DOMAIN graph.nodes : graph.nodes[id].file = f})

Symbols == {graph.nodes[id].symbol : id \in DOMAIN graph.nodes}

\* A slip in _symbol_index: the last node of a symbol stands for it.
SymbolIndexLast == {[symbol |-> s, id |-> Last(FindSymbol(s))] : s \in Symbols}

\* _symbol_index: the first node of a symbol stands for it.
SymbolIndex == {[symbol |-> s, id |-> Head(FindSymbol(s))] : s \in Symbols}

\* By falling score, then by symbol and id.
RankKey(q, c) == <<MaxScore - Score[<<q, c.symbol>>], c.symbol>> \o c.id

\* rank_symbol_candidates
Ranked(q) ==
    IF q = Blank THEN <<>>
    ELSE InOrder(SymbolIndex, LAMBDA c, d : Before(RankKey(q, c), RankKey(q, d)))

\* The paths that contain a query, in order.  A query with blanks around it, which
\* resolve does not strip, is in no path.
PathsWith(q) == InOrder({f \in File : <<q, f>> \in InPath /\ InFile(f) # <<>>}, <)

----
(* collect_anchor_candidates.                                              *)

Candidate(id, source, rank) == [id |-> id, source |-> source, rank |-> rank]

\* A slip in collect_anchor_candidates: candidates found again are kept.
AppendUnseenAll(out, candidates) == out \o candidates

\* A candidate is appended unless its node is already in the list.
AddUnseen(out, candidate) ==
    IF \E i \in DOMAIN out : out[i].id = candidate.id THEN out ELSE Append(out, candidate)

AppendUnseen(out, candidates) == FoldLeft(AddUnseen, out, candidates)

ExactCandidates(q) ==
    LET ids == FindSymbol(q)
    IN  [i \in DOMAIN ids |-> Candidate(ids[i], "exact_symbol", i)]

FuzzyCandidates(q) ==
    LET ranked == Ranked(q)
    IN  [i \in DOMAIN ranked |-> Candidate(ranked[i].id, "fuzzy_symbol", i)]

\* The nodes of all files whose path contains the query.
FileCandidates(q) ==
    LET paths == PathsWith(q)
        ids == FlattenSeq([i \in DOMAIN paths |-> InFile(paths[i])])
    IN  [i \in DOMAIN ids |-> Candidate(ids[i], "file_substring", 0)]

\* Files are ranked as they are appended, the other sources as they are found.
RankFiles(out) ==
    LET before == Cardinality({i \in DOMAIN out : out[i].source # "file_substring"})
    IN  [i \in DOMAIN out |-> IF out[i].source = "file_substring"
                              THEN [out[i] EXCEPT !.rank = i - before] ELSE out[i]]

CollectAnchorCandidates(q, limit) ==
    LET exact == AppendUnseen(<<>>, ExactCandidates(q))
        fuzzy == AppendUnseen(exact, FuzzyCandidates(q))
        all == RankFiles(AppendUnseen(fuzzy, FileCandidates(q)))
    IN  IF q = Blank THEN <<>> ELSE SubSeq(all, 1, IF limit < Len(all) THEN limit ELSE Len(all))

\* What resolve of the server asks for, with limit 8.
Collect(q, limit) ==
    /\ Open
    /\ answer' = [type |-> "candidates", query |-> q, limit |-> limit,
                  list |-> CollectAnchorCandidates(q, limit)]
    /\ UNCHANGED <<repo, graph, search>>

----
(* resolve.                                                                *)

MinScore == 70

Gap == 5

\* pick_unique_or_ambiguous: at most one winner, the first of those with the least score
\* or more, if it is alone or ahead of the second by the gap.
Winners(q) ==
    LET ranked == Ranked(q)
        score(i) == Score[<<q, ranked[i].symbol>>]
        eligible == {i \in DOMAIN ranked : score(i) >= MinScore}
        first(S) == {j \in S : \A k \in S : j <= k}
    IN  {ranked[i].id : i \in {j \in first(eligible) :
             \A k \in first(eligible \ {j}) : score(j) - score(k) >= Gap}}

\* Exact symbol, else unique fuzzy winner, else the first node of the first path; the
\* query is compared with blanks and all, except by the ranking.
Found(q, padded) ==
    LET exact == IF padded THEN <<>> ELSE FindSymbol(q)
        paths == IF padded THEN <<>> ELSE PathsWith(q)
    IN  CASE exact # <<>> -> {Head(exact)}
          [] exact = <<>> /\ Winners(q) # {} -> Winners(q)
          [] exact = <<>> /\ Winners(q) = {} /\ paths # <<>> -> {Head(InFile(Head(paths)))}
          [] OTHER -> {}

Resolve(q, padded) ==
    /\ Open
    /\ answer' = [type |-> "node", query |-> q, padded |-> padded, found |-> Found(q, padded)]
    /\ UNCHANGED <<repo, graph, search>>

\* resolve_candidates has candidates when resolve finds nothing.
ResolveCandidates(q, padded, limit) ==
    /\ Open
    /\ IF Found(q, padded) # {}
       THEN answer' = [type |-> "resolved"]
       ELSE answer' = [type |-> "candidates", query |-> q, limit |-> limit,
                       list |-> CollectAnchorCandidates(q, limit)]
    /\ UNCHANGED <<repo, graph, search>>

----
(* get_neighborhood.                                                       *)

\* get_neighbors, of every kind of edge
Neighbors(id) ==
    {e.target : e \in {d \in graph.edges : d.source = id}}
    \union {e.source : e \in {d \in graph.edges : d.target = id}}

Start(id, radius) ==
    /\ Open
    /\ IF radius < 0
       THEN /\ answer' = [type |-> "neighborhood", of |-> id, radius |-> radius, visited |-> {}]
            /\ UNCHANGED search
       ELSE /\ search' = [pc |-> "visit", of |-> id, radius |-> radius,
                          queue |-> <<[id |-> id, dist |-> 0]>>, visited |-> {id}]
            /\ UNCHANGED answer
    /\ UNCHANGED <<repo, graph>>

\* A slip in get_neighborhood: the last of the queue is taken, as from a stack.
VisitLast ==
    /\ search.pc = "visit" /\ search.queue # <<>>
    /\ LET current == Last(search.queue)
           new == IF current.dist >= search.radius THEN {}
                  ELSE Neighbors(current.id) \ search.visited
           entries == [i \in 1..Cardinality(new) |-> [id |-> Sorted(new)[i], dist |-> current.dist + 1]]
       IN  search' = [search EXCEPT !.queue = Front(@) \o entries, !.visited = @ \union new]
    /\ UNCHANGED <<repo, graph, answer>>

\* One turn of the loop.
Visit ==
    /\ search.pc = "visit" /\ search.queue # <<>>
    /\ LET current == Head(search.queue)
           new == IF current.dist >= search.radius THEN {}
                  ELSE Neighbors(current.id) \ search.visited
           entries == [i \in 1..Cardinality(new) |-> [id |-> Sorted(new)[i], dist |-> current.dist + 1]]
       IN  search' = [search EXCEPT !.queue = Tail(@) \o entries, !.visited = @ \union new]
    /\ UNCHANGED <<repo, graph, answer>>

Return ==
    /\ search.pc = "visit" /\ search.queue = <<>>
    /\ answer' = [type |-> "neighborhood", of |-> search.of, radius |-> search.radius,
                  visited |-> search.visited]
    /\ search' = Idle
    /\ UNCHANGED <<repo, graph>>

Next ==
    \/ Load
    \/ LoadFails
    \/ \E q \in Query, limit \in Limits : Collect(q, limit)
    \/ \E q \in Query, padded \in BOOLEAN : Resolve(q, padded)
    \/ \E q \in Query, padded \in BOOLEAN, limit \in Limits : ResolveCandidates(q, padded, limit)
    \/ \E id \in DOMAIN graph.nodes, radius \in Radii : Start(id, radius)
    \/ Visit
    \/ Return

Spec == Init /\ [][Next]_vars

----
(* Properties.                                                             *)

Source == {"exact_symbol", "fuzzy_symbol", "file_substring"}

TypeOK ==
    /\ repo \in Repos
    /\ IsGraph(graph)
    /\ answer.type \in {"none", "failed", "candidates", "node", "resolved", "neighborhood"}
    /\ answer.type = "candidates" =>
          answer.list \in Seq([id: DOMAIN graph.nodes, source: Source, rank: Nat \ {0}])
    /\ answer.type = "node" =>
          answer.found \subseteq DOMAIN graph.nodes /\ Cardinality(answer.found) <= 1
    /\ search # Idle =>
          search.queue \in Seq([id: search.visited, dist: 0..search.radius])

\* The attributes that fit an id.  What a file is or defines is indexed under a path the file
\* is listed by, one of those that lead to the path the id spells; all else as its id spells it.
Fitting(id) ==
    LET paths == {p \in DOMAIN repo : Target[p] = NodeFile(id)}
    IN  CASE id[1] = Prefix.file -> {Attributes("file", p, p) : p \in paths}
          [] id[1] = Prefix.function -> {Attributes("function", NodeLabel(id), p) : p \in paths}
          [] OTHER -> {Attributes(NodeKind(id), NodeLabel(id), NodeFile(id))}

\* The attributes a node is indexed by fit its id, whichever definition, call or import of
\* whichever file mentioned it first: two files that share ids because one is a link to the
\* other do not give a node the name or the file of something else.
AttributesFollowIds ==
    \A id \in DOMAIN graph.nodes : graph.nodes[id] \in Fitting(id)

\* Calls and imports lead to references, which lead nowhere, never to the function that
\* defines the name: there is no path of two calls, and only the nodes of definitions
\* and of importing files are expanded further by a traversal along edges.
ReferencesAreLeaves ==
    \A e \in graph.edges :
        /\ NodeKind(e.source) = (IF e.kind = "calls" THEN "function" ELSE "file")
        /\ NodeKind(e.target) = (IF e.kind = "calls" THEN "symbol" ELSE "type")
        /\ \A d \in graph.edges : d.source # e.target

\* The ways a node matches a query, each with its place among the matches.
Places(q, id) ==
    LET symbol == graph.nodes[id].symbol
    IN  {<<0>> \o id : s \in {q} \intersect {symbol}}
        \union {<<1, MaxScore - Score[<<q, s>>], s>> \o id :
                   s \in {x \in {symbol} : \A d \in DOMAIN graph.nodes :
                             graph.nodes[d].symbol = x => d = id \/ Before(id, d)}}
        \union {<<2, f>> \o id : f \in {x \in {graph.nodes[id].file} : <<q, x>> \in InPath}}

BestPlace(q, id) ==
    CHOOSE p \in Places(q, id) : \A other \in Places(q, id) : p = other \/ Before(p, other)

\* The candidates a policy chooses from are the best places of all nodes that match in
\* any way, each node once, in order and up to the limit: exact symbols, then the first
\* node of each symbol by its score, then nodes of files.
CandidatesAreBest ==
    answer.type = "candidates" /\ answer.query # Blank =>
        LET matches == {id \in DOMAIN graph.nodes : Places(answer.query, id) # {}}
            place == [id \in matches |-> BestPlace(answer.query, id)]
            size == Cardinality(matches)
        IN  /\ Len(answer.list) = (IF answer.limit < size THEN answer.limit ELSE size)
            /\ \A i \in DOMAIN answer.list :
                  /\ answer.list[i].id \in matches
                  /\ i = 1 + Cardinality({id \in matches :
                                             Before(place[id], place[answer.list[i].id])})

\* Of the nodes that carry the name asked for, a definition is offered and found first,
\* before the references to it, unless a blank around the query keeps it from matching.
DefinitionComesFirst ==
    LET defined(q) == \E id \in DOMAIN graph.nodes :
                         NodeKind(id) = "function" /\ NodeLabel(id) = q
    IN  /\ answer.type = "candidates" /\ defined(answer.query) /\ answer.limit > 0 =>
              NodeKind(answer.list[1].id) = "function" /\ NodeLabel(answer.list[1].id) = answer.query
        /\ answer.type = "node" /\ defined(answer.query) /\ ~answer.padded =>
              \A id \in answer.found : NodeKind(id) = "function" /\ NodeLabel(id) = answer.query

\* What the lookup without a policy finds by name or by a clear lead is the first
\* candidate a policy would be offered for the same query; what it finds by file is
\* offered too, unless the limit is taken by symbols that match less or more.
FoundIsOffered ==
    answer.type = "node" /\ answer.query # Blank =>
        \A id \in answer.found, limit \in Limits \ {0} :
            LET list == CollectAnchorCandidates(answer.query, limit)
                offered == {list[i].id : i \in DOMAIN list}
            IN  /\ id \in offered \/ Cardinality(offered) = limit
                /\ (Winners(answer.query) # {} \/ (~answer.padded /\ FindSymbol(answer.query) # <<>>)) =>
                      id = list[1].id

\* The nodes at most k edges from a node, in either direction.
Within(id, radius) ==
    LET ball[k \in 0..radius] ==
            IF k = 0 THEN {id}
            ELSE ball[k - 1] \union UNION {Neighbors(n) : n \in ball[k - 1]}
    IN  ball[radius]

\* A neighbourhood is all nodes within the radius and no other: no node is kept out
\* because it was first met on a longer way.
NeighborhoodIsBall ==
    answer.type = "neighborhood" =>
        answer.visited = IF answer.radius < 0 THEN {} ELSE Within(answer.of, answer.radius)
====
