---- MODULE RepoGraph ----
(***************************************************************************)
(* From the files of a repository to the graph of a session: ingest_repo,  *)
(* the node ids of path_ids.py, raw_tree_to_graph and the second pass of   *)
(* _build_graph_from_repo, as operators.                                   *)
(*                                                                         *)
(* A string is its place in the order of strings, a number; the symbols of *)
(* nodes are names of functions and modules, and paths of files.  A node id *)
(* is its prefix and its parts in the order in which the id spells them.   *)
(* Ids are compared part by part, as their strings are unless one part is  *)
(* the beginning of another.                                               *)
(*                                                                         *)
(* A path may be a link.  Files are listed and read by the paths they are  *)
(* listed under; ids are made of the paths these lead to.                  *)
(***************************************************************************)
EXTENDS Naturals, Sequences, FiniteSets, SequencesExt

CONSTANTS
    Name,   \* names of functions, called symbols and modules
    File,   \* paths of files, relative to the root
    Target  \* where a path leads: to itself, as a link to another one, or out of the root

\* None where a path is optional; and of what is not under the root.
NoFile == 0

ASSUME RepoGraphAssumption ==
    /\ Name \subseteq Nat /\ IsFiniteSet(Name)
    /\ File \subseteq Nat /\ IsFiniteSet(File)
    /\ 0 \notin Name \union File
    /\ Name \intersect File = {}
    /\ Target \in [File -> File \union {NoFile}]

\* What llm-tldr finds in a file: whether it can be read at all, top-level functions,
\* who calls what (callers may also be methods), and the imports, or none.
Content == [readable: BOOLEAN, functions: SUBSET Name, calls: SUBSET (Name \X Name),
            imports: SUBSET Name]

----
(* Node ids.                                                               *)

Prefix == [file |-> 1, function |-> 2, module |-> 3, symbol |-> 4]

\* The path in an id is the one that repo_relative_path resolves it to.
FileId(f) == <<Prefix.file, Target[f]>>

FunctionId(f, n) == <<Prefix.function, Target[f], n>>

ModuleId(m) == <<Prefix.module, m>>

\* A reference is a node of the file that makes it, also when that file defines the name.
SymbolId(n, f) == <<Prefix.symbol, n, Target[f]>>

\* node_kind_for_id
NodeKind(id) == <<"file", "function", "type", "symbol">>[id[1]]

\* node_label_for_id
NodeLabel(id) == IF id[1] = Prefix.function THEN id[3] ELSE id[2]

\* file_for_node_id
NodeFile(id) ==
    CASE id[1] \in {Prefix.file, Prefix.function} -> id[2]
      [] id[1] = Prefix.symbol -> id[3]
      [] OTHER -> NoFile

\* The order of strings, on ids and on tuples of sort keys.
Before(s, t) ==
    \E i \in 1..Len(t) :
        /\ \A j \in 1..(i - 1) : j <= Len(s) /\ s[j] = t[j]
        /\ (i = Len(s) + 1 \/ (i <= Len(s) /\ s[i] < t[i]))

\* A set as the sequence in which each member comes after those that are less.
InOrder(S, Less(_, _)) ==
    [i \in 1..Cardinality(S) |->
        CHOOSE x \in S : Cardinality({y \in S : Less(y, x)}) = i - 1]

Sorted(S) == InOrder(S, Before)

----
(* ingest_repo.                                                            *)

\* A slip in ingest_repo: a call of a function of the same file goes to its definition.
RawEdgesToDefinitions(f, c) ==
    {[kind |-> "call", source |-> FunctionId(f, call[1]),
      target |-> IF call[2] \in c.functions THEN FunctionId(f, call[2])
                 ELSE SymbolId(call[2], f)] : call \in c.calls}
    \union {[kind |-> "import", source |-> FileId(f), target |-> ModuleId(m)] : m \in c.imports}

RawEdges(f, c) ==
    {[kind |-> "call", source |-> FunctionId(f, call[1]),
      target |-> SymbolId(call[2], f)] : call \in c.calls}
    \union {[kind |-> "import", source |-> FileId(f), target |-> ModuleId(m)] : m \in c.imports}

\* The files that can be read, by path; the other ones are passed over.
Listed(repo) == {f \in DOMAIN repo : repo[f].readable}

\* repo_relative_path raises, and nothing catches it, when an id is made for a file that is
\* a link out of the root: the whole load fails, unless the file gives nothing an id.
Escapes(repo) ==
    \E f \in Listed(repo) :
        /\ Target[f] = NoFile
        /\ repo[f].functions # {} \/ repo[f].calls # {} \/ repo[f].imports # {}

RawTree(repo) ==
    LET paths == InOrder(Listed(repo), <)
    IN  [i \in DOMAIN paths |->
            [path |-> paths[i],
             functions |-> repo[paths[i]].functions,
             edges |-> RawEdges(paths[i], repo[paths[i]])]]

----
(* raw_tree_to_graph.                                                      *)

Attributes(kind, symbol, file) == [kind |-> kind, symbol |-> symbol, file |-> file]

\* ensure_node: the first mention of a node sets its attributes.
EnsureNode(nodes, id, attributes) ==
    IF id \in DOMAIN nodes THEN nodes
    ELSE [n \in DOMAIN nodes \union {id} |-> IF n = id THEN attributes ELSE nodes[n]]

\* The functions of a file become nodes.
Define(nodes, file) ==
    FoldLeft(LAMBDA ns, n : EnsureNode(ns, FunctionId(file.path, n),
                                       Attributes("function", n, file.path)),
             nodes, InOrder(file.functions, <))

DefinedNodes(tree) == FoldLeft(Define, <<>>, tree)

EdgeKey(e) == <<IF e.kind = "call" THEN 0 ELSE 1>> \o e.source \o e.target

FileEdges(file) == InOrder(file.edges, LAMBDA d, e : Before(EdgeKey(d), EdgeKey(e)))

\* iter_edges, with the file each edge is from.
OrderedEdges(tree) ==
    FlattenSeq([i \in DOMAIN tree |->
        [j \in DOMAIN FileEdges(tree[i]) |->
            [edge |-> FileEdges(tree[i])[j], path |-> tree[i].path]]])

\* The node an edge comes from is given the path of the file it is from, also where the
\* id spells the path this one leads to.
Referrer(nodes, e) ==
    EnsureNode(nodes, e.edge.source,
               IF e.edge.kind = "import" THEN Attributes("file", e.path, e.path)
               ELSE Attributes("function", NodeLabel(e.edge.source), e.path))

TargetKind == [call |-> "symbol", import |-> "type"]

\* A slip in raw_tree_to_graph: what is referred to is given the file that refers to it.
EndsOfReferrer(nodes, e) ==
    EnsureNode(Referrer(nodes, e), e.edge.target,
               Attributes(TargetKind[e.edge.kind], NodeLabel(e.edge.target), e.path))

\* A slip in raw_tree_to_graph: only the node an edge comes from is made.
EndsOfSourceOnly(nodes, e) == Referrer(nodes, e)

\* The ends of an edge become nodes, if they are none yet.
Ends(nodes, e) ==
    EnsureNode(Referrer(nodes, e), e.edge.target,
               Attributes(TargetKind[e.edge.kind], NodeLabel(e.edge.target),
                          NodeFile(e.edge.target)))

EdgeKind == [call |-> "calls", import |-> "imports"]

EmptyGraph == [nodes |-> <<>>, edges |-> {}]

\* Parallel edges of a tree are one edge of the graph.  Of a repository that does not escape.
GraphOf(repo) ==
    LET tree == RawTree(repo)
        edges == OrderedEdges(tree)
    IN  [nodes |-> FoldLeft(Ends, DefinedNodes(tree), edges),
         edges |-> {[source |-> edges[i].edge.source, target |-> edges[i].edge.target,
                     kind |-> EdgeKind[edges[i].edge.kind]] : i \in DOMAIN edges}]

Ids ==
    {<<Prefix.file, f>> : f \in File} \union {ModuleId(m) : m \in Name}
    \union {<<Prefix.function, f, n>> : f \in File, n \in Name}
    \union {<<Prefix.symbol, n, f>> : n \in Name, f \in File}

IsGraph(g) ==
    /\ DOMAIN g = {"nodes", "edges"}
    /\ DOMAIN g.nodes \subseteq Ids
    /\ g.nodes \in [DOMAIN g.nodes -> [kind: {"file", "function", "type", "symbol"},
                                       symbol: Name \union File, file: File \union {NoFile}]]
    /\ \A e \in g.edges :
          /\ {e.source, e.target} \subseteq DOMAIN g.nodes
          /\ e.kind \in {"calls", "imports"}
====
