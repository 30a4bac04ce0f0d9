---- MODULE GraphSession ----
(***************************************************************************)
(* GraphSession of graph_session.py, the default session of exploration.py *)
(* and the runtime's _ensure_graph_ready (server.py): sessions cache a     *)
(* graph scanned from a source tree, under a signature of the tree, while  *)
(* others edit the files.                                                  *)
(*                                                                         *)
(* The calls of a process are synchronous, so one runs at a time; edits    *)
(* come between any two file reads.  A file's content is a version number; *)
(* a file is missing in one of its versions, the first or the last.  A     *)
(* graph is what was read to build it: of each file the functions and, by a*)
(* second read, the imports.  The GraphStore is rebuilt with the graph and *)
(* not a variable of its own.                                              *)
(***************************************************************************)
EXTENDS Naturals, FiniteSets

CONSTANTS
    File,         \* the *.py paths of a tree, as numbers in the order of paths
    Root,         \* directories
    NoRoot,       \* None where a repo root is optional
    Cwd,          \* the working directory of the process
    Session,      \* sessions of the process
    Default,      \* exploration._default_session
    Given,        \* graphs a caller makes itself and sets
    NoGraph,
    NoSignature,
    LastVersion,  \* bound on the versions of a file
    Late,         \* files that are only created later; the others may be deleted
    Reverts       \* whether a file may get a former content back

VARIABLES
    sources,   \* contents of the files under each root (the environment's)
    sessions,  \* the GraphSession objects
    call       \* the running call; with pc "answer" it is about to return

vars == <<sources, sessions, call>>

Contents == [File -> 1..LastVersion]

\* The version in which a file is not there.
Missing(f) == IF f \in Late THEN 1 ELSE LastVersion

\* A file that was listed but not there when read.
Vanished == 0

\* compute_source_signature: what was hashed of each file; a file not listed is
\* not hashed, which is what the missing version stands for.
Signature == [File -> 0..LastVersion]

Scan == [by: Session, functions: Contents, imports: Contents]

\* compute_graph_signature
Digest(g) == IF g \in Given THEN g ELSE <<g.functions, g.imports>>

ASSUME SessionAssumption ==
    /\ File \subseteq Nat
    /\ IsFiniteSet(File)
    /\ Cwd \in Root
    /\ NoRoot \notin Root
    /\ Default \in Session
    /\ LastVersion \in Nat \ {0, 1}
    /\ Late \subseteq File
    /\ Reverts \in BOOLEAN
    /\ NoGraph \notin Given \union Scan
    /\ NoSignature \notin Signature
    /\ Given \intersect Scan = {}

Empty == [root |-> NoRoot, identity |-> NoRoot, graph |-> NoGraph,
          signature |-> NoSignature, digest |-> NoSignature]

Idle == [pc |-> "idle"]

Init ==
    /\ sources \in [Root -> [File -> {1}]]
    /\ sessions \in {s \in [Session -> {Empty} \union {[Empty EXCEPT !.root = r] : r \in Root}] :
                        s[Default] = Empty}
    /\ call = Idle

\* A slip in set_graph: the session's signature comes before the one passed.
WithGraphKeepsSignature(session, graph, root, signature) ==
    [root |-> root, identity |-> root, graph |-> graph,
     signature |-> IF session.signature = NoSignature THEN signature ELSE session.signature,
     digest |-> Digest(graph)]

\* set_graph
WithGraph(session, graph, root, signature) ==
    [root |-> root, identity |-> root, graph |-> graph,
     signature |-> IF signature = NoSignature THEN session.signature ELSE signature,
     digest |-> Digest(graph)]

----
(* The files.                                                              *)

Edit(r, f) ==
    /\ \E v \in 1..LastVersion :
          /\ IF Reverts THEN v # sources[r][f] ELSE v > sources[r][f]
          /\ sources' = [sources EXCEPT ![r][f] = v]
    /\ UNCHANGED <<sessions, call>>

----
(* A call.                                                                 *)

Own == sessions[call.session]

\* resolve and resolve_and_expand run _ensure_graph_ready twice, expand once.
Begin(s, times) ==
    /\ call = Idle
    /\ call' = [pc |-> "ready", session |-> s, left |-> times, began |-> sources]
    /\ UNCHANGED <<sources, sessions>>

\* Where the call goes once the session is ready; `asked` is the root it was
\* checked against, if it was.
Ready(asked) ==
    IF call.left > 1
    THEN [pc |-> "ready", session |-> call.session, left |-> call.left - 1, began |-> call.began]
    ELSE [pc |-> "answer", session |-> call.session, began |-> call.began, asked |-> asked]

Adoptable == Own.graph = NoGraph /\ Own.root = NoRoot /\ sessions[Default].graph # NoGraph

\* copy_loaded_state_from, without a look at the files.
Adopt ==
    /\ call.pc = "ready"
    /\ Adoptable
    /\ LET other == sessions[Default]
       IN  sessions' = [sessions EXCEPT
              ![call.session] = WithGraph(@, other.graph, other.root, other.signature)]
    /\ call' = Ready(NoRoot)
    /\ UNCHANGED sources

Listed(r) == {f \in File : sources[r][f] # Missing(f)}

Unsigned == [f \in File |-> Missing(f)]

\* The load of root r begins with the list of its files.
Listing(s, r, left, began) ==
    [pc |-> "sign", session |-> s, left |-> left, began |-> began, root |-> r,
     todo |-> Listed(r), signature |-> Unsigned]

\* ensure_loaded
Load ==
    /\ call.pc = "ready"
    /\ ~Adoptable
    /\ LET r == IF Own.root = NoRoot THEN Cwd ELSE Own.root
       IN  call' = Listing(call.session, r, call.left, call.began)
    /\ UNCHANGED <<sources, sessions>>

\* exploration.ensure_graph_loaded, which takes the working directory when no
\* root is given, whatever root the default session has.
LoadDefault(r) ==
    /\ call = Idle
    /\ call' = Listing(Default, r, 1, sources)
    /\ UNCHANGED <<sources, sessions>>

\* A slip in compute_source_signature: a file that vanished is waited for.
SignFileWaits(f) ==
    /\ call.pc = "sign"
    /\ f \in call.todo
    /\ \A g \in call.todo : f <= g
    /\ sources[call.root][f] # Missing(f)
    /\ call' = [call EXCEPT !.todo = @ \ {f}, !.signature[f] = sources[call.root][f]]
    /\ UNCHANGED <<sources, sessions>>

\* The signature hashes one file after the other, in the order of paths.
SignFile(f) ==
    /\ call.pc = "sign"
    /\ f \in call.todo
    /\ \A g \in call.todo : f <= g
    /\ LET v == sources[call.root][f]
       IN  call' = [call EXCEPT !.todo = @ \ {f},
                                !.signature[f] = IF v = Missing(f) THEN Vanished ELSE v]
    /\ UNCHANGED <<sources, sessions>>

\* A slip in ensure_loaded: a loaded graph of the root is taken for current.
CurrentUnsigned ==
    /\ Own.graph # NoGraph
    /\ Own.identity = call.root

\* A slip in ensure_loaded: the root is not compared.
CurrentAnyRoot ==
    /\ Own.graph # NoGraph
    /\ Own.signature = call.signature

\* The graph of the session has the root and signature asked for.
Current ==
    /\ Own.graph # NoGraph
    /\ Own.identity = call.root
    /\ Own.signature = call.signature

Keep ==
    /\ call.pc = "sign"
    /\ call.todo = {}
    /\ Current
    /\ call' = Ready(call.root)
    /\ UNCHANGED <<sources, sessions>>

BeginScan ==
    /\ call.pc = "sign"
    /\ call.todo = {}
    /\ ~Current
    /\ call' = [pc |-> "scan", session |-> call.session, left |-> call.left, began |-> call.began,
                root |-> call.root, signature |-> call.signature,
                functions |-> Unsigned, imports |-> Unsigned, todo |-> File, half |-> {}]
    /\ UNCHANGED <<sources, sessions>>

\* ingest_repo reads a file's functions (a missing file is skipped) ...
ScanFunctions(f) ==
    /\ call.pc = "scan"
    /\ call.half = {}
    /\ f \in call.todo
    /\ LET v == sources[call.root][f]
       IN  call' = [call EXCEPT !.todo = @ \ {f}, !.functions[f] = v,
                                !.half = IF v = Missing(f) THEN {} ELSE {f}]
    /\ UNCHANGED <<sources, sessions>>

\* ... and then its imports.
ScanImports(f) ==
    /\ call.pc = "scan"
    /\ f \in call.half
    /\ call' = [call EXCEPT !.half = {}, !.imports[f] = sources[call.root][f]]
    /\ UNCHANGED <<sources, sessions>>

\* A slip in ensure_loaded: the files are signed after the scan.
CommitSignsLast ==
    /\ call.pc = "scan"
    /\ call.todo = {} /\ call.half = {}
    /\ LET graph == [by |-> call.session, functions |-> call.functions, imports |-> call.imports]
       IN  sessions' = [sessions EXCEPT
              ![call.session] = WithGraph(@, graph, call.root, sources[call.root])]
    /\ call' = Ready(call.root)
    /\ UNCHANGED sources

\* The graph is built, and set with the signature taken before.
Commit ==
    /\ call.pc = "scan"
    /\ call.todo = {} /\ call.half = {}
    /\ LET graph == [by |-> call.session, functions |-> call.functions, imports |-> call.imports]
       IN  sessions' = [sessions EXCEPT
              ![call.session] = WithGraph(@, graph, call.root, call.signature)]
    /\ call' = Ready(call.root)
    /\ UNCHANGED sources

\* A file cannot be read, or no graph can be built.
Fail ==
    /\ call.pc \in {"sign", "scan"}
    /\ call' = Idle
    /\ UNCHANGED <<sources, sessions>>

\* The answer is made from the session, before anything else runs.
Answer ==
    /\ call.pc = "answer"
    /\ call' = Idle
    /\ UNCHANGED <<sources, sessions>>

----
(* Callers that work on a session directly.                                *)

\* A caller sets a graph of its own, with the files' signature or with none:
\* the session then keeps the signature it has.
Give(s, g, r, signed) ==
    /\ call = Idle
    /\ sessions' = [sessions EXCEPT
          ![s] = WithGraph(@, g, r, IF signed THEN sources[r] ELSE NoSignature)]
    /\ UNCHANGED <<sources, call>>

\* A slip in reset: the repo identity is left.
ResetKeepsIdentity(s, clearRoot) ==
    /\ call = Idle
    /\ sessions' = [sessions EXCEPT ![s] = [Empty EXCEPT !.root = IF clearRoot THEN NoRoot ELSE sessions[s].root,
                                                         !.identity = sessions[s].identity]]
    /\ UNCHANGED <<sources, call>>

\* reset_graph_session, and _clear_active_graph which clears the root as well
Reset(s, clearRoot) ==
    /\ call = Idle
    /\ sessions' = [sessions EXCEPT ![s] = [Empty EXCEPT !.root = IF clearRoot THEN NoRoot ELSE sessions[s].root]]
    /\ UNCHANGED <<sources, call>>

CallSteps ==
    \/ Adopt \/ Load \/ Keep \/ BeginScan \/ Commit \/ Answer
    \/ \E f \in File : SignFile(f) \/ ScanFunctions(f) \/ ScanImports(f)

Next ==
    \/ \E r \in Root, f \in File : Edit(r, f)
    \/ \E s \in Session, times \in {1, 2} : Begin(s, times)
    \/ \E r \in Root : LoadDefault(r)
    \/ CallSteps \/ Fail
    \/ \E s \in Session, g \in Given, r \in Root, signed \in BOOLEAN : Give(s, g, r, signed)
    \/ \E s \in Session : Reset(s, FALSE)
    \/ Reset(Default, TRUE)

\* A call runs to its end on the thread it was made on.
Spec == Init /\ [][Next]_vars /\ WF_vars(CallSteps)

----
(* Properties.                                                             *)

SessionState ==
    [root: Root \union {NoRoot}, identity: Root \union {NoRoot}, graph: Given \union Scan \union {NoGraph},
     signature: Signature \union {NoSignature},
     digest: Given \union (Contents \X Contents) \union {NoSignature}]

Began == [Root -> Contents]

Call ==
    {Idle}
    \union [pc: {"ready"}, session: Session, left: {1, 2}, began: Began]
    \union [pc: {"answer"}, session: Session, began: Began, asked: Root \union {NoRoot}]
    \union [pc: {"sign"}, session: Session, left: {1, 2}, began: Began, root: Root,
            todo: SUBSET File, signature: Signature]
    \union [pc: {"scan"}, session: Session, left: {1, 2}, began: Began, root: Root,
            signature: Signature, functions: Contents, imports: Contents,
            todo: SUBSET File, half: SUBSET File]

\* A session is loaded with all its parts or not at all.
Whole(session) ==
    IF session.graph = NoGraph THEN session.identity = NoRoot
    ELSE session.root \in Root /\ session.identity = session.root

TypeOK ==
    /\ sources \in [Root -> Contents]
    /\ sessions \in [Session -> SessionState]
    /\ call \in Call
    /\ \A s \in Session : Whole(sessions[s])

\* An answer is of the root asked for, and of no content older than what the files
\* held when the call began, however long ago the graph was scanned and whatever
\* was edited while it was: the check of the signature notices every graph that has gone stale.
\* (An adopted graph is served unchecked by expand, and a given one was never
\* scanned; a file that gets a former content back defeats the check.)
FreshAsOfCall ==
    call.pc = "answer" /\ call.asked # NoRoot =>
        /\ Own.identity = call.asked
        /\ Own.graph \in Scan =>
              \A f \in File : /\ call.began[call.asked][f] <= Own.graph.functions[f]
                              /\ call.began[call.asked][f] <= Own.graph.imports[f]

\* A graph that is behind the files never goes with a signature that matches them.
StaleIsNoticed ==
    \A s \in Session :
        sessions[s].graph \in Scan /\ sessions[s].signature = sources[sessions[s].identity] =>
            /\ sessions[s].graph.functions = sources[sessions[s].identity]
            /\ sessions[s].graph.imports = sources[sessions[s].identity]

\* A call in which nothing was edited answers with labels that are those of its
\* graph, also when an earlier call was overtaken by edits and labelled its graph wrong.
QuietCallIsLabelled ==
    /\ call.pc = "answer"
    /\ call.asked # NoRoot
    /\ Own.graph \in Scan
    /\ call.began[call.asked] = sources[call.asked]
    => Own.signature = Own.graph.functions /\ Own.digest = <<Own.signature, Own.signature>>

\* Every call ends, whatever is edited meanwhile.
CallEnds == call # Idle ~> call = Idle

\* Doc (notes/graph_replay.md, Identity): "`sourceSignature`: what source contents IC
\* scanned".
SignatureIsOfScan ==
    \A s \in Session : sessions[s].graph \in Scan =>
        sessions[s].signature = sessions[s].graph.functions

\* Doc (notes/graph_replay.md, Trace isolation): "Parallel attempts must use separate
\* runtime/session objects. Graph state is not process-global."
GraphsAreOwn ==
    \A s \in Session \ {Default} : sessions[s].graph \in Scan => sessions[s].graph.by = s
====
