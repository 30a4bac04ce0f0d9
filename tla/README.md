# Verification of iterative-context

TLA+ specifications of iterative-context, the code graph server in
`src/iterative_context/` (paths below are relative to that directory), the TLC
models that check them on small instances, and TLAPS proofs that hold for every
instance.

## The system

A tool runtime (`server.py`) answers `resolve`, `expand`, `resolve_and_expand`,
`install_policy`, `verify_policy`, `describe_policy` and `collect_graph_trace`.
It owns a graph session, an installed policy, a replay recorder and call
histories.

| Component | State | Operations | Interaction | Correct when |
|---|---|---|---|---|
| Replay recorder (`graph_replay.py`) | event log, mirror of known nodes and edges, sticky visible ids, iteration number, summary | observe anchor decision, frontier decision, expansion; note expand call; annotate; reset; collect | observer of the traversal; called by every tool | the log can be replayed to the mirror, is never rewritten, shows at most `max_visible_pending` candidates, and its counts agree with it |
| Lookahead traversal (`traversal.py`, `expansion.py`, `selection_policy.py`) | a working copy of a ball of the graph | one step: rank, report, expand, report, apply | calls the policy for every candidate; reports to the recorder | it ends, and trace and working copy agree, also when the policy raises |
| Graph session (`graph_session.py`) | root, identity, graph, store, two signatures | `ensure_loaded`, `set_graph`, `copy_loaded_state_from`, `reset`, `expand` | reads the files others edit | no answer is older than the call, labels are the graph's |
| Default session (`exploration.py`) | one `GraphSession` per process | `ensure_graph_loaded`, `_set_active_graph`, `_clear_active_graph` | runtimes without a root adopt its graph | one root is not taken for another |
| Repository ingest (`injest/`, `normalize.py`, `path_ids.py`) | none | `ingest_repo`, `raw_tree_to_graph` | reads each file twice | the graph is of what was read; a node's attributes fit its id whatever mentions it first, also where files are links |
| Policy install (`server.py`) and validation (`validate_policy.py`) | the installed policy, Python's bytecode cache | install, verify, clear; the validator's stages | server and validator are two processes on one file and one cache | a policy that verifies is the one that was digested |
| Call histories and labels (`server.py`) | counts per query and node; labels of a payload | note, clear; collect | every tool call; a client decides from them what to repeat | advice follows the calls that were asked for; labels are right for every entry, for a client that collects around changes |
| Anchor candidates and store (`store.py`, `fuzzy_rank.py`) | indexes built with the graph, then immutable | `collect_anchor_candidates`, `resolve`, `get_neighborhood` | input of the resolve policy | each match once, best match first, definitions before references |
| Anchor contract (`anchor_policy.py`) | none | checks of a decision | between policy and recorder | an anchor is selected exactly in a resolved decision |
| Serialization, scoring, models, test helpers | none | pure conversions | | |

What is hard here is not concurrency inside a process: tool calls are handlers
without an `await`, so one runs at a time. It is what happens *around* them:
files edited between any two reads of a load; a policy file rewritten between
its execution and its hash; a policy that raises in the middle of a traversal;
a recorder that outlives calls, while every traversal starts from a fresh copy
of the graph; sessions that share a graph; clears and reloads between calls.
`PROJECT.json` lists these hazards at their lines.

## Modules

| Module | Models | Uses |
|---|---|---|
| `ReplayRecorder` | `GraphReplayRecorder`, one action per method | |
| `Lookahead` | one runtime's calls: `GraphSession.expand`, `run_traversal`, `expand_node`, `apply_events`, with the recorder's actions as their observers | extends `ReplayRecorder`, implements `GraphReplay` |
| `GraphEvents` | `apply_events` on event objects and, by `to_graph_event`, on dicts; which entries of a log the event models accept | |
| `GraphReplay` | the abstract specification of a trace, without log or bookkeeping | extends `GraphEvents` |
| `GraphSession` | sessions, the default session and adoption, against edits of the files | |
| `PolicyRuntime` | policy install, verify and validation, against rewrites of the policy file | |
| `ToolRuntime` | the tool runtime around its parts: the order of calls, the call histories, the labels of a collected trace | |
| `RepoGraph` | from the files of a repository to its graph: `ingest_repo`, node ids, `raw_tree_to_graph` | |
| `GraphStore` | the store of a graph: anchor candidates, `resolve`, neighbourhoods | extends `RepoGraph` |
| `MCReplayRecorder`, `MCLookahead`, `MCToolRuntime`, `MCGraphStore` | instances for TLC | extend the module named |
| `ReplayRecorderProofs`, `GraphSessionProofs`, `ToolRuntimeProofs`, `PolicyRuntimeProofs`, `GraphStoreProofs` | theorems about the module named | extend the module named |
| `LookaheadProofs` | theorems about `Lookahead` | extends `Lookahead` and `ReplayRecorderProofs` |
| `ReplayRefinementProofs` | that `Lookahead` implements `GraphReplay` | extends `LookaheadProofs` |
| `InductionLemmas` | induction for the proofs that need one | |

`Lookahead`, `GraphSession`, `PolicyRuntime` and `ToolRuntime` are four cuts through
one program, each with the rest of it reduced to what its own properties can
tell apart: `ToolRuntime` has a load that takes no time and a trace entry per
call, where `GraphSession` has the reads of a load and `Lookahead` the events of a
step.

### ReplayRecorder

`trace` holds `_events`, `_known_nodes` (states only), `_known_edges` and
`_visible_pending_ids`; `iteration`, `summary` and `reply` (what the last call
returned or raised) are the rest. A method is one action. Runs of `updateNode`
events that give many nodes the same state are one log entry with a set of
nodes. Candidate lists are sets with a rank, and decisions come from constant
sets, which TLC gets as a few telling cases and the proofs leave arbitrary.
`AddNodes`, `AddEdges` and `UpdateNodes` are the three methods that write the
log and the mirror together; everything else is composed of them.
`VisibleFrontier` is the set of candidates `_bounded_frontier_candidates`
returns, and `ShownCount` the length of the list, in which an id can occur
twice.

### Lookahead

`session` is the session's graph, `call` the running expand call with its
working copy, or what the last one returned: `Returned` is the second search of
`expand`, of the grown copy. One step of `run_traversal` is two actions, `Rank` (up to the
report of the decision) and `ExpandSelected`, because the policy's code runs
between them and the next. The policy is arbitrary: every ranking of the
frontier, and `PolicyRaises` at every step. `Reload` and `ResetRuntime` change
the session's graph between calls.

### GraphSession

`sources` is the environment: a version per file, one of which stands for a
missing file, edited by `Edit` between any two steps. `sessions` are the
`GraphSession` objects, `call` the running call. A load lists the files, hashes
them in path order (`SignFile`), compares (`Keep`, `BeginScan`), reads each
file's functions and, by a second read, its imports (`ScanFunctions`,
`ScanImports`, in any order, as directory order is), and commits graph and
signature. `Begin(s, 2)` is a resolve, which readies its session twice,
`Begin(s, 1)` an expand. `Give` is a caller that sets a graph of its own, with
or without a signature.

### PolicyRuntime

`file` is the policy file, whose content is a version and a kind (good, faulty,
fenced, CRLF, absent) and whose stamp is the modification time and size Python
compares; `cache` is the bytecode. `task` says where the server and the
validator are: the text is read, the file is stat'ed, the source is read and
cached, the file is hashed. `wanted` is the content the caller digested and
`verdict` what it was told. The harness digests the file before it installs,
and does not verify after an install that failed. The import machinery is
Python's and is modelled from `_load_policy_module`'s use of it. The validator's
two calls of `resolve` (before and after the install) do not change the verdict
and are left out.

### GraphEvents and GraphReplay

`GraphReplay` says what `notes/graph_replay.md` promises of a trace. Its state is
`view`, a graph, and `payload`, the graphs the last collected payload can be read
as. A resolve shows at most `Limit` new candidates, a lookahead step at most
`Limit` with an edge each, an expansion settles one node and shows what it led
to; a collect delivers the view. There is no log, no mirror, no sticky set and
no traversal.

`GraphEvents` is the code's event semantics. `apply_events` takes event objects,
which the traversal passes it, and dicts, which it first converts by
`to_graph_event`. That conversion is for the `EventSpec` of the test DSL, where an
`addNodes` lists ids. The events of a collected payload are dicts too, but of
another form: a node is itself a dict with its own state, and no `PendingNode`
has that for an id, so `to_graph_event` raises on every one that adds a node. A
reader of a payload has to parse its entries by the models of `graph_models.py`
first, which accept what `IsGraphEvent` says: all but the notes of a policy, and
nodes added as resolved, which would come without evidence. The repository has
no such reader; `Parsed` and `Unparsed` say what the two ways give. Kinds of
edges are assumed to be those a `GraphEdge` may have.

`Lookahead` implements `GraphReplay` (`ImplementsReplay`). Under the refinement
mapping `view` is the recorder's mirror, and `payload` is what the returned events
are read as: the graph of `Parsed`, which must be exactly the view, and that of
`Unparsed`, which is none unless the view is empty. So a step of the
implementation that delivers is a step of `Deliver` only if every entry of the
log has a model and the log, applied from the start by the code's own event
semantics, gives exactly the graph the recorder has been keeping beside it.
`GraphReplay` is a statement about the code and not a translation of a part of
it, so its actions are not mapped to lines.

### ToolRuntime

`files` is the version of the repository and changes between any two steps;
`policy`, `graph`, `histories` and `recorder` are the runtime's fields. A resolve
is two actions, `Resolve` (first readying of the graph, query noted) and `Decide`
or `DecisionFails` (second readying, candidates, policy, record), because files
change between them and either half can raise. An expand notes the call before
it runs, and `Outcomes` are the ways it can end. `asked` and `mixed` are history
variables: the expansions asked for, and whether a label changed under a
recorded entry.

### RepoGraph and GraphStore

A repository is what llm-tldr extracts of each file: functions, calls, imports.
Strings are their places in the order of strings, and an id is its prefix and
parts in the order it spells them. Ids are compared part by part, which is how
their strings compare unless one part is the beginning of another (`foo1@a` comes
before `foo@a`); no property depends on such a pair.

A path may be a link: `Target` says where it leads. `ingest_repo` lists and reads a
file under its own path, but `repo_relative_path` resolves the path when an id is
made of it. So a link and its file share ids; a function or an importing file is
indexed under the listed path that is mentioned first, and a reference under the
path in its id (`Fitting`). For a link out of the root no id can be made: the
`ValueError` is outside the `try` that passes over unreadable files, and the whole
load fails (`Escapes`, `LoadFails`), unless the file has nothing an id is made for.
The loads of `GraphSession` and `ToolRuntime` leave this failure out.

`RawTree`, `DefinedNodes`, `Ends` and `GraphOf` are the passes of the code, with
their orders, by folds over sequences. In `GraphStore` a behaviour loads one
repository, or fails to, and asks one query, as no query changes what a later one depends on;
`get_neighborhood` is a step per turn of its loop. `CollectAnchorCandidates`
follows the code's three passes; `CandidatesAreBest` compares it with a reference
definition without passes (each matching node at the best of its places), and
`Found` is compared with what a policy would have been offered.

## Runs

| Run | Bounds | Shows |
|---|---|---|
| `recorder` | 3 nodes, limit 2, logs of up to 7 entries and the call that passes it | types and the six properties of the log |
| `lookahead` | 3 roots with 3 generations of children, 3 session graphs, depths 0 to 2, limit 2, 2 expand calls, 8 entries | limit, edges, agreement of trace, traversal and answer, termination; the refinement of `GraphReplay` |
| `session` | 1 root, 2 files of 3 versions, one created late, one that may be deleted, 2 sessions | freshness and labels |
| `two_roots` | 2 roots, 1 file of 3 versions each, 2 sessions | freshness across roots; every load ends |
| `policy` | 3 contents, 4 kinds, 2 processes, 2 policy ids | verified code is the digested code; a quiet validation is right; calls end |
| `runtime` | 2 policies, 2 nodes of which one appears with the second version of the files, 1 query, depths 0 to 2, 3 evaluator calls between clears | histories, counts, labels and answers agree |
| `store` | 225 repositories of 1 to 3 of 5 paths, two of them links to others and one a link out of the root, that share 7 names, one with a ring of calls, 7 queries, limits 2 and 8, radii -1 to 4 | graph, candidates, lookup and neighbourhood agree with reference definitions |
| `pending_bound` | as `lookahead` | more than `maxVisiblePending` pending nodes in the trace |
| `signature` | as `session` | a signature of contents that were not scanned |
| `shared_graph` | as `two_roots` | a graph shared between sessions |
| `policy_stamp` | 2 good contents, equal stamps allowed | stale bytecode verifies under the new sha |
| `policy_line_ends` | good and CRLF | a good CRLF policy is rejected |

The last five are disagreements between the code and what its notes, README or
tests say; `PROJECT.json` quotes both sides. Three further ones have no run of
their own. A resolved decision whose anchor is not among its candidates marks no
node as anchor (`graph_replay.py:338`), although `notes/graph_replay.md:53` says
the anchor is marked explicitly. A requested candidate that is still visible
takes two places of the limit (`graph_replay.py:524`), although
`notes/graph_replay.md:68` says the remaining slots are filled by rank; no caller
in the repository requests candidates. What is called becomes a node of type
"symbol" (`normalize.py:49`), although `tests/test_llm_tldr_normalization.py:182`
expects a call target that is none of the functions found to be "unknown", "module"
or "function", and line 186 that one of them is "unknown".

**Why the bounds are enough.** The visible limit is reached and passed with
three candidates for two places: hidden, sticky, selected and pruned ones all
occur. Seven log entries hold two decisions and an expansion, so a node can
come back after it was settled, and after a clear. Two expand calls of depth 2
let a second traversal meet nodes the first one settled, and give each call a
step after its first; a child id that already exists is one of the graphs. A
file of three versions can change between two loads and again during the
second. Three evaluator calls allow an expansion, a repetition of it and a deeper
or shallower one after it, on either side of a clear, an install and a change
of the files; the node that appears late makes an expansion raise and then
succeed. The repositories of the store contain every pair of eight files, with
unreadable and empty ones, links listed before their file, after it and without
it, a link out of the root beside every other file, a name that is defined in both files, called in one
and imported in the other, methods as callers and parallel edges; the ring has
a node that is met on ways of two lengths from one start, and a limit of 2 cuts
every source of candidates. Three policy contents allow a successful install, a rewrite during it,
and a failing or mixed one after it. Bounds are constants (`MaxEvents`,
`MaxExpandCalls`, `MaxCalls`, `LastVersion`, `Generations`) and appear in guards.

**Mutations.** An operator whose comment begins with "A slip in" is the definition
that follows it with a plausible mistake. No specification uses it;
`PROJECT.json` names for every property one that makes TLC find it violated, so
that each property is known to depend on the code it is about.

**Deadlock** is checked in every run but `store`, where a behaviour is one query
and ends with its answer.

**Fairness.** Liveness assumes weak fairness of the steps of a running call
only: a call runs on the thread that made it, or in its own process. Nothing is
assumed of callers, editors or policies; edits are finite because versions are,
which is needed only to bound the model: the properties `CallEnds`, `CallsEnd` and
`CallReturns` do not wait for an edit to happen.

**Reverts.** `session` and `two_roots` run with `Reverts = FALSE`: a file does not
get a former content back. With it, the comparison of signatures can be
defeated, as the source's own hash comparison can; this is listed as a hazard.

## Proofs

All theorems hold for every value of the constants under the modules' named
assumptions and, where one is stated, the theorem's own hypothesis. Every
invariant a passing run checks has one, as have the action properties of the
recorder and the refinement.

`ReplayRecorderProofs`, from `ConstantsAssumption` (finite candidate sets with
distinct ranks, an anchor selected exactly in resolved decisions):

- `TypeCorrect`: `TypeOK`.
- `KnownMatchesLogAlways`, `LogIsReplayableAlways`, `VisibleArePendingAlways`. None is
  inductive by itself: that a node is not added twice follows from the mirror
  only if the mirror holds exactly what the log added. The inductive invariant
  `Consistent(trace)` is their conjunction with that fact for nodes and for
  edges. `Follows` says that a trace is another one with one more entry which
  the mirror has followed, and such a step keeps `Consistent`; each writer
  (`AddNodes`, `AddEdges`, `UpdateNodes`, an entry that speaks of no node) is
  such a step or none, and a decision or expansion is a chain of them.
- `NeverBackToPendingAlways` and `LogKeptAlways`, action properties, from lemmas
  that each writer only appends and only moves nodes forward.
- `CountersMatchLogAlways`: the iterations are numbered without gap.

`GraphSessionProofs`, from `SessionAssumption`:

- `TypeCorrect`: `TypeOK`, with any edits.
- `AnswersAreFresh`, `StaleIsAlwaysNoticed`, `QuietCallsAreLabelled`, when files
  do not get former contents back (`~Reverts`). The inductive invariant `Sound`
  has a part for each phase of a call: what the call saw when it began is not
  newer than the files (`BeganBefore`); what was hashed of a file lies between
  the contents when the call began and now (`SignSound`); what was scanned of a
  file is no older than what was hashed of it (`ScanSound`, with `HalfSound` for
  the file between its two reads); a session's graph is no older than its
  signature and no newer than the files (`SessionSound`); and the session a
  checked call answers from has a signature no older than the call
  (`AnswerSound`). The heart of it is the order in `ensure_loaded`: hash first,
  then scan. A signature that equals the files leaves no room between them.

`ToolRuntimeProofs`, from `RuntimeAssumption`:

- `TypeCorrect` and `NothingWithoutPolicyAlways`, together inductive: that an entry
  of the trace names a policy rests on a call running only while one is installed.
- `LabelsAreOfTraceAlways`: each call makes the graph current before it records, so
  the labels of the moment are those of the entry; a change of label under an entry
  sets `mixed`.
- `AnswerIsOfDecidedGraphAlways`: candidates, record and answer of a resolve use the
  second readying, whatever the first one saw.
- `AdviceFollowsCallsAlways`, with `HistoriesFollowCalls` added to the invariant: the
  history of a node is the count and the greatest depth of the expansions in `asked`.
  The three kinds of advice exclude each other only because a node has a depth
  exactly when it was counted, which is part of `TypeOK`.

- `RecorderWithinHistoriesAlways`. The inductive part, `QueryNotedFirst`, says
  that the resolves recorded are no more than the queries counted, and fewer while a
  resolve is between its halves. The count is a sum over a
  dictionary; lemmas say what one more query does to it.

`PolicyRuntimeProofs`, from `PolicyAssumption`:

- `TypeCorrect`: `TypeOK`, with the fact that what is about to be installed was
  loaded without fault.
- `VerifiedRunsWhatWasReadAlways`, when contents do not share a stamp
  (`~SameStamp`). In `Sound`, a cache entry with the file's stamp is of the file's
  content (`CacheIsOfStamp`), and the digest was made before the code was read and the
  code before the sha (`ReadInOrder`), so that two digests that agree leave no room
  for another content between them. Without the hypothesis the statement is false, as `policy_stamp` shows.
- `QuietValidationIsRightAlways`, when besides no content has CRLF line ends, which
  `policy_line_ends` shows to be needed.

`InductionLemmas` has the inductions of the two largest groups below. The library
states induction for an operator that stands for the predicate; here the
predicate is the set of the numbers that have it, so that the lemmas are first
order and can be cited.

`LookaheadProofs`, from `LookaheadAssumption` and `ConstantsAssumption`:

- `LookaheadTypeCorrect`: `LookaheadTypeOK`, with `Selected`: what is about to be
  expanded is pending in the working copy.
- `EdgesAfterNodesAlways` and `PendingBeforeResolvedAlways`, from `Recorded`: the
  trace is one of `Placed`, the consistent traces in which edges come after their
  nodes and nodes are added as pending, and the selected node is in it (`Chosen`).
  A call of the recorder is a chain of entries, of which only the one that
  resolves a node needs a second look: a set of traces that is closed under all
  others and under the choice of sticky ids (`PlainClosed`) is kept by every such
  chain, which the `Stays` lemmas say once for each call. The recorder alone does
  not have these properties: they need the traversal to expand only what it
  selected.
- `EveryDecisionExpandedAlways`, with `StepsInLog` for the step that is under way.
- `VisibleWithinLimitAlways`. What is inductive is `FewSticky`: the sticky ids other
  than the one about to be resolved leave room for one. The rest is counting.
- `TraceFollowsTraversalAlways`: what the call has resolved or added in its working copy
  the trace has too, which rests on the trace having no way back to pending.
- `AnswerIsNeighbourhoodAlways`. Under `WorkingGraphGrows` the working copy is the
  ball the call began with and children of resolved nodes; two inductions over
  the radius (`BallKept`, `ParentReached`) say that the second search of such a copy
  is the neighbourhood asked for.

`ReplayRefinementProofs`, from the same assumptions:

- `ReplayImplemented`: `ImplementsReplay`, that is, all of `GraphReplay` with
  payloads, read both ways. `apply_events` is a function that recurs over the log: its values exist
  (`RunExists`), agree for a log and its beginnings (`RunsAgree`), and one more entry
  is one more step (`ApplyOneMore`). That the entries all have a model and rebuild
  the mirror, and that the dicts are refused once a node was added (`DictFollows`),
  is then closed under the recorder's writers like the properties above. Each action is mapped
  to one of `Decide`, `Step`, `Expand`, `Deliver`, `Drop`, or to a stutter.

`GraphStoreProofs`, from `RepoGraphAssumption` and `GraphStoreAssumption`:

- `AttributesFollowIdsAlways` and `ReferencesAreLeavesAlways`. The passes are folds
  over sequences that a sort makes of sets. Taking places in a strict total order
  lists a set once (`ListedByPlace`), a fold is reasoned about by a function on the
  places whose existence is shown (`FoldExists`, `FoldSteps`), and `Registries` and
  `Shaped` are what each pass keeps, whatever mentioned a node first: nodes with
  attributes that fit their ids (`Fits`), for the paths of any repository that does
  not escape.
- `NeighborhoodIsBallAlways`. `Searching` is the loop invariant of the search: the
  queue is in order of distance and spans two distances at most, an entry's
  distance is its node's, and a visited node that is not queued has its
  neighbours visited.
- `CandidatesAreBestAlways`. Each source lists its matches by their places
  (`ListsBy`); adding the unseen of a source after those of the sources before it
  keeps the order of the best places (`SourceAdded`), and a rank is the number of
  places up to it (`PlacesAreCounted`).
- `DefinitionComesFirstAlways` and `FoundIsOfferedAlways`. The lookup accepts a ranked
  symbol exactly if it leads the others by the gap (`WinnersLead`), and so it is
  the first of the candidates; a file it finds is among them unless the limit cuts
  it. The invariant `AnswersFollow` states an answer in terms of the graph, which
  no query changes.
- `StoreTypeCorrect`: `TypeOK`.

Only model-checked are the liveness properties `CallReturns`, `CallEnds` and
`CallsEnd`: they need fairness and with it `ENABLED`, which is out of the prover's
reach. The properties of the runs that expect a violation are refuted by TLC and have
no theorem.

## Not modelled

Payload detail of events and responses, tool schemas and argument parsing, MCP
transport, serialization, scoring functions (the traversal is checked under
every order they could give), what llm-tldr extracts from a file and rapidfuzz
scores (both arbitrary here), upper and lower case in file queries, git
metadata, the conversion of a policy's dictionaries to a decision, and test
helpers other than `apply_events`, which the traversal uses, and `to_graph_event`. `PROJECT.json` gives
the reason for each part.

## Plan

Done, in order of importance:

1. `ReplayRecorder` with its proofs.
2. `Lookahead`, composing the recorder with the traversal, with its proofs.
3. `GraphSession` with its proofs.
4. `PolicyRuntime` with its proofs.
5. `ToolRuntime`: call histories and labels, with its proofs.
6. `GraphReplay`, an abstract trace, its refinement by `Lookahead` and the proof of it.
7. `RepoGraph` and `GraphStore` with their proofs.

An abstract cache that answers from some moment within the call was planned for
`GraphSession`, but would only restate `FreshAsOfCall`.

Left:

1. Action properties beyond the recorder's, such as what a failed install may
   never change, each first as a property of a run.
2. The validator's two calls of `resolve`, as steps of `PolicyRuntime`.
