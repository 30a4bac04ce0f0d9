---- MODULE PolicyRuntime ----
(***************************************************************************)
(* Installing and verifying a behavior policy: the runtime of server.py    *)
(* that serves evaluators, and the validator (validate_policy.py), another *)
(* process with a runtime of its own, that checks a policy before it is    *)
(* installed.  Both run the same policy file, which its author rewrites    *)
(* between any two reads.                                                  *)
(*                                                                         *)
(* A load stats the file, takes the bytecode that Python cached under that *)
(* modification time and size, or reads and caches the source; an install  *)
(* then reads the file once more for its sha256.  A digest is the content  *)
(* it is of.                                                               *)
(***************************************************************************)
EXTENDS Naturals

CONSTANTS
    Kinds,        \* the kinds of content the author may write
    LastVersion,  \* bound on the number of contents written
    SameStamp,    \* whether a rewrite may keep modification time (whole seconds) and size
    NoPolicy

VARIABLES
    file,       \* the policy file
    cache,      \* its bytecode in __pycache__
    installed,  \* _installed_policy of either runtime
    task,       \* what either process is doing
    wanted,     \* the content the harness, or the validator, digested before it installs
    verdict     \* what it was told last

vars == <<file, cache, installed, task, wanted, verdict>>

Process == {"server", "validator"}
PolicyId == {"mine", "theirs"}  \* the harness's policy, and another client's

\* "good" loads and passes every check; "faulty" raises when run or lacks a callable;
\* "fenced" loads but is refused as text; "crlf" is good with other line ends; and the
\* file may be absent.
Kind == {"good", "faulty", "fenced", "crlf", "absent"}
Content == [version: Nat, kind: Kind]

ASSUME PolicyAssumption ==
    /\ Kinds \subseteq Kind
    /\ LastVersion \in Nat
    /\ SameStamp \in BOOLEAN
    /\ NoPolicy \notin [id: PolicyId, code: Content, sha: Content]

Idle == [pc |-> "idle"]

\* A good policy to start with, whose bytecode is not cached.
Init ==
    /\ file = [content |-> [version |-> 1, kind |-> "good"], stamp |-> 1]
    /\ cache = [content |-> file.content, stamp |-> 0]
    /\ installed = [p \in Process |-> NoPolicy]
    /\ task = [p \in Process |-> Idle]
    /\ wanted = [p \in Process |-> file.content]
    /\ verdict = [p \in Process |-> "none"]

Become(p, next) == task' = [task EXCEPT ![p] = next]
Tell(p, word) == verdict' = [verdict EXCEPT ![p] = word]

----
Rewrite(kind) ==
    /\ file.content.version < LastVersion
    /\ \E stamp \in {file.stamp + 1} \union (IF SameStamp THEN {file.stamp} ELSE {}) :
          file' = [content |-> [version |-> file.content.version + 1, kind |-> kind],
                   stamp |-> stamp]
    /\ UNCHANGED <<cache, installed, task, wanted, verdict>>

Loading(goal, id) == [pc |-> "stat", goal |-> goal, id |-> id]

\* install_policy is called: by the harness, which has digested the file, or another client.
Install(id) ==
    /\ task["server"] = Idle
    /\ Become("server", Loading("install", id))
    /\ IF id = "mine" THEN wanted' = [wanted EXCEPT !["server"] = file.content] /\ Tell("server", "none")
       ELSE UNCHANGED <<wanted, verdict>>
    /\ UNCHANGED <<file, cache, installed>>

\* The validator is started, and makes its runtime.
Validate ==
    /\ task["validator"] = Idle
    /\ Become("validator", [pc |-> "text"])
    /\ installed' = [installed EXCEPT !["validator"] = NoPolicy]
    /\ Tell("validator", "none")
    /\ UNCHANGED <<file, cache, wanted>>

\* An error is told to the caller: the harness does not hear of another client's.
Refuse(p) ==
    /\ Become(p, Idle)
    /\ IF p = "server" /\ task[p].id = "theirs" THEN UNCHANGED verdict ELSE Tell(p, "refused")

\* A slip in validate_policy_async: the text is not checked.
ReadTextUnchecked ==
    /\ task["validator"].pc = "text"
    /\ wanted' = [wanted EXCEPT !["validator"] = file.content]
    /\ IF file.content.kind = "absent" THEN Refuse("validator")
       ELSE Become("validator", Loading("resolve", "mine")) /\ UNCHANGED verdict
    /\ UNCHANGED <<file, cache, installed>>

\* The validator reads the text, which must be there, not empty and without fences.
ReadText ==
    /\ task["validator"].pc = "text"
    /\ wanted' = [wanted EXCEPT !["validator"] = file.content]
    /\ IF file.content.kind \in {"absent", "fenced"} THEN Refuse("validator")
       ELSE Become("validator", Loading("resolve", "mine")) /\ UNCHANGED verdict
    /\ UNCHANGED <<file, cache, installed>>

\* A slip in _load_policy_module: what a module raises is swallowed.
RanUnchecked(p, code) ==
    /\ Become(p, CASE task[p].goal = "resolve" -> Loading("lookahead", task[p].id)
                   [] task[p].goal = "lookahead" -> Loading("install", task[p].id)
                   [] task[p].goal = "install" -> [pc |-> "hash", id |-> task[p].id, code |-> code])
    /\ UNCHANGED verdict

\* The module was run and its callables looked for.  The validator loads it for
\* each callable first and then installs it.
Ran(p, code) ==
    IF code.kind = "faulty" THEN Refuse(p)
    ELSE /\ Become(p, CASE task[p].goal = "resolve" -> Loading("lookahead", task[p].id)
                        [] task[p].goal = "lookahead" -> Loading("install", task[p].id)
                        [] task[p].goal = "install" -> [pc |-> "hash", id |-> task[p].id, code |-> code])
         /\ UNCHANGED verdict

\* exec_module begins: cached bytecode of the file's stamp is run in place of the source.
Stat(p) ==
    /\ task[p].pc = "stat"
    /\ CASE file.content.kind = "absent" -> Refuse(p)
         [] file.content.kind # "absent" /\ cache.stamp = file.stamp -> Ran(p, cache.content)
         [] OTHER -> /\ Become(p, [pc |-> "source", goal |-> task[p].goal, id |-> task[p].id,
                                   stamp |-> file.stamp])
                     /\ UNCHANGED verdict
    /\ UNCHANGED <<file, cache, installed, wanted>>

\* The source is read, compiled, cached if the directory can be written, and run.
ReadSource(p) ==
    /\ task[p].pc = "source"
    /\ IF file.content.kind = "absent" THEN Refuse(p) /\ UNCHANGED cache
       ELSE /\ cache' \in {cache, [content |-> file.content, stamp |-> task[p].stamp]}
            /\ Ran(p, file.content)
    /\ UNCHANGED <<file, installed, wanted>>

\* A slip in _install_policy: the server waits for a file that has gone.
HashWaits(p) ==
    /\ task[p].pc = "hash"
    /\ p = "server" => file.content.kind # "absent"
    /\ IF file.content.kind = "absent" THEN Refuse(p) /\ UNCHANGED installed
       ELSE /\ installed' = [installed EXCEPT
                  ![p] = [id |-> task[p].id, code |-> task[p].code, sha |-> file.content]]
            /\ Become(p, IF p = "validator" THEN [pc |-> "verify"] ELSE Idle)
            /\ Tell(p, "none")
    /\ UNCHANGED <<file, cache, wanted>>

\* The file is read for its sha, and the policy replaced.
Hash(p) ==
    /\ task[p].pc = "hash"
    /\ IF file.content.kind = "absent" THEN Refuse(p) /\ UNCHANGED installed
       ELSE /\ installed' = [installed EXCEPT
                  ![p] = [id |-> task[p].id, code |-> task[p].code, sha |-> file.content]]
            /\ Become(p, IF p = "validator" THEN [pc |-> "verify"] ELSE Idle)
            /\ Tell(p, "none")
    /\ UNCHANGED <<file, cache, wanted>>

\* The digest a process expects of the content it read.  The validator reads it as
\* text: other line ends are gone, and the digest is of no content of the file.
Expected(p) ==
    IF p = "validator" /\ wanted[p].kind = "crlf" THEN [wanted[p] EXCEPT !.kind = "good"]
    ELSE wanted[p]

\* A slip in verify_policy: the digest is not compared.
VerifyIdOnly(p) ==
    /\ task[p] = IF p = "validator" THEN [pc |-> "verify"] ELSE Idle
    /\ installed[p] # NoPolicy
    /\ p = "server" => verdict[p] # "refused"
    /\ Become(p, Idle)
    /\ Tell(p, IF installed[p].id = "mine" THEN "ok" ELSE "refused")
    /\ UNCHANGED <<file, cache, installed, wanted>>

\* verify_policy, called with the id and the digest of what was to be installed, by a
\* harness whose install did not fail.
Verify(p) ==
    /\ task[p] = IF p = "validator" THEN [pc |-> "verify"] ELSE Idle
    /\ installed[p] # NoPolicy
    /\ p = "server" => verdict[p] # "refused"
    /\ Become(p, Idle)
    /\ Tell(p, IF installed[p].id = "mine" /\ installed[p].sha = Expected(p) THEN "ok" ELSE "refused")
    /\ UNCHANGED <<file, cache, installed, wanted>>

\* clear_policy_install
Clear ==
    /\ task["server"] = Idle
    /\ installed' = [installed EXCEPT !["server"] = NoPolicy]
    /\ Tell("server", "none")
    /\ UNCHANGED <<file, cache, task, wanted>>

Steps(p) ==
    \/ Stat(p) \/ ReadSource(p) \/ Hash(p)
    \/ p = "validator" /\ (ReadText \/ Verify(p))

Next ==
    \/ \E kind \in Kinds : Rewrite(kind)
    \/ \E id \in PolicyId : Install(id)
    \/ Validate
    \/ \E p \in Process : Steps(p)
    \/ Verify("server")
    \/ Clear

\* Either process runs a call to its end.
Spec == Init /\ [][Next]_vars /\ \A p \in Process : WF_vars(Steps(p))

----
(* Properties.                                                             *)

Installed == [id: PolicyId, code: Content, sha: Content]

Task ==
    {Idle} \union [pc: {"text", "verify"}]
    \union [pc: {"stat"}, goal: {"resolve", "lookahead", "install"}, id: PolicyId]
    \union [pc: {"source"}, goal: {"resolve", "lookahead", "install"}, id: PolicyId, stamp: Nat]
    \union [pc: {"hash"}, id: PolicyId, code: Content]

\* A policy that runs, or is about to, was loaded without fault; the validator's
\* steps are its own.
TypeOK ==
    /\ file \in [content: Content, stamp: Nat]
    /\ cache \in [content: Content, stamp: Nat]
    /\ installed \in [Process -> Installed \union {NoPolicy}]
    /\ task \in [Process -> Task]
    /\ wanted \in [Process -> Content]
    /\ verdict \in [Process -> {"none", "ok", "refused"}]
    /\ task["server"].pc \notin {"text", "verify"}
    /\ \A p \in Process : installed[p] # NoPolicy => installed[p].code.kind # "faulty"

\* A policy that verifies is the one that was digested: the code the runtime calls is
\* of the content the harness meant, whatever was written while it was installed,
\* and whoever else installed one.
VerifiedRunsWhatWasRead ==
    \A p \in Process : verdict[p] = "ok" => /\ installed[p] # NoPolicy
                                            /\ installed[p].code = wanted[p]

\* When the file is as it was when the validator read it, the verdict is right: a policy
\* is accepted exactly when it is good, also while the server loads and caches others.
QuietValidationIsRight ==
    task["validator"] = Idle /\ verdict["validator"] # "none" /\ file.content = wanted["validator"] =>
        (verdict["validator"] = "ok" <=> wanted["validator"].kind \in {"good", "crlf"})

\* Every install and every validation comes to an end.
CallsEnd == \A p \in Process : task[p] # Idle ~> task[p] = Idle
====
