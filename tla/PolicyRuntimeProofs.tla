---- MODULE PolicyRuntimeProofs ----
(***************************************************************************)
(* Proofs about installing and verifying a policy, for any number of       *)
(* rewrites of its file at any moment.  Both safety properties rest on     *)
(* versions: a content read later is not older, so that two digests that   *)
(* agree leave no room for another content to be loaded between them.      *)
(***************************************************************************)
EXTENDS PolicyRuntime, TLAPS

USE DEF Process, PolicyId, Idle

----
(* Types.                                                                  *)

Goal == {"resolve", "lookahead", "install"}

\* What a task that has loaded a module is about to install was loaded without fault.
LoadedWithoutFault == \A p \in Process : task[p].pc = "hash" => task[p].code.kind # "faulty"

Typed == TypeOK /\ LoadedWithoutFault

LEMMA InitTyped == Init => Typed
  BY PolicyAssumption DEF Init, Typed, TypeOK, LoadedWithoutFault, Content, Kind, Task

\* The tasks, by where they are.
LEMMA TaskKinds ==
    ASSUME NEW t \in Task
    PROVE  /\ t.pc \in {"idle", "text", "verify", "stat", "source", "hash"}
           /\ t.pc = "idle" => t = Idle
           /\ t.pc = "stat" => t.goal \in Goal /\ t.id \in PolicyId
           /\ t.pc = "source" => t.goal \in Goal /\ t.id \in PolicyId /\ t.stamp \in Nat
           /\ t.pc = "hash" => t.id \in PolicyId /\ t.code \in Content
  BY DEF Task, Goal

LEMMA MakesTasks ==
    /\ Idle \in Task /\ [pc |-> "text"] \in Task /\ [pc |-> "verify"] \in Task
    /\ \A goal \in Goal, id \in PolicyId : Loading(goal, id) \in Task
    /\ \A goal \in Goal, id \in PolicyId, stamp \in Nat :
          [pc |-> "source", goal |-> goal, id |-> id, stamp |-> stamp] \in Task
    /\ \A id \in PolicyId, code \in Content : [pc |-> "hash", id |-> id, code |-> code] \in Task
  BY DEF Task, Goal, Loading

\* What running a module does to its task.
LEMMA RanCases ==
    ASSUME NEW p, NEW code, Ran(p, code), task[p].goal \in Goal
    PROVE  \/ code.kind = "faulty" /\ Refuse(p)
           \/ /\ code.kind # "faulty" /\ verdict' = verdict
              /\ \/ /\ task[p].goal = "install"
                    /\ Become(p, [pc |-> "hash", id |-> task[p].id, code |-> code])
                 \/ \E goal \in Goal : Become(p, Loading(goal, task[p].id))
<1>1. CASE code.kind = "faulty"
  BY <1>1 DEF Ran
<1>2. CASE code.kind # "faulty" /\ task[p].goal = "resolve"
  <2>1. Become(p, Loading("lookahead", task[p].id)) /\ verdict' = verdict
    BY <1>2 DEF Ran
  <2> QED
    BY <1>2, <2>1 DEF Goal
<1>3. CASE code.kind # "faulty" /\ task[p].goal = "lookahead"
  <2>1. Become(p, Loading("install", task[p].id)) /\ verdict' = verdict
    BY <1>3 DEF Ran
  <2> QED
    BY <1>3, <2>1 DEF Goal
<1>4. CASE code.kind # "faulty" /\ task[p].goal = "install"
  <2>1. Become(p, [pc |-> "hash", id |-> task[p].id, code |-> code]) /\ verdict' = verdict
    BY <1>4 DEF Ran
  <2> QED
    BY <1>4, <2>1
<1> QED
  BY <1>1, <1>2, <1>3, <1>4 DEF Goal

\* The three ways of exec_module's first half.
LEMMA StatCases ==
    ASSUME NEW p, Stat(p)
    PROVE  /\ task[p].pc = "stat"
           /\ \/ file.content.kind = "absent" /\ Refuse(p)
              \/ /\ file.content.kind # "absent" /\ cache.stamp = file.stamp
                 /\ Ran(p, cache.content)
              \/ /\ Become(p, [pc |-> "source", goal |-> task[p].goal, id |-> task[p].id,
                               stamp |-> file.stamp])
                 /\ verdict' = verdict
           /\ UNCHANGED <<file, cache, installed, wanted>>
<1>1. CASE file.content.kind = "absent"
  <2>1. Refuse(p)
    BY <1>1 DEF Stat
  <2> QED
    BY <1>1, <2>1 DEF Stat
<1>2. CASE file.content.kind # "absent" /\ cache.stamp = file.stamp
  <2>1. Ran(p, cache.content)
    BY <1>2 DEF Stat
  <2> QED
    BY <1>2, <2>1 DEF Stat
<1>3. CASE file.content.kind # "absent" /\ cache.stamp # file.stamp
  <2>1. /\ Become(p, [pc |-> "source", goal |-> task[p].goal, id |-> task[p].id,
                      stamp |-> file.stamp])
        /\ verdict' = verdict
    BY <1>3 DEF Stat
  <2> QED
    BY <2>1 DEF Stat
<1> QED
  BY <1>1, <1>2, <1>3

\* A step of one process leaves the other's task alone.
LEMMA BecomeTyped ==
    ASSUME Typed, NEW p \in Process, NEW next \in Task, Become(p, next),
           next.pc = "hash" => next.code.kind # "faulty",
           p = "server" => next.pc \notin {"text", "verify"}
    PROVE  /\ task' \in [Process -> Task]
           /\ task'[p] = next
           /\ \A q \in Process \ {p} : task'[q] = task[q]
           /\ task'["server"].pc \notin {"text", "verify"}
           /\ LoadedWithoutFault'
<1>1. task \in [Process -> Task]
  BY DEF Typed, TypeOK
<1>2. /\ task' \in [Process -> Task]
      /\ task'[p] = next
      /\ \A q \in Process \ {p} : task'[q] = task[q]
  BY <1>1 DEF Become
<1>3. task'["server"].pc \notin {"text", "verify"}
  BY <1>2 DEF Typed, TypeOK
<1>4. LoadedWithoutFault'
  BY <1>2 DEF Typed, LoadedWithoutFault
<1> QED
  BY <1>2, <1>3, <1>4

LEMMA TellTyped ==
    ASSUME Typed, NEW p \in Process, NEW word \in {"none", "ok", "refused"}, Tell(p, word)
    PROVE  /\ verdict' \in [Process -> {"none", "ok", "refused"}]
           /\ verdict'[p] = word
           /\ \A q \in Process \ {p} : verdict'[q] = verdict[q]
  BY DEF Typed, TypeOK, Tell

LEMMA RefuseTyped ==
    ASSUME Typed, NEW p \in Process, Refuse(p)
    PROVE  /\ task' \in [Process -> Task]
           /\ task'[p] = Idle
           /\ \A q \in Process \ {p} : task'[q] = task[q]
           /\ task'["server"].pc \notin {"text", "verify"}
           /\ LoadedWithoutFault'
           /\ verdict' \in [Process -> {"none", "ok", "refused"}]
           /\ verdict'[p] = IF p = "server" /\ task[p].id = "theirs" THEN verdict[p] ELSE "refused"
           /\ \A q \in Process \ {p} : verdict'[q] = verdict[q]
<1>1. Become(p, Idle)
  BY DEF Refuse
<1>2. Idle \in Task
  BY DEF Task
<1>3. CASE p = "server" /\ task[p].id = "theirs"
  <2>1. verdict' = verdict
    BY <1>3 DEF Refuse
  <2> QED
    BY <1>1, <1>2, <1>3, <2>1, BecomeTyped DEF Typed, TypeOK
<1>4. CASE ~(p = "server" /\ task[p].id = "theirs")
  <2>1. Tell(p, "refused")
    BY <1>4 DEF Refuse
  <2> QED
    BY <1>1, <1>2, <1>4, <2>1, BecomeTyped, TellTyped
<1> QED
  BY <1>3, <1>4

\* A module was run: what that leaves of the state.
LEMMA RanTyped ==
    ASSUME Typed, NEW p \in Process, NEW code \in Content, Ran(p, code),
           task[p].pc \in {"stat", "source"}
    PROVE  /\ task' \in [Process -> Task]
           /\ \A q \in Process \ {p} : task'[q] = task[q] /\ verdict'[q] = verdict[q]
           /\ task'["server"].pc \notin {"text", "verify"}
           /\ LoadedWithoutFault'
           /\ verdict' \in [Process -> {"none", "ok", "refused"}]
           /\ \/ code.kind = "faulty" /\ Refuse(p)
              \/ /\ verdict' = verdict
                 /\ task'[p].id = task[p].id
                 /\ \/ task'[p].pc = "hash" /\ task'[p].code = code
                    \/ task'[p].pc = "stat"
<1>1. task[p].goal \in Goal /\ task[p].id \in PolicyId
  BY TaskKinds DEF Typed, TypeOK
<1>2. CASE code.kind = "faulty" /\ Refuse(p)
  BY <1>2, RefuseTyped
<1>3. ASSUME code.kind # "faulty", verdict' = verdict,
             Become(p, [pc |-> "hash", id |-> task[p].id, code |-> code])
      PROVE  /\ task' \in [Process -> Task]
             /\ \A q \in Process \ {p} : task'[q] = task[q] /\ verdict'[q] = verdict[q]
             /\ task'["server"].pc \notin {"text", "verify"}
             /\ LoadedWithoutFault'
             /\ verdict' \in [Process -> {"none", "ok", "refused"}]
             /\ task'[p].id = task[p].id /\ task'[p].pc = "hash" /\ task'[p].code = code
  <2> DEFINE next == [pc |-> "hash", id |-> task[p].id, code |-> code]
  <2>1. next \in Task
    BY <1>1, MakesTasks
  <2>2. next.pc = "hash" /\ next.code = code /\ next.id = task[p].id
    OBVIOUS
  <2> HIDE DEF next
  <2> QED
    BY <1>3, <2>1, <2>2, BecomeTyped DEF next, Typed, TypeOK
<1>4. ASSUME verdict' = verdict, NEW goal \in Goal, Become(p, Loading(goal, task[p].id))
      PROVE  /\ task' \in [Process -> Task]
             /\ \A q \in Process \ {p} : task'[q] = task[q] /\ verdict'[q] = verdict[q]
             /\ task'["server"].pc \notin {"text", "verify"}
             /\ LoadedWithoutFault'
             /\ verdict' \in [Process -> {"none", "ok", "refused"}]
             /\ task'[p].id = task[p].id /\ task'[p].pc = "stat"
  <2>1. Loading(goal, task[p].id) \in Task
    BY <1>1, MakesTasks
  <2>2. Loading(goal, task[p].id).pc = "stat" /\ Loading(goal, task[p].id).id = task[p].id
    BY DEF Loading
  <2> QED
    BY <1>4, <2>1, <2>2, BecomeTyped DEF Typed, TypeOK
<1> QED
  BY <1>1, <1>2, <1>3, <1>4, RanCases

\* What a step of a task leaves of task and verdict, types only.
Moved ==
    /\ task' \in [Process -> Task]
    /\ task'["server"].pc \notin {"text", "verify"}
    /\ LoadedWithoutFault'
    /\ verdict' \in [Process -> {"none", "ok", "refused"}]

LEMMA StatTyped ==
    ASSUME Typed, NEW p \in Process, Stat(p)
    PROVE  Typed'
<1>1. Moved
  <2>1. CASE Refuse(p)
    BY <2>1, RefuseTyped DEF Moved
  <2>2. CASE Ran(p, cache.content)
    BY <2>2, RanTyped, StatCases DEF Moved, Typed, TypeOK
  <2>3. ASSUME Become(p, [pc |-> "source", goal |-> task[p].goal, id |-> task[p].id,
                          stamp |-> file.stamp]),
               verdict' = verdict
        PROVE  Moved
    <3> DEFINE next == [pc |-> "source", goal |-> task[p].goal, id |-> task[p].id,
                        stamp |-> file.stamp]
    <3>1. next \in Task
      BY StatCases, TaskKinds, MakesTasks DEF Typed, TypeOK
    <3>2. next.pc = "source"
      OBVIOUS
    <3> HIDE DEF next
    <3> QED
      BY <2>3, <3>1, <3>2, BecomeTyped DEF Moved, Typed, TypeOK, next
  <2> QED
    BY <2>1, <2>2, <2>3, StatCases
<1> QED
  BY <1>1, StatCases DEF Moved, Typed, TypeOK

LEMMA ReadSourceTyped ==
    ASSUME Typed, NEW p \in Process, ReadSource(p)
    PROVE  Typed'
<1>1. task[p].pc = "source" /\ task[p].stamp \in Nat /\ file.content \in Content
  BY TaskKinds DEF Typed, TypeOK, ReadSource
<1>2. Moved
  <2>1. CASE file.content.kind = "absent"
    BY <2>1, RefuseTyped DEF Moved, ReadSource
  <2>2. CASE file.content.kind # "absent"
    BY <2>2, <1>1, RanTyped DEF Moved, ReadSource
  <2> QED
    BY <2>1, <2>2
<1>3. cache' \in [content: Content, stamp: Nat]
  BY <1>1 DEF ReadSource, Typed, TypeOK
<1> QED
  BY <1>2, <1>3 DEF Moved, Typed, TypeOK, ReadSource

LEMMA HashTyped ==
    ASSUME Typed, NEW p \in Process, Hash(p)
    PROVE  Typed'
<1>1. /\ task[p].pc = "hash" /\ task[p].id \in PolicyId /\ task[p].code \in Content
      /\ task[p].code.kind # "faulty" /\ file.content \in Content
  BY TaskKinds DEF Typed, TypeOK, Hash, LoadedWithoutFault
<1>2. CASE file.content.kind = "absent"
  BY <1>2, RefuseTyped DEF Hash, Typed, TypeOK
<1>3. CASE file.content.kind # "absent"
  <2> DEFINE next == IF p = "validator" THEN [pc |-> "verify"] ELSE Idle
             policy == [id |-> task[p].id, code |-> task[p].code, sha |-> file.content]
  <2>1. next \in Task /\ next.pc \in {"verify", "idle"} /\ (p = "server" => next.pc = "idle")
    BY MakesTasks
  <2>2. policy \in Installed /\ policy.code = task[p].code
    BY <1>1 DEF Installed
  <2>3. installed' = [installed EXCEPT ![p] = policy] /\ Become(p, next) /\ Tell(p, "none")
    BY <1>3 DEF Hash
  <2> HIDE DEF next, policy
  <2>4. /\ installed' \in [Process -> Installed \union {NoPolicy}]
        /\ \A q \in Process : installed'[q] # NoPolicy => installed'[q].code.kind # "faulty"
    BY <1>1, <2>2, <2>3 DEF Typed, TypeOK
  <2>5. Moved
    BY <2>1, <2>3, BecomeTyped, TellTyped DEF Moved
  <2> QED
    BY <2>4, <2>5 DEF Hash, Moved, Typed, TypeOK
<1> QED
  BY <1>2, <1>3

LEMMA StepTyped == Typed /\ [Next]_vars => Typed'
<1> SUFFICES ASSUME Typed, [Next]_vars PROVE Typed'
  OBVIOUS
<1>1. ASSUME NEW kind \in Kinds, Rewrite(kind) PROVE Typed'
  <2>1. kind \in Kind
    BY PolicyAssumption
  <2>2. PICK stamp \in {file.stamp + 1} \union (IF SameStamp THEN {file.stamp} ELSE {}) :
           file' = [content |-> [version |-> file.content.version + 1, kind |-> kind],
                    stamp |-> stamp]
    BY <1>1 DEF Rewrite
  <2>3. stamp \in Nat /\ file.content.version + 1 \in Nat
    BY <2>2 DEF Typed, TypeOK, Content
  <2>4. file' \in [content: Content, stamp: Nat]
    BY <2>1, <2>2, <2>3 DEF Content
  <2> QED
    BY <1>1, <2>4 DEF Rewrite, Typed, TypeOK, LoadedWithoutFault
<1>2. ASSUME NEW id \in PolicyId, Install(id) PROVE Typed'
  <2>1. Loading("install", id) \in Task /\ Loading("install", id).pc = "stat"
    BY MakesTasks DEF Goal, Loading
  <2>2. Become("server", Loading("install", id))
    BY <1>2 DEF Install
  <2>3. /\ task' \in [Process -> Task]
        /\ task'["server"].pc \notin {"text", "verify"}
        /\ LoadedWithoutFault'
    BY <2>1, <2>2, BecomeTyped
  <2>4. wanted' \in [Process -> Content] /\ verdict' \in [Process -> {"none", "ok", "refused"}]
    BY <1>2 DEF Install, Typed, TypeOK, Tell
  <2> QED
    BY <1>2, <2>3, <2>4 DEF Install, Typed, TypeOK
<1>3. CASE Validate
  <2> DEFINE next == [pc |-> "text"]
  <2>1. next \in Task /\ next.pc = "text" /\ Become("validator", next)
    BY <1>3, MakesTasks DEF Validate
  <2> HIDE DEF next
  <2>2. Moved
    BY <1>3, <2>1, BecomeTyped, TellTyped DEF Validate, Moved
  <2>3. /\ installed' \in [Process -> Installed \union {NoPolicy}]
        /\ \A q \in Process : installed'[q] # NoPolicy => installed'[q].code.kind # "faulty"
    BY <1>3 DEF Validate, Typed, TypeOK
  <2> QED
    BY <1>3, <2>2, <2>3 DEF Validate, Moved, Typed, TypeOK
<1>4. ASSUME NEW p \in Process, Stat(p) PROVE Typed'
  BY <1>4, StatTyped
<1>5. ASSUME NEW p \in Process, ReadSource(p) PROVE Typed'
  BY <1>5, ReadSourceTyped
<1>6. ASSUME NEW p \in Process, Hash(p) PROVE Typed'
  BY <1>6, HashTyped
<1>7. CASE ReadText
  <2>1. wanted' \in [Process -> Content]
    BY <1>7 DEF ReadText, Typed, TypeOK
  <2>2. Moved
    <3>1. CASE Refuse("validator")
      BY <3>1, RefuseTyped DEF Moved
    <3>2. CASE Become("validator", Loading("resolve", "mine")) /\ verdict' = verdict
      <4>1. Loading("resolve", "mine") \in Task /\ Loading("resolve", "mine").pc = "stat"
        BY MakesTasks DEF Goal, Loading
      <4> QED
        BY <3>2, <4>1, BecomeTyped DEF Moved, Typed, TypeOK
    <3> QED
      BY <1>7, <3>1, <3>2 DEF ReadText
  <2> QED
    BY <1>7, <2>1, <2>2 DEF ReadText, Moved, Typed, TypeOK
<1>8. ASSUME NEW p \in Process, Verify(p) PROVE Typed'
  <2> DEFINE word == IF installed[p].id = "mine" /\ installed[p].sha = Expected(p)
                     THEN "ok" ELSE "refused"
  <2>1. word \in {"none", "ok", "refused"} /\ Tell(p, word) /\ Become(p, Idle)
    BY <1>8 DEF Verify
  <2> HIDE DEF word
  <2>2. Moved
    BY <2>1, MakesTasks, BecomeTyped, TellTyped DEF Moved
  <2> QED
    BY <1>8, <2>2 DEF Verify, Moved, Typed, TypeOK
<1>9. CASE Clear
  <2>1. verdict' \in [Process -> {"none", "ok", "refused"}]
    BY <1>9, TellTyped DEF Clear
  <2>2. /\ installed' \in [Process -> Installed \union {NoPolicy}]
        /\ \A q \in Process : installed'[q] # NoPolicy => installed'[q].code.kind # "faulty"
    BY <1>9 DEF Clear, Typed, TypeOK
  <2> QED
    BY <1>9, <2>1, <2>2 DEF Clear, Typed, TypeOK, LoadedWithoutFault
<1>10. CASE UNCHANGED vars
  BY <1>10 DEF vars, Typed, TypeOK, LoadedWithoutFault
<1> QED
  BY <1>1, <1>2, <1>3, <1>4, <1>5, <1>6, <1>7, <1>8, <1>9, <1>10 DEF Next, Steps

\* No process ever runs, or is about to install, a module that raised while it was loaded,
\* and the validator's steps are never the server's.
THEOREM TypeCorrect == Spec => []TypeOK
<1>1. Typed => TypeOK
  BY DEF Typed
<1> QED
  BY <1>1, InitTyped, StepTyped, PTL DEF Spec

----
(* Order.  A content is read later only if it is as new or newer, and two  *)
(* contents of one version are one.  This holds as long as every rewrite   *)
(* changes the file's stamp: with SameStamp, bytecode of another content   *)
(* can be run, as the run MCPolicyStamp shows.                             *)

\* The contents that the file, the cache, a digest, a task or a policy holds.
Held ==
    {file.content, cache.content} \union {wanted[p] : p \in Process}
    \union {task[p].code : p \in {q \in Process : task[q].pc = "hash"}}
    \union UNION {{installed[p].code, installed[p].sha} : p \in {q \in Process : installed[q] # NoPolicy}}

\* A version is of one content, and none is newer than the file.
VersionsAgree ==
    /\ \A a, b \in Held : a.version = b.version => a = b
    /\ \A a \in Held : a.version <= file.content.version

\* Bytecode of the file's stamp is of the file's content.
CacheIsOfStamp ==
    /\ cache.stamp <= file.stamp
    /\ cache.stamp = file.stamp => cache.content = file.content
    /\ \A p \in Process : task[p].pc = "source" => task[p].stamp <= file.stamp

\* The task is the install that p's digest was made for.
Meant(p) == task[p].pc \in {"stat", "source", "hash"} /\ task[p].id = "mine"

\* The digest was made before the code was read, and the code before the sha.
ReadInOrder ==
    /\ \A p \in Process : installed[p] # NoPolicy =>
          installed[p].code.version <= installed[p].sha.version
    /\ \A p \in Process : Meant(p) /\ task[p].pc = "hash" =>
          wanted[p].version <= task[p].code.version
    /\ \A p \in Process :
          installed[p] # NoPolicy /\ installed[p].id = "mine" /\ verdict[p] # "refused" /\ ~Meant(p)
              => wanted[p].version <= installed[p].code.version

\* The validator's runtime is its own.
ValidatorAlone ==
    /\ task["validator"].pc \in {"text", "stat", "source", "hash"} => installed["validator"] = NoPolicy
    /\ task["validator"].pc # "idle" => verdict["validator"] = "none"
    /\ task["validator"].pc \in {"stat", "source", "hash"} => task["validator"].id = "mine"
    /\ task["validator"].pc = "verify" =>
          installed["validator"] # NoPolicy /\ installed["validator"].id = "mine"

Sound ==
    /\ Typed /\ VersionsAgree /\ CacheIsOfStamp /\ ReadInOrder /\ ValidatorAlone
    /\ VerifiedRunsWhatWasRead

\* What the validator has passed, and the words it was told, hold of a file that is still
\* as it was when it was read.
LineEndsAreOne ==
    /\ file.content.kind # "crlf"
    /\ wanted["validator"].kind # "crlf"

TextWasChecked ==
    task["validator"].pc \in {"stat", "source", "hash", "verify"}
        => wanted["validator"].kind \notin {"absent", "fenced"}

LEMMA HeldType == Typed => Held \subseteq Content
<1> SUFFICES ASSUME Typed, NEW c \in Held PROVE c \in Content
  OBVIOUS
<1>1. CASE c \in {file.content, cache.content}
  BY <1>1 DEF Typed, TypeOK
<1>2. ASSUME NEW p \in Process, c = wanted[p] PROVE c \in Content
  BY <1>2 DEF Typed, TypeOK
<1>3. ASSUME NEW p \in Process, task[p].pc = "hash", c = task[p].code PROVE c \in Content
  BY <1>3, TaskKinds DEF Typed, TypeOK
<1>4. ASSUME NEW p \in Process, installed[p] # NoPolicy, c \in {installed[p].code, installed[p].sha}
      PROVE  c \in Content
  BY <1>4 DEF Typed, TypeOK, Installed
<1> QED
  BY <1>1, <1>2, <1>3, <1>4 DEF Held

\* Nothing is held after a step that was not held before or read from the file.
Reads ==
    /\ file' = file \/ file'.content.version = file.content.version + 1
    /\ cache'.content \in {cache.content, file.content}
    /\ \A p \in Process :
          /\ wanted'[p] \in {wanted[p], file.content}
          /\ task'[p].pc = "hash" => \/ task'[p] = task[p]
                                    \/ task'[p].code \in {cache.content, file.content}
          /\ installed'[p] # NoPolicy => \/ installed'[p] = installed[p]
                                         \/ /\ task[p].pc = "hash"
                                            /\ installed'[p].code = task[p].code
                                            /\ installed'[p].sha = file.content

LEMMA ReadsKeep ==
    ASSUME Typed, VersionsAgree, Reads
    PROVE  VersionsAgree'
<1>1. ASSUME NEW c \in Held' PROVE c \in Held \/ c = file'.content
  <2>1. CASE c \in {file'.content, cache'.content}
    BY <2>1 DEF Reads, Held
  <2>2. ASSUME NEW p \in Process, c = wanted'[p] PROVE c \in Held
    BY <2>2 DEF Reads, Held
  <2>3. ASSUME NEW p \in Process, task'[p].pc = "hash", c = task'[p].code PROVE c \in Held
    BY <2>3 DEF Reads, Held
  <2>4. ASSUME NEW p \in Process, installed'[p] # NoPolicy,
               c \in {installed'[p].code, installed'[p].sha}
        PROVE  c \in Held
    <3>1. CASE installed'[p] = installed[p]
      BY <2>4, <3>1 DEF Held
    <3>2. CASE /\ task[p].pc = "hash"
               /\ installed'[p].code = task[p].code
               /\ installed'[p].sha = file.content
      BY <2>4, <3>2 DEF Held
    <3> QED
      BY <2>4, <3>1, <3>2 DEF Reads
  <2> QED
    BY <2>1, <2>2, <2>3, <2>4 DEF Held
<1>2. file.content \in Held /\ Held \subseteq Content
  BY HeldType DEF Held
<1>3. CASE file' = file
  BY <1>1, <1>2, <1>3 DEF VersionsAgree
<1>4. CASE file'.content.version = file.content.version + 1
  <2>1. \A a \in Held : a.version \in Nat /\ a.version <= file.content.version
    BY <1>2 DEF VersionsAgree, Content
  <2>2. file.content.version \in Nat
    BY <1>2 DEF Content
  <2>3. \A a \in Held : a.version # file'.content.version /\ a.version <= file'.content.version
    BY <1>4, <2>1, <2>2
  <2>4. \A a \in Held' : a.version <= file'.content.version
    BY <1>1, <1>4, <2>2, <2>3
  <2>5. \A a, b \in Held' : a.version = b.version => a = b
    BY <1>1, <2>3 DEF VersionsAgree
  <2> QED
    BY <2>4, <2>5 DEF VersionsAgree
<1> QED
  BY <1>3, <1>4 DEF Reads

\* Who holds what.
LEMMA HeldAre ==
    /\ file.content \in Held /\ cache.content \in Held
    /\ \A p \in Process :
          /\ wanted[p] \in Held
          /\ task[p].pc = "hash" => task[p].code \in Held
          /\ installed[p] # NoPolicy => installed[p].code \in Held /\ installed[p].sha \in Held
  BY DEF Held

\* What Sound says of versions, each by name.
LEMMA VersionsKnown ==
    ASSUME Typed, VersionsAgree
    PROVE  /\ file.content.version \in Nat /\ cache.content.version \in Nat
           /\ \A p \in Process :
                 /\ wanted[p].version \in Nat
                 /\ wanted[p].version <= file.content.version
                 /\ wanted[p].version = file.content.version => wanted[p] = file.content
                 /\ task[p].pc = "hash" =>
                       /\ task[p].code.version \in Nat
                       /\ task[p].code.version <= file.content.version
                       /\ task[p].code.version = wanted[p].version => task[p].code = wanted[p]
                 /\ installed[p] # NoPolicy =>
                       /\ installed[p].code.version \in Nat /\ installed[p].sha.version \in Nat
                       /\ installed[p].sha.version <= file.content.version
                       /\ installed[p].code.version = wanted[p].version => installed[p].code = wanted[p]
                       /\ installed[p].sha.version = wanted[p].version => installed[p].sha = wanted[p]
<1>1. \A c \in Held : c.version \in Nat /\ c.version <= file.content.version
  BY HeldType DEF VersionsAgree, Content
<1> QED
  BY <1>1, HeldAre DEF VersionsAgree

Rest == CacheIsOfStamp /\ ReadInOrder /\ ValidatorAlone /\ VerifiedRunsWhatWasRead

\* A step of a task that installs nothing: it loads on, has loaded, or is refused.
LEMMA LoadingSound ==
    ASSUME Sound, Typed', NEW p \in Process, Meant(p) \/ p = "server",
           task[p].pc \in {"stat", "source"},
           UNCHANGED <<file, installed, wanted>>,
           cache' = cache \/ (/\ cache'.content = file.content
                              /\ task[p].pc = "source" /\ cache'.stamp = task[p].stamp),
           \A q \in Process \ {p} : task'[q] = task[q] /\ verdict'[q] = verdict[q],
           \/ Refuse(p)
           \/ /\ verdict' = verdict /\ task'[p].id = task[p].id
              /\ \/ task'[p].pc = "hash" /\ task'[p].code = file.content
                 \/ task'[p].pc = "stat"
                 \/ task'[p].pc = "source" /\ task'[p].stamp = file.stamp
    PROVE  Reads /\ Rest'
<1>1. /\ file' = file /\ installed' = installed /\ wanted' = wanted
      /\ \A q \in Process \ {p} : task'[q] = task[q] /\ verdict'[q] = verdict[q]
  OBVIOUS
<1>2. Reads
  <2>1. \A q \in Process : task'[q].pc = "hash" => task'[q] = task[q] \/ task'[q].code = file.content
    BY RefuseTyped DEF Sound
  <2> QED
    BY <1>1, <2>1 DEF Reads
<1>3. CacheIsOfStamp'
  <2>1. file.stamp \in Nat /\ cache.stamp \in Nat
    BY DEF Sound, Typed, TypeOK
  <2>2. task[p].pc = "source" => task[p].stamp <= file.stamp
    BY DEF Sound, CacheIsOfStamp
  <2>3. cache'.stamp <= file'.stamp /\ (cache'.stamp = file'.stamp => cache'.content = file'.content)
    BY <1>1, <2>2 DEF Sound, CacheIsOfStamp
  <2>4. \A q \in Process : task'[q].pc = "source" => task'[q].stamp <= file'.stamp
    BY <1>1, <2>1, RefuseTyped DEF Sound, CacheIsOfStamp
  <2> QED
    BY <2>3, <2>4 DEF CacheIsOfStamp
<1>4. ReadInOrder'
  <2>1. \A q \in Process : installed'[q] # NoPolicy =>
           installed'[q].code.version <= installed'[q].sha.version
    BY <1>1 DEF Sound, ReadInOrder
  <2>2. ASSUME NEW q \in Process, Meant(q)', task'[q].pc = "hash"
        PROVE  wanted'[q].version <= task'[q].code.version
    <3>1. CASE q # p
      BY <1>1, <2>2, <3>1 DEF Sound, ReadInOrder, Meant
    <3>2. CASE q = p
      <4>1. task'[p].code = file.content
        BY <2>2, <3>2, RefuseTyped DEF Sound
      <4> QED
        BY <1>1, <3>2, <4>1, VersionsKnown DEF Sound
    <3> QED
      BY <3>1, <3>2
  <2>3. ASSUME NEW q \in Process, installed'[q] # NoPolicy, installed'[q].id = "mine",
               verdict'[q] # "refused", ~Meant(q)'
        PROVE  wanted'[q].version <= installed'[q].code.version
    <3>1. CASE q # p
      BY <1>1, <2>3, <3>1 DEF Sound, ReadInOrder, Meant
    <3>2. CASE q = p
      <4>1. CASE Refuse(p)
        <5>1. verdict'[p] = IF p = "server" /\ task[p].id = "theirs" THEN verdict[p] ELSE "refused"
          BY <4>1, RefuseTyped DEF Sound
        <5>2. verdict'[p] = verdict[p] /\ ~Meant(p)
          BY <2>3, <3>2, <5>1 DEF Meant
        <5> QED
          BY <1>1, <2>3, <3>2, <5>2 DEF Sound, ReadInOrder
      <4>2. CASE verdict' = verdict /\ task'[p].id = task[p].id /\ task'[p].pc \in {"hash", "stat", "source"}
        <5>1. ~Meant(p)
          BY <2>3, <3>2, <4>2 DEF Meant
        <5> QED
          BY <1>1, <2>3, <3>2, <4>2, <5>1 DEF Sound, ReadInOrder
      <4> QED
        BY <4>1, <4>2
    <3> QED
      BY <3>1, <3>2
  <2> QED
    BY <2>1, <2>2, <2>3 DEF ReadInOrder
<1>5. ValidatorAlone'
  <2>1. CASE p # "validator"
    BY <1>1, <2>1 DEF Sound, ValidatorAlone
  <2>2. CASE p = "validator"
    <3>1. installed[p] = NoPolicy /\ verdict[p] = "none" /\ task[p].id = "mine"
      BY <2>2 DEF Sound, ValidatorAlone
    <3>2. CASE Refuse(p)
      BY <2>2, <3>2, RefuseTyped DEF Sound, ValidatorAlone
    <3>3. CASE verdict' = verdict /\ task'[p].id = task[p].id /\ task'[p].pc \in {"hash", "stat", "source"}
      BY <1>1, <2>2, <3>1, <3>3 DEF ValidatorAlone
    <3> QED
      BY <3>2, <3>3
  <2> QED
    BY <2>1, <2>2
<1>6. VerifiedRunsWhatWasRead'
  <2>1. \A q \in Process : verdict'[q] = "ok" => verdict[q] = "ok"
    BY <1>1, RefuseTyped DEF Sound
  <2> QED
    BY <1>1, <2>1 DEF Sound, VerifiedRunsWhatWasRead
<1> QED
  BY <1>2, <1>3, <1>4, <1>5, <1>6 DEF Rest

\* A task of the validator is for its own digest.
LEMMA LoadingIsMeant ==
    ASSUME Sound, NEW p \in Process, task[p].pc \in {"stat", "source", "hash"}
    PROVE  Meant(p) \/ p = "server"
  BY DEF Sound, ValidatorAlone, Meant

LEMMA StatSound ==
    ASSUME Sound, Typed', NEW p \in Process, Stat(p)
    PROVE  Reads /\ Rest'
<1>1. task[p].pc = "stat" /\ UNCHANGED <<file, cache, installed, wanted>>
  BY StatCases
<1>2. CASE Refuse(p)
  BY <1>1, <1>2, LoadingIsMeant, LoadingSound, RefuseTyped DEF Sound
<1>3. CASE cache.stamp = file.stamp /\ Ran(p, cache.content)
  <2>1. cache.content = file.content /\ cache.content \in Content
    BY <1>3 DEF Sound, CacheIsOfStamp, Typed, TypeOK
  <2> QED
    BY <1>1, <1>3, <2>1, LoadingIsMeant, LoadingSound, RanTyped DEF Sound
<1>4. CASE /\ Become(p, [pc |-> "source", goal |-> task[p].goal, id |-> task[p].id,
                         stamp |-> file.stamp])
           /\ verdict' = verdict
  <2>1. /\ task'[p].pc = "source" /\ task'[p].id = task[p].id /\ task'[p].stamp = file.stamp
        /\ \A q \in Process \ {p} : task'[q] = task[q]
    BY <1>4 DEF Become, Sound, Typed, TypeOK
  <2> QED
    BY <1>1, <1>4, <2>1, LoadingIsMeant, LoadingSound
<1> QED
  BY <1>2, <1>3, <1>4, StatCases

LEMMA ReadSourceSound ==
    ASSUME Sound, Typed', NEW p \in Process, ReadSource(p)
    PROVE  Reads /\ Rest'
<1>1. task[p].pc = "source" /\ UNCHANGED <<file, installed, wanted>>
  BY DEF ReadSource
<1>2. CASE file.content.kind = "absent"
  <2>1. Refuse(p) /\ cache' = cache
    BY <1>2 DEF ReadSource
  <2> QED
    BY <1>1, <2>1, LoadingIsMeant, LoadingSound, RefuseTyped DEF Sound
<1>3. CASE file.content.kind # "absent"
  <2>1. Ran(p, file.content) /\ file.content \in Content
    BY <1>3 DEF ReadSource, Sound, Typed, TypeOK
  <2>2. cache' = cache \/ (cache'.content = file.content /\ cache'.stamp = task[p].stamp)
    BY <1>3 DEF ReadSource
  <2> QED
    BY <1>1, <2>1, <2>2, LoadingIsMeant, LoadingSound, RanTyped DEF Sound
<1> QED
  BY <1>2, <1>3

\* An install replaces the policy of a process, or is refused.
LEMMA HashSound ==
    ASSUME Sound, Typed', NEW p \in Process, Hash(p)
    PROVE  Reads /\ Rest'
<1>1. task[p].pc = "hash" /\ file' = file /\ cache' = cache /\ wanted' = wanted
  BY DEF Hash
<1>2. CASE file.content.kind = "absent"
  <2>1. Refuse(p) /\ installed' = installed
    BY <1>2 DEF Hash
  <2>2. /\ task'[p] = Idle
        /\ verdict'[p] = IF p = "server" /\ task[p].id = "theirs" THEN verdict[p] ELSE "refused"
        /\ \A q \in Process \ {p} : task'[q] = task[q] /\ verdict'[q] = verdict[q]
    BY <2>1, RefuseTyped DEF Sound
  <2>3. Reads
    BY <1>1, <2>1, <2>2 DEF Reads
  <2>4. CacheIsOfStamp'
    BY <1>1, <2>2 DEF Sound, CacheIsOfStamp
  <2>5. ReadInOrder'
    BY <1>1, <2>1, <2>2 DEF Sound, ReadInOrder, Meant
  <2>6. ValidatorAlone'
    BY <2>1, <2>2 DEF Sound, ValidatorAlone
  <2>7. VerifiedRunsWhatWasRead'
    BY <1>1, <2>1, <2>2 DEF Sound, VerifiedRunsWhatWasRead
  <2> QED
    BY <2>3, <2>4, <2>5, <2>6, <2>7 DEF Rest
<1>3. CASE file.content.kind # "absent"
  <2> DEFINE policy == [id |-> task[p].id, code |-> task[p].code, sha |-> file.content]
  <2>1. /\ installed'[p] = policy
        /\ policy.id = task[p].id /\ policy.code = task[p].code /\ policy.sha = file.content
        /\ task'[p].pc = IF p = "validator" THEN "verify" ELSE "idle"
        /\ verdict'[p] = "none"
    BY <1>3 DEF Hash, Become, Tell, Sound, Typed, TypeOK
  <2>2. \A q \in Process \ {p} : /\ task'[q] = task[q] /\ verdict'[q] = verdict[q]
                                 /\ installed'[q] = installed[q]
    BY <1>3 DEF Hash, Become, Tell, Sound, Typed, TypeOK
  <2>3. policy # NoPolicy
    <3>1. policy \in [id: PolicyId, code: Content, sha: Content]
      BY <1>1, TaskKinds DEF Sound, Typed, TypeOK
    <3> QED
      BY <3>1, PolicyAssumption
  <2> HIDE DEF policy
  <2>4. Reads
    BY <1>1, <2>1, <2>2 DEF Reads
  <2>5. CacheIsOfStamp'
    BY <1>1, <2>1, <2>2 DEF Sound, CacheIsOfStamp
  <2>6. ReadInOrder'
    <3>1. policy.code.version <= policy.sha.version
      BY <1>1, <2>1, VersionsKnown DEF Sound
    <3>2. task[p].id = "mine" => wanted[p].version <= policy.code.version
      BY <1>1, <2>1 DEF Sound, ReadInOrder, Meant
    <3> QED
      BY <1>1, <2>1, <2>2, <3>1, <3>2 DEF Sound, ReadInOrder, Meant
  <2>7. ValidatorAlone'
    BY <1>1, <2>1, <2>2, <2>3 DEF Sound, ValidatorAlone
  <2>8. VerifiedRunsWhatWasRead'
    BY <1>1, <2>1, <2>2 DEF Sound, VerifiedRunsWhatWasRead
  <2> QED
    BY <2>4, <2>5, <2>6, <2>7, <2>8 DEF Rest
<1> QED
  BY <1>2, <1>3

\* The heart of it: two equal digests around the load leave no room for another content.
LEMMA DigestsAgree ==
    ASSUME Sound, NEW p \in Process, installed[p] # NoPolicy,
           wanted[p].version <= installed[p].code.version, installed[p].sha = Expected(p)
    PROVE  installed[p].code = wanted[p]
<1>1. Expected(p).version = wanted[p].version
  BY DEF Expected, Sound, Typed, TypeOK, Content
<1>2. installed[p].code.version <= wanted[p].version
  BY <1>1 DEF Sound, ReadInOrder
<1>3. installed[p].code.version = wanted[p].version
  BY <1>2, VersionsKnown DEF Sound
<1> QED
  BY <1>3, VersionsKnown DEF Sound

LEMMA VerifySound ==
    ASSUME Sound, Typed', NEW p \in Process, Verify(p)
    PROVE  Reads /\ Rest'
<1> DEFINE agreed == installed[p].id = "mine" /\ installed[p].sha = Expected(p)
<1>1. /\ task[p] = IF p = "validator" THEN [pc |-> "verify"] ELSE Idle
      /\ installed[p] # NoPolicy
      /\ p = "server" => verdict[p] # "refused"
      /\ UNCHANGED <<file, cache, installed, wanted>>
  BY DEF Verify
<1>2. /\ task'[p] = Idle
      /\ verdict'[p] = IF agreed THEN "ok" ELSE "refused"
      /\ \A q \in Process \ {p} : task'[q] = task[q] /\ verdict'[q] = verdict[q]
  BY DEF Verify, Become, Tell, Sound, Typed, TypeOK
<1>3. verdict[p] # "refused" /\ ~Meant(p)
  BY <1>1 DEF Sound, ValidatorAlone, Meant
<1>4. agreed => wanted[p].version <= installed[p].code.version /\ installed[p].code = wanted[p]
  BY <1>1, <1>3, DigestsAgree DEF Sound, ReadInOrder
<1> HIDE DEF agreed
<1>5. Reads
  BY <1>1, <1>2 DEF Reads
<1>6. CacheIsOfStamp'
  BY <1>1, <1>2 DEF Sound, CacheIsOfStamp
<1>7. ReadInOrder'
  BY <1>1, <1>2, <1>4 DEF Sound, ReadInOrder, Meant
<1>8. ValidatorAlone'
  BY <1>1, <1>2 DEF Sound, ValidatorAlone
<1>9. VerifiedRunsWhatWasRead'
  BY <1>1, <1>2, <1>4 DEF Sound, VerifiedRunsWhatWasRead
<1> QED
  BY <1>5, <1>6, <1>7, <1>8, <1>9 DEF Rest

LEMMA StepSound == ~SameStamp /\ Sound /\ [Next]_vars => Sound'
<1> SUFFICES ASSUME ~SameStamp, Sound, [Next]_vars PROVE Reads /\ Rest'
  BY StepTyped, ReadsKeep DEF Sound, Rest
<1>1. Typed' /\ Typed
  BY StepTyped DEF Sound
<1>2. ASSUME NEW kind \in Kinds, Rewrite(kind) PROVE Reads /\ Rest'
  <2>1. /\ file'.stamp = file.stamp + 1
        /\ file'.content.version = file.content.version + 1
        /\ UNCHANGED <<cache, installed, task, wanted, verdict>>
    BY <1>2, PolicyAssumption DEF Rewrite
  <2>2. file.stamp \in Nat /\ cache.stamp \in Nat
    BY <1>1 DEF Typed, TypeOK
  <2>3. Reads
    BY <2>1 DEF Reads
  <2>4. CacheIsOfStamp'
    <3>1. cache'.stamp < file'.stamp
      BY <2>1, <2>2 DEF Sound, CacheIsOfStamp
    <3>2. ASSUME NEW p \in Process, task'[p].pc = "source" PROVE task'[p].stamp <= file'.stamp
      <4>1. task[p].stamp \in Nat /\ task[p].stamp <= file.stamp
        BY <1>1, <2>1, <3>2, TaskKinds DEF Sound, CacheIsOfStamp, Typed, TypeOK
      <4> QED
        BY <2>1, <2>2, <4>1
    <3>3. cache'.stamp \in Nat /\ file'.stamp \in Nat
      BY <2>1, <2>2
    <3> QED
      BY <3>1, <3>2, <3>3 DEF CacheIsOfStamp
  <2>5. ReadInOrder' /\ ValidatorAlone' /\ VerifiedRunsWhatWasRead'
    BY <2>1 DEF Sound, ReadInOrder, ValidatorAlone, VerifiedRunsWhatWasRead, Meant
  <2> QED
    BY <2>3, <2>4, <2>5 DEF Rest
<1>3. ASSUME NEW id \in PolicyId, Install(id) PROVE Reads /\ Rest'
  <2>1. /\ task["server"] = Idle /\ UNCHANGED <<file, cache, installed>>
        /\ task'["server"].pc = "stat" /\ task'["server"].id = id
        /\ task'["validator"] = task["validator"]
        /\ wanted'["validator"] = wanted["validator"] /\ verdict'["validator"] = verdict["validator"]
    BY <1>1, <1>3 DEF Install, Become, Tell, Loading, Typed, TypeOK
  <2>2. \/ id = "mine" /\ wanted'["server"] = file.content /\ verdict'["server"] = "none"
        \/ id # "mine" /\ wanted' = wanted /\ verdict' = verdict
    BY <1>1, <1>3 DEF Install, Tell, Typed, TypeOK
  <2>3. Reads
    BY <2>1, <2>2 DEF Reads
  <2>4. CacheIsOfStamp'
    BY <2>1 DEF Sound, CacheIsOfStamp
  <2>5. ReadInOrder'
    BY <2>1, <2>2 DEF Sound, ReadInOrder, Meant
  <2>6. ValidatorAlone'
    BY <2>1 DEF Sound, ValidatorAlone
  <2>7. VerifiedRunsWhatWasRead'
    BY <2>1, <2>2 DEF Sound, VerifiedRunsWhatWasRead
  <2> QED
    BY <2>3, <2>4, <2>5, <2>6, <2>7 DEF Rest
<1>4. CASE Validate
  <2>1. /\ UNCHANGED <<file, cache, wanted>>
        /\ task'["validator"].pc = "text" /\ installed'["validator"] = NoPolicy
        /\ verdict'["validator"] = "none"
        /\ task'["server"] = task["server"] /\ installed'["server"] = installed["server"]
        /\ verdict'["server"] = verdict["server"]
    BY <1>1, <1>4 DEF Validate, Become, Tell, Typed, TypeOK
  <2>2. Reads
    BY <2>1 DEF Reads
  <2>3. CacheIsOfStamp'
    BY <2>1 DEF Sound, CacheIsOfStamp
  <2>4. ReadInOrder'
    BY <2>1 DEF Sound, ReadInOrder, Meant
  <2>5. ValidatorAlone'
    BY <2>1 DEF Sound, ValidatorAlone
  <2>6. VerifiedRunsWhatWasRead'
    BY <2>1 DEF Sound, VerifiedRunsWhatWasRead
  <2> QED
    BY <2>2, <2>3, <2>4, <2>5, <2>6 DEF Rest
<1>5. ASSUME NEW p \in Process, Stat(p) PROVE Reads /\ Rest'
  BY <1>1, <1>5, StatSound
<1>6. ASSUME NEW p \in Process, ReadSource(p) PROVE Reads /\ Rest'
  BY <1>1, <1>6, ReadSourceSound
<1>7. ASSUME NEW p \in Process, Hash(p) PROVE Reads /\ Rest'
  BY <1>1, <1>7, HashSound
<1>8. CASE ReadText
  <2>1. /\ task["validator"].pc = "text" /\ UNCHANGED <<file, cache, installed>>
        /\ wanted'["validator"] = file.content /\ wanted'["server"] = wanted["server"]
        /\ installed["validator"] = NoPolicy /\ verdict["validator"] = "none"
    BY <1>1, <1>8 DEF ReadText, Typed, TypeOK, Sound, ValidatorAlone
  <2>2. /\ task'["server"] = task["server"] /\ verdict'["server"] = verdict["server"]
        /\ \/ task'["validator"] = Idle /\ verdict'["validator"] = "refused"
           \/ /\ task'["validator"].pc = "stat" /\ task'["validator"].id = "mine"
              /\ verdict'["validator"] = "none"
    <3>1. CASE Refuse("validator")
      BY <1>1, <3>1, RefuseTyped
    <3>2. CASE Become("validator", Loading("resolve", "mine")) /\ verdict' = verdict
      BY <1>1, <2>1, <3>2 DEF Become, Loading, Typed, TypeOK
    <3> QED
      BY <1>8, <3>1, <3>2 DEF ReadText
  <2>3. Reads
    BY <2>1, <2>2 DEF Reads
  <2>4. CacheIsOfStamp'
    BY <2>1, <2>2 DEF Sound, CacheIsOfStamp
  <2>5. ReadInOrder'
    BY <2>1, <2>2 DEF Sound, ReadInOrder, Meant
  <2>6. ValidatorAlone'
    BY <2>1, <2>2 DEF Sound, ValidatorAlone
  <2>7. VerifiedRunsWhatWasRead'
    BY <2>1, <2>2 DEF Sound, VerifiedRunsWhatWasRead
  <2> QED
    BY <2>3, <2>4, <2>5, <2>6, <2>7 DEF Rest
<1>9. ASSUME NEW p \in Process, Verify(p) PROVE Reads /\ Rest'
  BY <1>1, <1>9, VerifySound
<1>10. CASE Clear
  <2>1. /\ UNCHANGED <<file, cache, task, wanted>>
        /\ installed'["server"] = NoPolicy /\ verdict'["server"] = "none"
        /\ installed'["validator"] = installed["validator"]
        /\ verdict'["validator"] = verdict["validator"]
    BY <1>1, <1>10 DEF Clear, Tell, Typed, TypeOK
  <2>2. Reads
    BY <2>1 DEF Reads
  <2>3. CacheIsOfStamp' /\ ReadInOrder' /\ ValidatorAlone' /\ VerifiedRunsWhatWasRead'
    BY <2>1 DEF Sound, CacheIsOfStamp, ReadInOrder, ValidatorAlone, VerifiedRunsWhatWasRead, Meant
  <2> QED
    BY <2>2, <2>3 DEF Rest
<1>11. CASE UNCHANGED vars
  <2>1. UNCHANGED <<file, cache, installed, task, wanted, verdict>>
    BY <1>11 DEF vars
  <2>2. Reads
    BY <2>1 DEF Reads
  <2>3. CacheIsOfStamp' /\ ReadInOrder' /\ ValidatorAlone' /\ VerifiedRunsWhatWasRead'
    BY <2>1 DEF Sound, CacheIsOfStamp, ReadInOrder, ValidatorAlone, VerifiedRunsWhatWasRead, Meant
  <2> QED
    BY <2>2, <2>3 DEF Rest
<1> QED
  BY <1>2, <1>3, <1>4, <1>5, <1>6, <1>7, <1>8, <1>9, <1>10, <1>11 DEF Next, Steps

LEMMA InitSound == Init => Sound
<1> SUFFICES ASSUME Init PROVE Sound
  OBVIOUS
<1>1. /\ file.content.version = 1 /\ file.stamp = 1
      /\ cache.content = file.content /\ cache.stamp = 0
      /\ \A p \in Process : /\ installed[p] = NoPolicy /\ task[p] = Idle
                            /\ wanted[p] = file.content /\ verdict[p] = "none"
  BY DEF Init
<1>2. \A c \in Held : c = file.content
  BY <1>1 DEF Held
<1>3. VersionsAgree
  BY <1>1, <1>2 DEF VersionsAgree
<1>4. CacheIsOfStamp /\ ReadInOrder /\ ValidatorAlone /\ VerifiedRunsWhatWasRead
  BY <1>1 DEF CacheIsOfStamp, ReadInOrder, ValidatorAlone, VerifiedRunsWhatWasRead, Meant
<1> QED
  BY <1>3, <1>4, InitTyped DEF Sound

\* A policy that verifies is the one that was digested, for any rewrites at any moment
\* between the reads of an install and any other client's installs, as long as a rewrite
\* changes the file's modification time or size.
THEOREM VerifiedRunsWhatWasReadAlways ==
    ASSUME ~SameStamp
    PROVE  Spec => []VerifiedRunsWhatWasRead
<1>1. Sound => VerifiedRunsWhatWasRead
  BY DEF Sound
<1>2. Sound /\ [Next]_vars => Sound'
  BY StepSound
<1> QED
  BY <1>1, <1>2, InitSound, PTL DEF Spec

----
(* Right verdicts.  The validator reads the file as text and digests what  *)
(* it read; where line ends are those of Python's universal newlines, the  *)
(* digest is the file's.                                                   *)

Quiet == LineEndsAreOne /\ TextWasChecked /\ QuietValidationIsRight

\* The validator is not concerned by a step of the server, or of nobody, that leaves
\* the file as it is.
LEMMA ElsewhereQuiet ==
    ASSUME Quiet, file' = file, wanted'["validator"] = wanted["validator"],
           task'["validator"] = task["validator"], verdict'["validator"] = verdict["validator"]
    PROVE  Quiet'
  BY DEF Quiet, LineEndsAreOne, TextWasChecked, QuietValidationIsRight

\* The validator's task goes on, with what it has passed.
LEMMA ValidatorGoesOn ==
    ASSUME Quiet, file' = file, wanted'["validator"] = wanted["validator"],
           task["validator"].pc \in {"stat", "source", "hash"},
           task'["validator"].pc \in {"stat", "source", "hash", "verify"}
    PROVE  Quiet'
  BY DEF Quiet, LineEndsAreOne, TextWasChecked, QuietValidationIsRight

\* A refusal is right when the file at hand cannot be accepted.
LEMMA ValidatorRefuses ==
    ASSUME Quiet, file' = file, wanted'["validator"] = wanted["validator"],
           task["validator"].pc \in {"stat", "source", "hash"},
           task'["validator"] = Idle, verdict'["validator"] = "refused",
           file.content.kind \in {"absent", "faulty"}
    PROVE  Quiet'
  BY DEF Quiet, LineEndsAreOne, TextWasChecked, QuietValidationIsRight

LEMMA RanQuiet ==
    ASSUME Sound, Quiet, NEW code \in Content, Ran("validator", code),
           task["validator"].pc \in {"stat", "source"}, code = file.content,
           file' = file, wanted' = wanted
    PROVE  Quiet'
<1>1. task["validator"].goal \in Goal
  BY TaskKinds DEF Sound, Typed, TypeOK
<1>2. CASE code.kind = "faulty" /\ Refuse("validator")
  <2>1. task'["validator"] = Idle /\ verdict'["validator"] = "refused"
    BY <1>2, RefuseTyped DEF Sound
  <2> QED
    BY <1>2, <2>1, ValidatorRefuses
<1>3. ASSUME NEW next, Become("validator", next), next.pc \in {"stat", "hash"} PROVE Quiet'
  <2>1. task'["validator"].pc \in {"stat", "hash"}
    BY <1>3 DEF Become, Sound, Typed, TypeOK
  <2> QED
    BY <2>1, ValidatorGoesOn
<1>4. \A goal, id : Loading(goal, id).pc = "stat"
  BY DEF Loading
<1>5. \A id, c : [pc |-> "hash", id |-> id, code |-> c].pc = "hash"
  OBVIOUS
<1> QED
  BY <1>1, <1>2, <1>3, <1>4, <1>5, RanCases

LEMMA ValidatorQuiet ==
    ASSUME Sound, Sound', Quiet,
           Stat("validator") \/ ReadSource("validator") \/ Hash("validator")
    PROVE  Quiet'
<1>1. CASE Stat("validator")
  <2>1. task["validator"].pc = "stat" /\ UNCHANGED <<file, wanted>>
    BY <1>1, StatCases
  <2>2. CASE file.content.kind = "absent" /\ Refuse("validator")
    <3>1. task'["validator"] = Idle /\ verdict'["validator"] = "refused"
      BY <2>2, RefuseTyped DEF Sound
    <3> QED
      BY <2>1, <2>2, <3>1, ValidatorRefuses
  <2>3. CASE cache.stamp = file.stamp /\ Ran("validator", cache.content)
    <3>1. cache.content = file.content /\ cache.content \in Content
      BY <2>3 DEF Sound, CacheIsOfStamp, Typed, TypeOK
    <3> QED
      BY <2>1, <2>3, <3>1, RanQuiet
  <2>4. CASE Become("validator", [pc |-> "source", goal |-> task["validator"].goal,
                                  id |-> task["validator"].id, stamp |-> file.stamp])
    <3>1. task'["validator"].pc = "source"
      BY <2>4 DEF Become, Sound, Typed, TypeOK
    <3> QED
      BY <2>1, <3>1, ValidatorGoesOn
  <2> QED
    BY <1>1, <2>2, <2>3, <2>4, StatCases
<1>2. CASE ReadSource("validator")
  <2>1. task["validator"].pc = "source" /\ UNCHANGED <<file, wanted>>
    BY <1>2 DEF ReadSource
  <2>2. CASE file.content.kind = "absent"
    <3>1. Refuse("validator")
      BY <1>2, <2>2 DEF ReadSource
    <3>2. task'["validator"] = Idle /\ verdict'["validator"] = "refused"
      BY <3>1, RefuseTyped DEF Sound
    <3> QED
      BY <2>1, <2>2, <3>2, ValidatorRefuses
  <2>3. CASE file.content.kind # "absent"
    <3>1. Ran("validator", file.content) /\ file.content \in Content
      BY <1>2, <2>3 DEF ReadSource, Sound, Typed, TypeOK
    <3> QED
      BY <2>1, <3>1, RanQuiet
  <2> QED
    BY <2>2, <2>3
<1>3. CASE Hash("validator")
  <2>1. task["validator"].pc = "hash" /\ UNCHANGED <<file, wanted>>
    BY <1>3 DEF Hash
  <2>2. CASE file.content.kind = "absent"
    <3>1. Refuse("validator")
      BY <1>3, <2>2 DEF Hash
    <3>2. task'["validator"] = Idle /\ verdict'["validator"] = "refused"
      BY <3>1, RefuseTyped DEF Sound
    <3> QED
      BY <2>1, <2>2, <3>2, ValidatorRefuses
  <2>3. CASE file.content.kind # "absent"
    <3>1. task'["validator"].pc = "verify"
      BY <1>3, <2>3 DEF Hash, Become, Sound, Typed, TypeOK
    <3> QED
      BY <2>1, <3>1, ValidatorGoesOn
  <2> QED
    BY <2>2, <2>3
<1> QED
  BY <1>1, <1>2, <1>3

\* The digests agree when the file has not changed, and only then can they.
LEMMA VerdictQuiet ==
    ASSUME Sound, Quiet, Verify("validator")
    PROVE  Quiet'
<1> DEFINE agreed == installed["validator"].id = "mine"
                     /\ installed["validator"].sha = Expected("validator")
<1>1. /\ task["validator"] = [pc |-> "verify"]
      /\ installed["validator"] # NoPolicy
      /\ UNCHANGED <<file, cache, installed, wanted>>
      /\ task'["validator"] = Idle
      /\ verdict'["validator"] = IF agreed THEN "ok" ELSE "refused"
  BY DEF Verify, Become, Tell, Sound, Typed, TypeOK
<1>2. installed["validator"].id = "mine" /\ verdict["validator"] = "none" /\ ~Meant("validator")
  BY <1>1 DEF Sound, ValidatorAlone, Meant
<1>3. wanted["validator"].version <= installed["validator"].code.version
  BY <1>1, <1>2 DEF Sound, ReadInOrder
<1>4. Expected("validator") = wanted["validator"]
  BY DEF Expected, Quiet, LineEndsAreOne
<1>5. wanted["validator"] \in Content /\ wanted["validator"].kind \notin {"crlf", "absent", "fenced"}
  BY <1>1 DEF Quiet, LineEndsAreOne, TextWasChecked, Sound, Typed, TypeOK
<1>6. agreed => wanted["validator"].kind = "good"
  <2>1. agreed => installed["validator"].code = wanted["validator"]
    BY <1>1, <1>3, DigestsAgree
  <2>2. installed["validator"].code.kind # "faulty"
    BY <1>1 DEF Sound, Typed, TypeOK
  <2> QED
    BY <1>5, <2>1, <2>2 DEF Content, Kind
<1>7. file.content = wanted["validator"] => agreed
  <2> SUFFICES ASSUME file.content = wanted["validator"] PROVE agreed
    OBVIOUS
  <2>1. installed["validator"].code.version <= installed["validator"].sha.version
    BY <1>1 DEF Sound, ReadInOrder
  <2>2. installed["validator"].sha.version = wanted["validator"].version
    BY <1>1, <1>3, <2>1, VersionsKnown DEF Sound
  <2>3. installed["validator"].sha = wanted["validator"]
    BY <1>1, <2>2, VersionsKnown DEF Sound
  <2> QED
    BY <1>2, <1>4, <2>3
<1> HIDE DEF agreed
<1> QED
  BY <1>1, <1>6, <1>7 DEF Quiet, LineEndsAreOne, TextWasChecked, QuietValidationIsRight

LEMMA StepQuiet ==
    ASSUME "crlf" \notin Kinds, Sound, Sound', Quiet, [Next]_vars
    PROVE  Quiet'
<1>1. ASSUME NEW kind \in Kinds, Rewrite(kind) PROVE Quiet'
  <2>1. PICK stamp : file' = [content |-> [version |-> file.content.version + 1, kind |-> kind],
                              stamp |-> stamp]
    BY <1>1 DEF Rewrite
  <2>2. /\ file'.content.version = file.content.version + 1 /\ file'.content.kind = kind
        /\ UNCHANGED <<cache, installed, task, wanted, verdict>>
    BY <1>1, <2>1 DEF Rewrite
  <2>3. wanted["validator"].version \in Nat /\ wanted["validator"].version <= file.content.version
    BY VersionsKnown DEF Sound
  <2>4. file.content.version \in Nat
    BY VersionsKnown DEF Sound
  <2>5. file'.content # wanted'["validator"]
    BY <2>2, <2>3, <2>4
  <2>6. kind # "crlf"
    BY <1>1
  <2> QED
    BY <2>2, <2>5, <2>6 DEF Quiet, LineEndsAreOne, TextWasChecked, QuietValidationIsRight
<1>2. ASSUME NEW id \in PolicyId, Install(id) PROVE Quiet'
  <2>1. /\ file' = file /\ wanted'["validator"] = wanted["validator"]
        /\ task'["validator"] = task["validator"] /\ verdict'["validator"] = verdict["validator"]
    BY <1>2 DEF Install, Become, Tell, Sound, Typed, TypeOK
  <2> QED
    BY <2>1, ElsewhereQuiet
<1>3. CASE Validate
  <2>1. /\ file' = file /\ wanted' = wanted /\ task'["validator"].pc = "text"
        /\ verdict'["validator"] = "none"
    BY <1>3 DEF Validate, Become, Tell, Sound, Typed, TypeOK
  <2> QED
    BY <2>1 DEF Quiet, LineEndsAreOne, TextWasChecked, QuietValidationIsRight
<1>4. CASE ReadText
  <2>1. file' = file /\ wanted'["validator"] = file.content /\ task["validator"].pc = "text"
    BY <1>4 DEF ReadText, Sound, Typed, TypeOK
  <2>2. CASE file.content.kind \in {"absent", "fenced"}
    <3>1. Refuse("validator")
      BY <1>4, <2>2 DEF ReadText
    <3>2. task'["validator"] = Idle /\ verdict'["validator"] = "refused"
      BY <3>1, RefuseTyped DEF Sound
    <3> QED
      BY <2>1, <2>2, <3>2 DEF Quiet, LineEndsAreOne, TextWasChecked, QuietValidationIsRight
  <2>3. CASE file.content.kind \notin {"absent", "fenced"}
    <3>1. task'["validator"].pc = "stat"
      BY <1>4, <2>3 DEF ReadText, Become, Loading, Sound, Typed, TypeOK
    <3> QED
      BY <2>1, <2>3, <3>1 DEF Quiet, LineEndsAreOne, TextWasChecked, QuietValidationIsRight
  <2> QED
    BY <2>2, <2>3
<1>5. CASE Stat("validator") \/ ReadSource("validator") \/ Hash("validator")
  BY <1>5, ValidatorQuiet
<1>6. CASE Verify("validator")
  BY <1>6, VerdictQuiet
<1>7. CASE Stat("server") \/ ReadSource("server") \/ Hash("server") \/ Verify("server")
  <2>1. file' = file /\ wanted' = wanted
    BY <1>7 DEF Stat, ReadSource, Hash, Verify
  <2>3. \A next : Become("server", next) => task'["validator"] = task["validator"]
    BY DEF Become, Sound, Typed, TypeOK
  <2>4. \A word : Tell("server", word) => verdict'["validator"] = verdict["validator"]
    BY DEF Tell, Sound, Typed, TypeOK
  <2>5. Refuse("server") => /\ task'["validator"] = task["validator"]
                            /\ verdict'["validator"] = verdict["validator"]
    BY <2>3, <2>4 DEF Refuse
  <2>6. \A code : Ran("server", code) => /\ task'["validator"] = task["validator"]
                                         /\ verdict'["validator"] = verdict["validator"]
    BY <2>3, <2>5 DEF Ran
  <2>7. task'["validator"] = task["validator"] /\ verdict'["validator"] = verdict["validator"]
    <3>1. CASE Stat("server")
      BY <3>1, <2>3, <2>5, <2>6, StatCases
    <3>2. CASE ReadSource("server")
      BY <3>2, <2>5, <2>6 DEF ReadSource
    <3>3. CASE Hash("server")
      BY <3>3, <2>3, <2>4, <2>5 DEF Hash
    <3>4. CASE Verify("server")
      BY <3>4, <2>3, <2>4 DEF Verify
    <3> QED
      BY <1>7, <3>1, <3>2, <3>3, <3>4
  <2> QED
    BY <2>1, <2>7, ElsewhereQuiet
<1>8. CASE Clear
  <2>1. UNCHANGED <<file, task, wanted>> /\ verdict'["validator"] = verdict["validator"]
    BY <1>8 DEF Clear, Tell, Sound, Typed, TypeOK
  <2> QED
    BY <2>1, ElsewhereQuiet
<1>9. CASE UNCHANGED vars
  BY <1>9, ElsewhereQuiet DEF vars
<1> QED
  BY <1>1, <1>2, <1>3, <1>4, <1>5, <1>6, <1>7, <1>8, <1>9 DEF Next, Steps

LEMMA InitQuiet == Init => Quiet
  BY DEF Init, Quiet, LineEndsAreOne, TextWasChecked, QuietValidationIsRight

\* The validator accepts a policy exactly when it is good, if the file is as it was when
\* the validator read it, for any rewrites before and any installs of the server beside it
\* that share its bytecode cache, as long as a rewrite changes the file's modification time
\* or size and line ends are newlines.
THEOREM QuietValidationIsRightAlways ==
    ASSUME ~SameStamp, "crlf" \notin Kinds
    PROVE  Spec => []QuietValidationIsRight
<1>1. Init => Sound /\ Quiet
  BY InitSound, InitQuiet
<1>2. Sound /\ Quiet /\ [Next]_vars => Sound' /\ Quiet'
  BY StepSound, StepQuiet
<1>3. Quiet => QuietValidationIsRight
  BY DEF Quiet
<1> QED
  BY <1>1, <1>2, <1>3, PTL DEF Spec
====
