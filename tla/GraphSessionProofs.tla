---- MODULE GraphSessionProofs ----
(***************************************************************************)
(* Proofs about the session cache, for any files, roots and sessions: types*)
(* hold always, freshness when no file gets a former content back.         *)
(***************************************************************************)
EXTENDS GraphSession, TLAPS

USE SessionAssumption DEF Missing

(* Types.                                                                  *)

ReadyCall == [pc: {"ready"}, session: Session, left: {1, 2}, began: Began]
AnswerCall == [pc: {"answer"}, session: Session, began: Began, asked: Root \union {NoRoot}]
SignCall == [pc: {"sign"}, session: Session, left: {1, 2}, began: Began, root: Root,
             todo: SUBSET File, signature: Signature]
ScanCall == [pc: {"scan"}, session: Session, left: {1, 2}, began: Began, root: Root,
             signature: Signature, functions: Contents, imports: Contents,
             todo: SUBSET File, half: SUBSET File]

LEMMA CallShape ==
    ASSUME call \in Call
    PROVE  /\ call.pc \in {"idle", "ready", "answer", "sign", "scan"}
           /\ call.pc = "ready" => call \in ReadyCall
           /\ call.pc = "answer" => call \in AnswerCall
           /\ call.pc = "sign" => call \in SignCall
           /\ call.pc = "scan" => call \in ScanCall
  BY DEF Call, Idle, ReadyCall, AnswerCall, SignCall, ScanCall

LEMMA CallKinds == ReadyCall \union AnswerCall \union SignCall \union ScanCall \union {Idle} \subseteq Call
  BY DEF Call, ReadyCall, AnswerCall, SignCall, ScanCall

LEMMA ReadyType ==
    ASSUME call.session \in Session, call.left \in {1, 2}, call.began \in Began,
           NEW asked \in Root \union {NoRoot}
    PROVE  Ready(asked) \in ReadyCall \union AnswerCall
  BY DEF Ready, ReadyCall, AnswerCall

LEMMA WithGraphType ==
    ASSUME NEW session \in SessionState, NEW graph \in Given \union Scan, NEW root \in Root,
           NEW signature \in Signature \union {NoSignature}
    PROVE  WithGraph(session, graph, root, signature) \in SessionState
<1>1. Digest(graph) \in Given \union (Contents \X Contents)
  BY DEF Digest, Scan
<1> QED
  BY <1>1 DEF WithGraph, SessionState

LEMMA ListingType ==
    ASSUME TypeOK, NEW s \in Session, NEW r \in Root, NEW left \in {1, 2}, NEW began \in Began
    PROVE  Listing(s, r, left, began) \in SignCall
<1>1. Unsigned \in Signature
  BY DEF Unsigned, Signature
<1> QED
  BY <1>1 DEF Listing, SignCall, Listed

LEMMA InitType == Init => TypeOK
<1> SUFFICES ASSUME Init PROVE TypeOK
  OBVIOUS
<1>1. sources \in [Root -> Contents]
  BY DEF Init, Contents
<1>2. \A s \in Session : sessions[s] \in SessionState /\ Whole(sessions[s])
  BY DEF Init, Empty, SessionState, Whole
<1>3. sessions \in [Session -> SessionState]
  BY <1>2 DEF Init
<1>4. call \in Call
  BY CallKinds DEF Init
<1> QED
  BY <1>1, <1>2, <1>3, <1>4 DEF TypeOK

\* A graph that is set leaves a session whole.
LEMMA SettingGraphTypes ==
    ASSUME TypeOK, NEW s \in Session, NEW graph \in Given \union Scan, NEW root \in Root,
           NEW signature \in Signature \union {NoSignature},
           sessions' = [sessions EXCEPT ![s] = WithGraph(sessions[s], graph, root, signature)]
    PROVE  /\ sessions' \in [Session -> SessionState]
           /\ \A t \in Session : Whole(sessions'[t])
<1> DEFINE new == WithGraph(sessions[s], graph, root, signature)
<1>1. new \in SessionState
  BY WithGraphType DEF TypeOK
<1>2. Whole(new)
  BY DEF WithGraph, Whole
<1> HIDE DEF new
<1>3. sessions \in [Session -> SessionState] /\ \A t \in Session : Whole(sessions[t])
  BY DEF TypeOK
<1>4. sessions' = [sessions EXCEPT ![s] = new]
  BY DEF new
<1> QED
  BY <1>1, <1>2, <1>3, <1>4

LEMMA NextType == TypeOK /\ [Next]_vars => TypeOK'
<1> SUFFICES ASSUME TypeOK, [Next]_vars
             PROVE  TypeOK'
  OBVIOUS
<1>0. /\ sources \in [Root -> Contents] /\ sources \in Began
      /\ call \in Call
      /\ sessions \in [Session -> SessionState]
      /\ \A s \in Session : Whole(sessions[s])
  BY DEF TypeOK, Began
<1>1. ASSUME NEW r \in Root, NEW f \in File, Edit(r, f)
      PROVE  TypeOK'
  <2>1. PICK v \in 1..LastVersion : sources' = [sources EXCEPT ![r][f] = v]
    BY <1>1 DEF Edit
  <2>2. sources' \in [Root -> Contents]
    BY <1>0, <2>1 DEF Contents
  <2> QED
    BY <1>0, <1>1, <2>2 DEF Edit, TypeOK
<1>2. ASSUME NEW s \in Session, NEW times \in {1, 2}, Begin(s, times)
      PROVE  TypeOK'
  <2>1. call' \in ReadyCall
    BY <1>0, <1>2 DEF Begin, ReadyCall
  <2> QED
    BY <1>0, <1>2, <2>1, CallKinds DEF Begin, TypeOK
<1>3. ASSUME NEW r \in Root, LoadDefault(r)
      PROVE  TypeOK'
  <2>1. call' \in SignCall
    BY <1>0, <1>3, ListingType DEF LoadDefault
  <2> QED
    BY <1>0, <1>3, <2>1, CallKinds DEF LoadDefault, TypeOK
<1>4. CASE Adopt
  <2>1. call \in ReadyCall
    BY <1>0, <1>4, CallShape DEF Adopt
  <2>2. call' \in ReadyCall \union AnswerCall
    BY <1>4, <2>1, ReadyType DEF Adopt, ReadyCall
  <2> DEFINE other == sessions[Default]
  <2>3. /\ other \in SessionState
        /\ other.graph \in Given \union Scan
        /\ other.root \in Root
        /\ other.signature \in Signature \union {NoSignature}
    BY <1>0, <1>4 DEF Adopt, Adoptable, SessionState, Whole
  <2>4. sessions' = [sessions EXCEPT ![call.session] =
                        WithGraph(sessions[call.session], other.graph, other.root, other.signature)]
    BY <1>4 DEF Adopt
  <2>5. call.session \in Session
    BY <2>1 DEF ReadyCall
  <2>6. sessions' \in [Session -> SessionState] /\ \A t \in Session : Whole(sessions'[t])
    BY <2>3, <2>4, <2>5, SettingGraphTypes
  <2> QED
    BY <1>0, <1>4, <2>2, <2>6, CallKinds DEF Adopt, TypeOK
<1>5. CASE Load
  <2>1. call \in ReadyCall
    BY <1>0, <1>5, CallShape DEF Load
  <2>2. Own \in SessionState
    BY <1>0, <2>1 DEF ReadyCall, Own
  <2>3. (IF Own.root = NoRoot THEN Cwd ELSE Own.root) \in Root
    BY <2>2 DEF SessionState
  <2>4. call' \in SignCall
    BY <1>5, <2>1, <2>3, ListingType DEF Load, ReadyCall
  <2> QED
    BY <1>0, <1>5, <2>4, CallKinds DEF Load, TypeOK
<1>6. ASSUME NEW f \in File, SignFile(f)
      PROVE  TypeOK'
  <2>1. call \in SignCall
    BY <1>0, <1>6, CallShape DEF SignFile
  <2>2. (IF sources[call.root][f] = Missing(f) THEN Vanished ELSE sources[call.root][f]) \in 0..LastVersion
    BY <1>0, <2>1 DEF SignCall, Contents, Vanished
  <2>3. call' \in SignCall
    BY <1>6, <2>1, <2>2 DEF SignFile, SignCall, Signature
  <2> QED
    BY <1>0, <1>6, <2>3, CallKinds DEF SignFile, TypeOK
<1>7. CASE Keep
  <2>1. call \in SignCall
    BY <1>0, <1>7, CallShape DEF Keep
  <2>2. call' \in ReadyCall \union AnswerCall
    BY <1>7, <2>1, ReadyType DEF Keep, SignCall
  <2> QED
    BY <1>0, <1>7, <2>2, CallKinds DEF Keep, TypeOK
<1>8. CASE BeginScan
  <2>1. call \in SignCall
    BY <1>0, <1>8, CallShape DEF BeginScan
  <2>2. Unsigned \in Contents
    BY DEF Unsigned, Contents
  <2>3. call' \in ScanCall
    BY <1>8, <2>1, <2>2 DEF BeginScan, SignCall, ScanCall
  <2> QED
    BY <1>0, <1>8, <2>3, CallKinds DEF BeginScan, TypeOK
<1>9. ASSUME NEW f \in File, ScanFunctions(f) \/ ScanImports(f)
      PROVE  TypeOK'
  <2>1. call \in ScanCall
    BY <1>0, <1>9, CallShape DEF ScanFunctions, ScanImports
  <2>2. sources[call.root][f] \in 1..LastVersion
    BY <1>0, <2>1 DEF ScanCall, Contents
  <2>3. CASE ScanFunctions(f)
    <3>1. call' = [call EXCEPT !.todo = @ \ {f}, !.functions[f] = sources[call.root][f],
                               !.half = IF sources[call.root][f] = Missing(f) THEN {} ELSE {f}]
      BY <2>3 DEF ScanFunctions
    <3>2. call' \in ScanCall
      BY <2>1, <2>2, <3>1 DEF ScanCall, Contents
    <3> QED
      BY <1>0, <2>3, <3>2, CallKinds DEF ScanFunctions, TypeOK
  <2>4. CASE ScanImports(f)
    <3>1. call' \in ScanCall
      BY <2>1, <2>2, <2>4 DEF ScanImports, ScanCall, Contents
    <3> QED
      BY <1>0, <2>4, <3>1, CallKinds DEF ScanImports, TypeOK
  <2> QED
    BY <1>9, <2>3, <2>4
<1>10. CASE Commit
  <2>1. call \in ScanCall
    BY <1>0, <1>10, CallShape DEF Commit
  <2>2. call' \in ReadyCall \union AnswerCall
    BY <1>10, <2>1, ReadyType DEF Commit, ScanCall
  <2> DEFINE graph == [by |-> call.session, functions |-> call.functions, imports |-> call.imports]
  <2>3. graph \in Given \union Scan
    BY <2>1 DEF ScanCall, Scan
  <2>4. sessions' = [sessions EXCEPT ![call.session] =
                        WithGraph(sessions[call.session], graph, call.root, call.signature)]
    BY <1>10 DEF Commit
  <2> HIDE DEF graph
  <2>5. sessions' \in [Session -> SessionState] /\ \A t \in Session : Whole(sessions'[t])
    BY <2>1, <2>3, <2>4, SettingGraphTypes DEF ScanCall
  <2> QED
    BY <1>0, <1>10, <2>2, <2>5, CallKinds DEF Commit, TypeOK
<1>11. CASE Fail \/ Answer
  BY <1>0, <1>11, CallKinds DEF Fail, Answer, TypeOK
<1>12. ASSUME NEW s \in Session, NEW g \in Given, NEW r \in Root, NEW signed \in BOOLEAN,
              Give(s, g, r, signed)
       PROVE  TypeOK'
  <2> DEFINE signature == IF signed THEN sources[r] ELSE NoSignature
  <2>1. signature \in Signature \union {NoSignature}
    BY <1>0 DEF Contents, Signature
  <2>2. sessions' = [sessions EXCEPT ![s] = WithGraph(sessions[s], g, r, signature)]
    BY <1>12 DEF Give
  <2> HIDE DEF signature
  <2>3. sessions' \in [Session -> SessionState] /\ \A t \in Session : Whole(sessions'[t])
    BY <2>1, <2>2, SettingGraphTypes
  <2> QED
    BY <1>0, <1>12, <2>3 DEF Give, TypeOK
<1>13. ASSUME NEW s \in Session, NEW clearRoot \in BOOLEAN, Reset(s, clearRoot)
       PROVE  TypeOK'
  <2> DEFINE root == IF clearRoot THEN NoRoot ELSE sessions[s].root
             new == [Empty EXCEPT !.root = root]
  <2>1. new \in SessionState /\ Whole(new)
    BY <1>0 DEF Empty, SessionState, Whole
  <2>2. sessions' = [sessions EXCEPT ![s] = new]
    BY <1>13 DEF Reset
  <2> HIDE DEF new
  <2> QED
    BY <1>0, <1>13, <2>1, <2>2 DEF Reset, TypeOK
<1>14. CASE UNCHANGED vars
  BY <1>14 DEF vars, TypeOK
<1> QED
  BY <1>1, <1>2, <1>3, <1>4, <1>5, <1>6, <1>7, <1>8, <1>9, <1>10, <1>11, <1>12, <1>13, <1>14
  DEF Next, CallSteps

\* Sessions, files and the running call keep their types, and no session is loaded by
\* halves, whatever calls are made and whatever fails in them.
THEOREM TypeCorrect == Spec => []TypeOK
  BY InitType, NextType, PTL DEF Spec

(* Freshness.                                                              *)

\* What was hashed of a file is not newer than a content read later.
Before(f, hashed, v) == IF hashed = Vanished THEN f \notin Late /\ v = Missing(f) ELSE hashed <= v

\* What was hashed of a file is not older than the content when the call began.
Since(f, v, hashed) == IF hashed = Vanished THEN v # Missing(f) ELSE v <= hashed

\* What was read of a file after it was hashed, and is not newer than its content.
Read(f, hashed, v, now) == Before(f, hashed, v) /\ v <= now

SessionSound(session) ==
    session.graph \in Scan =>
        /\ session.signature \in Signature
        /\ session.digest = <<session.graph.functions, session.graph.imports>>
        /\ \A f \in File :
              /\ Read(f, session.signature[f], session.graph.functions[f], sources[session.identity][f])
              /\ Read(f, session.signature[f], session.graph.imports[f], sources[session.identity][f])

\* A file is hashed after the call began and before now.
Hashed(f) ==
    /\ Since(f, call.began[call.root][f], call.signature[f])
    /\ Before(f, call.signature[f], sources[call.root][f])

\* A file on the list was there when the call began, or is a late one and there to stay.
ListedSince(f) ==
    IF f \in Late THEN sources[call.root][f] # Missing(f)
    ELSE call.began[call.root][f] # Missing(f)

BeganBefore ==
    call.pc # "idle" => \A r \in Root, f \in File : call.began[r][f] <= sources[r][f]

SignSound ==
    call.pc = "sign" =>
        \A f \in File : IF f \in call.todo THEN ListedSince(f) ELSE Hashed(f)

\* One file at a time waits for its imports to be read.
HalfSound ==
    call.pc = "scan" => \A f \in call.half : f \notin call.todo /\ call.half = {f}

ScanSound ==
    call.pc = "scan" =>
        \A f \in File :
            /\ Hashed(f)
            /\ f \notin call.todo =>
                  Read(f, call.signature[f], call.functions[f], sources[call.root][f])
            /\ IF f \in call.todo \union call.half
               THEN call.imports[f] = Missing(f)
               ELSE Read(f, call.signature[f], call.imports[f], sources[call.root][f])

AnswerSound ==
    call.pc = "answer" /\ call.asked # NoRoot =>
        /\ Own.identity = call.asked
        /\ Own.graph \in Scan =>
              \A f \in File : Since(f, call.began[call.asked][f], Own.signature[f])

\* The inductive invariant: at every read, the order in which a file was hashed and
\* read again.
Sound ==
    /\ \A s \in Session : SessionSound(sessions[s])
    /\ BeganBefore
    /\ SignSound
    /\ HalfSound
    /\ ScanSound
    /\ AnswerSound

\* Without reverts, contents only go up.
LEMMA EditGoesUp ==
    ASSUME ~Reverts, TypeOK, TypeOK', NEW r \in Root, NEW f \in File, Edit(r, f)
    PROVE  \A q \in Root, g \in File : /\ sources[q][g] \in 1..LastVersion
                                       /\ sources'[q][g] \in 1..LastVersion
                                       /\ sources[q][g] <= sources'[q][g]
<1>1. PICK v \in 1..LastVersion : v > sources[r][f] /\ sources' = [sources EXCEPT ![r][f] = v]
  BY DEF Edit
<1>2. sources \in [Root -> Contents] /\ sources' \in [Root -> Contents]
  BY DEF TypeOK
<1> QED
  BY <1>1, <1>2 DEF Contents

\* A graph that is set with a signature taken before it was read leaves sessions sound.
LEMMA SettingGraphSound ==
    ASSUME TypeOK, Sound, NEW s \in Session, NEW graph \in Given \union Scan, NEW root \in Root,
           NEW signature \in Signature \union {NoSignature},
           graph \in Scan =>
               /\ signature \in Signature
               /\ \A f \in File : /\ Read(f, signature[f], graph.functions[f], sources[root][f])
                                  /\ Read(f, signature[f], graph.imports[f], sources[root][f]),
           sources' = sources,
           sessions' = [sessions EXCEPT ![s] = WithGraph(sessions[s], graph, root, signature)]
    PROVE  \A t \in Session : SessionSound(sessions[t])'
<1> DEFINE new == WithGraph(sessions[s], graph, root, signature)
<1>1. SessionSound(new)
  <2> SUFFICES ASSUME graph \in Scan
               PROVE  /\ new.signature = signature
                      /\ new.identity = root
                      /\ new.graph = graph
                      /\ new.digest = <<graph.functions, graph.imports>>
    BY DEF SessionSound, WithGraph
  <2> QED
    BY DEF WithGraph, Digest
<1>2. \A t \in Session : SessionSound(sessions[t])
  BY DEF Sound
<1>3. sessions \in [Session -> SessionState]
  BY DEF TypeOK
<1> HIDE DEF new
<1>4. sessions' = [sessions EXCEPT ![s] = new]
  BY DEF new
<1>5. \A t \in Session : SessionSound(sessions'[t])
  BY <1>1, <1>2, <1>3, <1>4
<1> QED
  BY <1>5 DEF SessionSound, Before, Read

LEMMA InitSound == Init => Sound
<1> SUFFICES ASSUME Init PROVE Sound
  OBVIOUS
<1>1. \A s \in Session : sessions[s].graph = NoGraph
  BY DEF Init, Empty
<1>2. call.pc = "idle"
  BY DEF Init, Idle
<1> QED
  BY <1>1, <1>2 DEF Sound, SessionSound, BeganBefore, SignSound, HalfSound, ScanSound, AnswerSound

\* Sessions stay sound when neither they nor the files change.
LEMMA SameSessions ==
    ASSUME Sound, UNCHANGED <<sources, sessions>>
    PROVE  \A s \in Session : SessionSound(sessions[s])'
  BY DEF Sound, SessionSound, Before, Read

\* A call that became ready for its next check, or idle, has nothing to keep.
LEMMA NothingToKeep ==
    ASSUME call'.pc \in {"idle", "ready"}
    PROVE  SignSound' /\ HalfSound' /\ ScanSound' /\ AnswerSound'
  BY DEF SignSound, HalfSound, ScanSound, AnswerSound

\* Where Ready leads, and what is then left to show.
LEMMA ReadySound ==
    ASSUME TypeOK, BeganBefore, call.pc # "idle", UNCHANGED sources,
           call.session \in Session, call.began \in Began,
           NEW asked \in Root \union {NoRoot},
           call' = Ready(asked),
           asked # NoRoot =>
               /\ sessions'[call.session].identity = asked
               /\ sessions'[call.session].graph \in Scan =>
                     \A f \in File : Since(f, call.began[asked][f],
                                           sessions'[call.session].signature[f])
    PROVE  BeganBefore' /\ SignSound' /\ HalfSound' /\ ScanSound' /\ AnswerSound'
<1>1. /\ call'.pc \in {"ready", "answer"}
      /\ call'.session = call.session
      /\ call'.began = call.began
      /\ call'.pc = "answer" => call'.asked = asked
  BY DEF Ready
<1>2. BeganBefore'
  BY <1>1 DEF BeganBefore
<1>3. SignSound' /\ HalfSound' /\ ScanSound'
  BY <1>1 DEF SignSound, HalfSound, ScanSound
<1>4. AnswerSound'
  BY <1>1 DEF AnswerSound, Own, Since
<1> QED
  BY <1>2, <1>3, <1>4

\* The list of the files of a root is taken when the call began or later.
LEMMA ListingSound ==
    ASSUME TypeOK, NEW s \in Session, NEW r \in Root, NEW left \in {1, 2}, NEW began \in Began,
           \A q \in Root, f \in File : began[q][f] <= sources[q][f],
           UNCHANGED sources,
           call' = Listing(s, r, left, began)
    PROVE  BeganBefore' /\ SignSound' /\ HalfSound' /\ ScanSound' /\ AnswerSound'
<1>1. call'.pc = "sign" /\ call'.began = began /\ call'.root = r /\ call'.signature = Unsigned
      /\ call'.todo = Listed(r)
  BY DEF Listing
<1>2. \A q \in Root, f \in File : sources[q][f] \in 1..LastVersion /\ began[q][f] \in 1..LastVersion
  BY DEF TypeOK, Contents, Began
<1>3. BeganBefore'
  BY <1>1 DEF BeganBefore
<1>4. SignSound'
  BY <1>1, <1>2 DEF SignSound, ListedSince, Listed, Unsigned, Hashed, Before, Since, Vanished
<1> QED
  BY <1>1, <1>3, <1>4 DEF HalfSound, ScanSound, AnswerSound

LEMMA NextSound ==
    ASSUME ~Reverts, TypeOK, TypeOK', Sound, [Next]_vars
    PROVE  Sound'
<1>0. /\ sources \in [Root -> Contents] /\ sources \in Began
      /\ call \in Call
      /\ sessions \in [Session -> SessionState]
      /\ \A s \in Session : Whole(sessions[s])
  BY DEF TypeOK, Began
<1>00. /\ \A s \in Session : SessionSound(sessions[s])
       /\ BeganBefore /\ SignSound /\ HalfSound /\ ScanSound /\ AnswerSound
  BY DEF Sound
<1>1. ASSUME NEW r \in Root, NEW f \in File, Edit(r, f)
      PROVE  Sound'
  <2>0. UNCHANGED <<sessions, call>>
    BY <1>1 DEF Edit
  <2>1. \A q \in Root, g \in File : /\ sources[q][g] \in 1..LastVersion
                                    /\ sources'[q][g] \in 1..LastVersion
                                    /\ sources[q][g] <= sources'[q][g]
    BY <1>1, EditGoesUp
  <2>2. ASSUME NEW s \in Session
        PROVE  SessionSound(sessions[s])'
    <3> SUFFICES ASSUME sessions[s].graph \in Scan
                 PROVE  SessionSound(sessions[s])'
      BY <2>0 DEF SessionSound
    <3>1. sessions[s].identity \in Root
      BY <1>0 DEF Whole
    <3>2. \A g \in File : /\ sessions[s].signature[g] \in 0..LastVersion
                          /\ sessions[s].graph.functions[g] \in 1..LastVersion
                          /\ sessions[s].graph.imports[g] \in 1..LastVersion
      BY <1>00 DEF SessionSound, Signature, Scan, Contents
    <3>3. SessionSound(sessions[s])
      BY <1>00
    <3>4. \A g \in File :
             /\ Read(g, sessions[s].signature[g], sessions[s].graph.functions[g],
                     sources'[sessions[s].identity][g])
             /\ Read(g, sessions[s].signature[g], sessions[s].graph.imports[g],
                     sources'[sessions[s].identity][g])
      BY <2>1, <3>1, <3>2, <3>3 DEF SessionSound, Before, Read, Vanished
    <3> QED
      BY <2>0, <3>3, <3>4 DEF SessionSound
  <2>3. BeganBefore'
    <3> SUFFICES ASSUME call.pc # "idle", NEW q \in Root, NEW g \in File
                 PROVE  call.began[q][g] <= sources'[q][g]
      BY <2>0 DEF BeganBefore
    <3>1. call.began \in Began
      BY <1>0, CallShape DEF ReadyCall, AnswerCall, SignCall, ScanCall
    <3> QED
      BY <1>00, <2>1, <3>1 DEF BeganBefore, Began, Contents
  <2>4. SignSound'
    <3> SUFFICES ASSUME call.pc = "sign"
                 PROVE  SignSound'
      BY <2>0 DEF SignSound
    <3>1. call \in SignCall
      BY <1>0, CallShape
    <3>2. call.root \in Root /\ \A g \in File : call.signature[g] \in 0..LastVersion
      BY <3>1 DEF SignCall, Signature
    <3>3. \A g \in File : Before(g, call.signature[g], sources[call.root][g])
                             => Before(g, call.signature[g], sources'[call.root][g])
      BY <2>1, <3>2 DEF Before, Read, Vanished
    <3>4. \A g \in File : Hashed(g) => Hashed(g)'
      BY <2>0, <3>3 DEF Hashed, Since
    <3>5. ASSUME NEW g \in Late, sources[call.root][g] # Missing(g)
          PROVE  sources'[call.root][g] # Missing(g)
      <4>1. /\ sources[call.root][g] \in 1..LastVersion /\ sources'[call.root][g] \in 1..LastVersion
            /\ sources[call.root][g] <= sources'[call.root][g]
        BY <2>1, <3>2
      <4> QED
        BY <3>5, <4>1
    <3>6. \A g \in File : ListedSince(g) => ListedSince(g)'
      BY <2>0, <3>5 DEF ListedSince
    <3> QED
      BY <1>00, <2>0, <3>4, <3>6 DEF SignSound
  <2>5. ScanSound'
    <3> SUFFICES ASSUME call.pc = "scan"
                 PROVE  ScanSound'
      BY <2>0 DEF ScanSound
    <3>1. call \in ScanCall
      BY <1>0, CallShape
    <3>2. /\ call.root \in Root
          /\ \A g \in File : /\ call.signature[g] \in 0..LastVersion
                             /\ call.functions[g] \in 1..LastVersion
                             /\ call.imports[g] \in 1..LastVersion
      BY <3>1 DEF ScanCall, Signature, Contents
    <3>3. \A g \in File : Before(g, call.signature[g], sources[call.root][g])
                             => Before(g, call.signature[g], sources'[call.root][g])
      <4> SUFFICES ASSUME NEW g \in File, Before(g, call.signature[g], sources[call.root][g])
                   PROVE  Before(g, call.signature[g], sources'[call.root][g])
        OBVIOUS
      <4>1. /\ call.signature[g] \in 0..LastVersion
            /\ sources[call.root][g] \in 1..LastVersion /\ sources'[call.root][g] \in 1..LastVersion
            /\ sources[call.root][g] <= sources'[call.root][g]
        BY <2>1, <3>2
      <4> QED
        BY <4>1 DEF Before, Vanished
    <3>4. \A g \in File : Read(g, call.signature[g], call.functions[g], sources[call.root][g])
                             => Read(g, call.signature[g], call.functions[g], sources'[call.root][g])
      BY <2>1, <3>2 DEF Read, Before, Vanished
    <3>5. \A g \in File : Read(g, call.signature[g], call.imports[g], sources[call.root][g])
                             => Read(g, call.signature[g], call.imports[g], sources'[call.root][g])
      BY <2>1, <3>2 DEF Read, Before, Vanished
    <3>6. \A g \in File : Hashed(g) => Hashed(g)'
      BY <2>0, <3>3 DEF Hashed, Since
    <3> QED
      BY <1>00, <2>0, <3>4, <3>5, <3>6 DEF ScanSound
  <2>6. AnswerSound'
    BY <1>00, <2>0 DEF AnswerSound, Own, Since
  <2>7. HalfSound'
    BY <1>00, <2>0 DEF HalfSound
  <2> QED
    BY <2>2, <2>3, <2>4, <2>5, <2>6, <2>7 DEF Sound
<1>2. ASSUME NEW s \in Session, NEW times \in {1, 2}, Begin(s, times)
      PROVE  Sound'
  <2>1. call'.pc = "ready" /\ call'.began = sources /\ UNCHANGED <<sources, sessions>>
    BY <1>2 DEF Begin
  <2>2. \A r \in Root, f \in File : sources[r][f] <= sources[r][f]
    BY <1>0 DEF Contents
  <2>3. BeganBefore'
    BY <2>1, <2>2 DEF BeganBefore
  <2> QED
    BY <2>1, <2>3, SameSessions, NothingToKeep DEF Sound
<1>3. ASSUME NEW r \in Root, LoadDefault(r)
      PROVE  Sound'
  <2>1. \A q \in Root, f \in File : sources[q][f] <= sources[q][f]
    BY <1>0 DEF Contents
  <2>2. BeganBefore' /\ SignSound' /\ HalfSound' /\ ScanSound' /\ AnswerSound'
    BY <1>0, <1>3, <2>1, ListingSound DEF LoadDefault
  <2> QED
    BY <1>3, <2>2, SameSessions DEF LoadDefault, Sound
<1>4. CASE Adopt
  <2>1. call \in ReadyCall
    BY <1>0, <1>4, CallShape DEF Adopt
  <2> DEFINE other == sessions[Default]
  <2>2. /\ other \in SessionState
        /\ other.graph \in Given \union Scan
        /\ other.root \in Root /\ other.identity = other.root
        /\ other.signature \in Signature \union {NoSignature}
    BY <1>0, <1>4 DEF Adopt, Adoptable, SessionState, Whole
  <2>3. sessions' = [sessions EXCEPT ![call.session] =
                        WithGraph(sessions[call.session], other.graph, other.root, other.signature)]
    BY <1>4 DEF Adopt
  <2>4. SessionSound(other)
    BY <1>00
  <2>5. other.graph \in Scan =>
               /\ other.signature \in Signature
               /\ \A f \in File :
                     /\ Read(f, other.signature[f], other.graph.functions[f], sources[other.root][f])
                     /\ Read(f, other.signature[f], other.graph.imports[f], sources[other.root][f])
    BY <2>2, <2>4 DEF SessionSound
  <2>6. call.session \in Session /\ call.began \in Began /\ call.pc # "idle"
    BY <2>1 DEF ReadyCall
  <2> HIDE DEF other
  <2>7. \A t \in Session : SessionSound(sessions[t])'
    <3>1. sources' = sources
      BY <1>4 DEF Adopt
    <3> QED
      BY <2>2, <2>3, <2>5, <2>6, <3>1, SettingGraphSound
  <2>8. BeganBefore' /\ SignSound' /\ HalfSound' /\ ScanSound' /\ AnswerSound'
    BY <1>00, <1>4, <2>6, ReadySound DEF Adopt
  <2> QED
    BY <2>7, <2>8 DEF Sound
<1>5. CASE Load
  <2>1. call \in ReadyCall
    BY <1>0, <1>5, CallShape DEF Load
  <2>2. call.session \in Session /\ call.left \in {1, 2} /\ call.began \in Began /\ call.pc # "idle"
    BY <2>1 DEF ReadyCall
  <2>3. (IF Own.root = NoRoot THEN Cwd ELSE Own.root) \in Root
    BY <1>0, <2>2 DEF Own, SessionState
  <2>4. BeganBefore' /\ SignSound' /\ HalfSound' /\ ScanSound' /\ AnswerSound'
    BY <1>00, <1>5, <2>2, <2>3, ListingSound DEF Load, BeganBefore
  <2> QED
    BY <1>5, <2>4, SameSessions DEF Load, Sound
<1>6. ASSUME NEW f \in File, SignFile(f)
      PROVE  Sound'
  <2>1. call \in SignCall
    BY <1>0, <1>6, CallShape DEF SignFile
  <2>2. /\ call.root \in Root /\ call.signature \in [File -> 0..LastVersion] /\ call.began \in Began
        /\ sources[call.root] \in Contents /\ call.began[call.root] \in Contents
    BY <1>0, <2>1 DEF SignCall, Signature, Began
  <2> DEFINE hashed == IF sources[call.root][f] = Missing(f) THEN Vanished ELSE sources[call.root][f]
  <2>3. /\ call'.pc = "sign" /\ call'.began = call.began /\ call'.root = call.root
        /\ call'.todo = call.todo \ {f}
        /\ call'.signature = [call.signature EXCEPT ![f] = hashed]
        /\ UNCHANGED <<sources, sessions>>
    BY <1>6, <2>1 DEF SignFile, SignCall
  <2>4. BeganBefore'
    BY <1>00, <1>6, <2>3 DEF BeganBefore, SignFile
  <2>5. Since(f, call.began[call.root][f], hashed) /\ Before(f, hashed, sources[call.root][f])
    <3>1. ListedSince(f) /\ call.began[call.root][f] <= sources[call.root][f]
      BY <1>00, <1>6, <2>2 DEF SignSound, BeganBefore, SignFile
    <3>2. sources[call.root][f] \in 1..LastVersion /\ call.began[call.root][f] \in 1..LastVersion
      BY <2>2 DEF Contents
    <3>3. CASE sources[call.root][f] = Missing(f)
      BY <3>1, <3>2, <3>3 DEF Since, Before, ListedSince
    <3>4. CASE sources[call.root][f] # Missing(f)
      BY <3>1, <3>2, <3>4 DEF Since, Before, Vanished
    <3> QED
      BY <3>3, <3>4
  <2> HIDE DEF hashed
  <2>6. SignSound'
    <3> SUFFICES ASSUME NEW g \in File
                 PROVE  IF g \in call'.todo THEN ListedSince(g)' ELSE Hashed(g)'
      BY DEF SignSound
    <3>1. IF g \in call.todo THEN ListedSince(g) ELSE Hashed(g)
      BY <1>00, <1>6 DEF SignSound, SignFile
    <3>2. CASE g = f
      BY <2>2, <2>3, <2>5, <3>2 DEF Hashed, Since, Before
    <3>3. CASE g # f
      BY <2>2, <2>3, <3>1, <3>3 DEF Hashed, Since, Before, ListedSince
    <3> QED
      BY <3>2, <3>3
  <2>7. HalfSound' /\ ScanSound' /\ AnswerSound'
    BY <2>3 DEF HalfSound, ScanSound, AnswerSound
  <2> QED
    BY <2>3, <2>4, <2>6, <2>7, SameSessions DEF Sound
<1>7. CASE Keep
  <2>1. call \in SignCall
    BY <1>0, <1>7, CallShape DEF Keep
  <2>2. call.session \in Session /\ call.began \in Began /\ call.pc # "idle" /\ call.root \in Root
    BY <2>1 DEF SignCall
  <2>3. /\ Own.identity = call.root /\ Own.signature = call.signature
        /\ call' = Ready(call.root) /\ UNCHANGED <<sources, sessions>>
    BY <1>7 DEF Keep, Current
  <2>4. \A f \in File : Since(f, call.began[call.root][f], call.signature[f])
    BY <1>00, <1>7 DEF Keep, SignSound, Hashed
  <2>5. BeganBefore' /\ SignSound' /\ HalfSound' /\ ScanSound' /\ AnswerSound'
    BY <1>00, <2>2, <2>3, <2>4, ReadySound DEF Own
  <2> QED
    BY <2>3, <2>5, SameSessions DEF Sound
<1>8. CASE BeginScan
  <2>1. call \in SignCall
    BY <1>0, <1>8, CallShape DEF BeginScan
  <2>2. /\ call'.pc = "scan" /\ call'.began = call.began /\ call'.root = call.root
        /\ call'.signature = call.signature /\ call'.todo = File /\ call'.imports = Unsigned
        /\ call'.half = {}
        /\ UNCHANGED <<sources, sessions>>
    BY <1>8 DEF BeginScan
  <2>3. \A f \in File : Hashed(f)
    BY <1>00, <1>8 DEF BeginScan, SignSound
  <2>4. ScanSound'
    BY <2>2, <2>3 DEF ScanSound, Unsigned, Hashed, Since, Before
  <2>5. BeganBefore'
    BY <1>00, <1>8, <2>2 DEF BeginScan, BeganBefore
  <2> QED
    BY <2>2, <2>4, <2>5, SameSessions DEF SignSound, HalfSound, AnswerSound, Sound
<1>9. ASSUME NEW f \in File, ScanFunctions(f)
      PROVE  Sound'
  <2>1. call \in ScanCall
    BY <1>0, <1>9, CallShape DEF ScanFunctions
  <2>2. /\ call.functions \in [File -> 1..LastVersion] /\ call.root \in Root /\ call.half = {}
        /\ call.signature \in [File -> 0..LastVersion] /\ f \in call.todo
        /\ sources[call.root] \in [File -> 1..LastVersion]
    BY <1>0, <1>9, <2>1 DEF ScanCall, Contents, Signature, ScanFunctions
  <2>3. /\ call'.pc = "scan" /\ call'.began = call.began /\ call'.root = call.root
        /\ call'.signature = call.signature /\ call'.imports = call.imports
        /\ call'.todo = call.todo \ {f}
        /\ call'.functions = [call.functions EXCEPT ![f] = sources[call.root][f]]
        /\ call'.half = IF sources[call.root][f] = Missing(f) THEN {} ELSE {f}
        /\ UNCHANGED <<sources, sessions>>
    BY <1>9, <2>1 DEF ScanFunctions, ScanCall
  <2>4. BeganBefore'
    BY <1>00, <1>9, <2>3 DEF ScanFunctions, BeganBefore
  <2>5. ScanSound'
    <3> SUFFICES ASSUME NEW g \in File
                 PROVE  /\ Hashed(g)
                        /\ g \notin call'.todo =>
                              Read(g, call.signature[g], call'.functions[g], sources[call.root][g])
                        /\ IF g \in call'.todo \union call'.half
                           THEN call.imports[g] = Missing(g)
                           ELSE Read(g, call.signature[g], call.imports[g], sources[call.root][g])
      BY <2>3 DEF ScanSound, Hashed, Since, Before, Read
    <3>1. /\ Hashed(g)
          /\ g \notin call.todo => Read(g, call.signature[g], call.functions[g], sources[call.root][g])
          /\ IF g \in call.todo
             THEN call.imports[g] = Missing(g)
             ELSE Read(g, call.signature[g], call.imports[g], sources[call.root][g])
      BY <1>00, <1>9, <2>2 DEF ScanSound, ScanFunctions
    <3>2. CASE g = f
      <4>1. Read(f, call.signature[f], sources[call.root][f], sources[call.root][f])
        BY <2>2, <3>1, <3>2 DEF Hashed, Read
      <4> QED
        BY <2>2, <2>3, <3>1, <3>2, <4>1
    <3>3. CASE g # f
      BY <2>2, <2>3, <3>1, <3>3
    <3> QED
      BY <3>2, <3>3
  <2>6. HalfSound'
    BY <2>3 DEF HalfSound
  <2> QED
    BY <2>3, <2>4, <2>5, <2>6, SameSessions DEF SignSound, AnswerSound, Sound
<1>10. ASSUME NEW f \in File, ScanImports(f)
       PROVE  Sound'
  <2>1. call \in ScanCall
    BY <1>0, <1>10, CallShape DEF ScanImports
  <2>2. /\ call.imports \in [File -> 1..LastVersion] /\ call.root \in Root /\ f \in call.half
        /\ call.signature \in [File -> 0..LastVersion]
        /\ sources[call.root] \in [File -> 1..LastVersion]
    BY <1>0, <1>10, <2>1 DEF ScanCall, Contents, Signature, ScanImports
  <2>3. /\ call'.pc = "scan" /\ call'.began = call.began /\ call'.root = call.root
        /\ call'.signature = call.signature /\ call'.functions = call.functions
        /\ call'.todo = call.todo /\ call'.half = {}
        /\ call'.imports = [call.imports EXCEPT ![f] = sources[call.root][f]]
        /\ UNCHANGED <<sources, sessions>>
    BY <1>10, <2>1 DEF ScanImports, ScanCall
  <2>4. BeganBefore'
    BY <1>00, <1>10, <2>3 DEF ScanImports, BeganBefore
  <2>5. call.half = {f} /\ f \notin call.todo
    BY <1>00, <1>10, <2>2 DEF HalfSound, ScanImports
  <2>6. ScanSound'
    <3> SUFFICES ASSUME NEW g \in File
                 PROVE  /\ Hashed(g)
                        /\ g \notin call.todo =>
                              Read(g, call.signature[g], call.functions[g], sources[call.root][g])
                        /\ IF g \in call.todo
                           THEN call'.imports[g] = Missing(g)
                           ELSE Read(g, call.signature[g], call'.imports[g], sources[call.root][g])
      BY <2>3 DEF ScanSound, Hashed, Since, Before, Read
    <3>1. /\ Hashed(g)
          /\ g \notin call.todo => Read(g, call.signature[g], call.functions[g], sources[call.root][g])
          /\ IF g \in call.todo \/ g = f
             THEN call.imports[g] = Missing(g)
             ELSE Read(g, call.signature[g], call.imports[g], sources[call.root][g])
      BY <1>00, <1>10, <2>5 DEF ScanSound, ScanImports
    <3>2. CASE g = f
      <4>1. Read(f, call.signature[f], sources[call.root][f], sources[call.root][f])
        BY <2>2, <3>1, <3>2 DEF Hashed, Read
      <4> QED
        BY <2>2, <2>3, <2>5, <3>1, <3>2, <4>1
    <3>3. CASE g # f
      BY <2>2, <2>3, <3>1, <3>3
    <3> QED
      BY <3>2, <3>3
  <2>7. HalfSound'
    BY <2>3 DEF HalfSound
  <2> QED
    BY <2>3, <2>4, <2>6, <2>7, SameSessions DEF SignSound, AnswerSound, Sound
<1>11. CASE Commit
  <2>1. call \in ScanCall
    BY <1>0, <1>11, CallShape DEF Commit
  <2>2. /\ call.session \in Session /\ call.began \in Began /\ call.pc # "idle"
        /\ call.root \in Root /\ call.signature \in Signature
    BY <2>1 DEF ScanCall
  <2> DEFINE graph == [by |-> call.session, functions |-> call.functions, imports |-> call.imports]
             new == WithGraph(sessions[call.session], graph, call.root, call.signature)
  <2>3. graph \in Given \union Scan
    BY <2>1 DEF ScanCall, Scan
  <2>4. \A f \in File : /\ Read(f, call.signature[f], graph.functions[f], sources[call.root][f])
                        /\ Read(f, call.signature[f], graph.imports[f], sources[call.root][f])
    BY <1>00, <1>11 DEF Commit, ScanSound
  <2>5. sessions' = [sessions EXCEPT ![call.session] = new] /\ sources' = sources
    BY <1>11 DEF Commit
  <2>6. new.identity = call.root /\ new.signature = call.signature
    BY <2>2 DEF WithGraph
  <2> HIDE DEF graph
  <2>7. \A t \in Session : SessionSound(sessions[t])'
    BY <2>2, <2>3, <2>4, <2>5, SettingGraphSound
  <2> HIDE DEF new
  <2>8. sessions'[call.session] = new
    BY <1>0, <2>2, <2>5
  <2>9. \A f \in File : Since(f, call.began[call.root][f], call.signature[f])
    BY <1>00, <1>11 DEF Commit, ScanSound, Hashed
  <2>10. BeganBefore' /\ SignSound' /\ HalfSound' /\ ScanSound' /\ AnswerSound'
    BY <1>00, <1>11, <2>2, <2>5, <2>6, <2>8, <2>9, ReadySound DEF Commit
  <2> QED
    BY <2>7, <2>10 DEF Sound
<1>12. CASE Fail \/ Answer
  <2>1. call'.pc = "idle" /\ UNCHANGED <<sources, sessions>>
    BY <1>12 DEF Fail, Answer, Idle
  <2> QED
    BY <2>1, SameSessions, NothingToKeep DEF Sound, BeganBefore
<1>13. ASSUME NEW s \in Session, NEW g \in Given, NEW r \in Root, NEW signed \in BOOLEAN,
              Give(s, g, r, signed)
       PROVE  Sound'
  <2> DEFINE signature == IF signed THEN sources[r] ELSE NoSignature
  <2>1. signature \in Signature \union {NoSignature}
    BY <1>0 DEF Contents, Signature
  <2>2. /\ sessions' = [sessions EXCEPT ![s] = WithGraph(sessions[s], g, r, signature)]
        /\ UNCHANGED <<sources, call>> /\ call.pc = "idle"
    BY <1>13 DEF Give, Idle
  <2>3. g \notin Scan
    OBVIOUS
  <2> HIDE DEF signature
  <2>4. \A t \in Session : SessionSound(sessions[t])'
    BY <2>1, <2>2, <2>3, SettingGraphSound
  <2> QED
    BY <2>2, <2>4, NothingToKeep DEF Sound, BeganBefore
<1>14. ASSUME NEW s \in Session, NEW clearRoot \in BOOLEAN, Reset(s, clearRoot)
       PROVE  Sound'
  <2> DEFINE new == [Empty EXCEPT !.root = IF clearRoot THEN NoRoot ELSE sessions[s].root]
  <2>1. new.graph \notin Scan
    BY DEF Empty
  <2>2. /\ sessions' = [sessions EXCEPT ![s] = new]
        /\ UNCHANGED <<sources, call>> /\ call.pc = "idle"
    BY <1>14 DEF Reset, Idle
  <2> HIDE DEF new
  <2>3. \A t \in Session : SessionSound(sessions'[t])
    BY <1>0, <1>00, <2>1, <2>2 DEF SessionSound
  <2>4. \A t \in Session : SessionSound(sessions[t])'
    BY <2>2, <2>3 DEF SessionSound, Read, Before
  <2> QED
    BY <2>2, <2>4, NothingToKeep DEF Sound, BeganBefore
<1>15. CASE UNCHANGED vars
  <2>1. UNCHANGED <<sources, sessions, call>>
    BY <1>15 DEF vars
  <2> QED
    BY <1>00, <2>1, SameSessions
    DEF Sound, BeganBefore, SignSound, HalfSound, ScanSound, AnswerSound, Hashed, ListedSince, Since, Before, Read, Own
<1> QED
  BY <1>1, <1>2, <1>3, <1>4, <1>5, <1>6, <1>7, <1>8, <1>9, <1>10, <1>11, <1>12, <1>13, <1>14, <1>15
  DEF Next, CallSteps

LEMMA AlwaysSound ==
    ASSUME ~Reverts
    PROVE  Spec => [](TypeOK /\ Sound)
<1>1. Init => TypeOK /\ Sound
  BY InitType, InitSound
<1>2. TypeOK /\ Sound /\ [Next]_vars => TypeOK' /\ Sound'
  BY NextType, NextSound
<1> QED
  BY <1>1, <1>2, PTL DEF Spec

\* What was hashed after the call began was read no earlier than that: answers are
\* never older than the call they answer, for any files, sessions and edits.
THEOREM AnswersAreFresh ==
    ASSUME ~Reverts
    PROVE  Spec => []FreshAsOfCall
<1>1. TypeOK /\ Sound => FreshAsOfCall
  <2> SUFFICES ASSUME TypeOK, Sound, call.pc = "answer", call.asked # NoRoot, Own.graph \in Scan,
                      NEW f \in File
               PROVE  /\ call.began[call.asked][f] <= Own.graph.functions[f]
                      /\ call.began[call.asked][f] <= Own.graph.imports[f]
    BY DEF FreshAsOfCall, Sound, AnswerSound
  <2>1. call \in AnswerCall
    BY CallShape DEF TypeOK
  <2>2. call.session \in Session /\ call.began[call.asked][f] \in 1..LastVersion
    BY <2>1 DEF AnswerCall, Began, Contents
  <2>3. SessionSound(Own) /\ Since(f, call.began[call.asked][f], Own.signature[f])
    BY <2>2 DEF Sound, AnswerSound, Own
  <2>4. /\ Own.signature[f] \in 0..LastVersion
        /\ Own.graph.functions[f] \in 1..LastVersion /\ Own.graph.imports[f] \in 1..LastVersion
    BY <2>3 DEF SessionSound, Signature, Scan, Contents
  <2>5. /\ Before(f, Own.signature[f], Own.graph.functions[f])
        /\ Before(f, Own.signature[f], Own.graph.imports[f])
    BY <2>3 DEF SessionSound, Read
  <2> QED
    BY <2>2, <2>3, <2>4, <2>5 DEF Before, Since, Vanished
<1> QED
  BY <1>1, AlwaysSound, PTL

\* A session whose graph fell behind the files is found out by the next check.
THEOREM StaleIsAlwaysNoticed ==
    ASSUME ~Reverts
    PROVE  Spec => []StaleIsNoticed
<1>1. TypeOK /\ Sound => StaleIsNoticed
  <2> SUFFICES ASSUME TypeOK, Sound, NEW s \in Session, sessions[s].graph \in Scan,
                      sessions[s].signature = sources[sessions[s].identity]
               PROVE  /\ sessions[s].graph.functions = sources[sessions[s].identity]
                      /\ sessions[s].graph.imports = sources[sessions[s].identity]
    BY DEF StaleIsNoticed
  <2> DEFINE graph == sessions[s].graph
             now == sources[sessions[s].identity]
  <2>1. now \in [File -> 1..LastVersion]
    BY DEF TypeOK, Whole, Contents
  <2>2. graph.functions \in [File -> 1..LastVersion] /\ graph.imports \in [File -> 1..LastVersion]
    BY DEF Scan, Contents
  <2>3. \A f \in File : Read(f, now[f], graph.functions[f], now[f]) /\ Read(f, now[f], graph.imports[f], now[f])
    BY DEF Sound, SessionSound
  <2> HIDE DEF graph, now
  <2>4. \A f \in File : graph.functions[f] = now[f] /\ graph.imports[f] = now[f]
    BY <2>1, <2>2, <2>3 DEF Read, Before, Vanished
  <2>5. graph.functions = now /\ graph.imports = now
    BY <2>1, <2>2, <2>4
  <2> QED
    BY <2>5 DEF graph, now
<1> QED
  BY <1>1, AlwaysSound, PTL

\* With no edit since the call began, the labels of an answer are those of its graph.
THEOREM QuietCallsAreLabelled ==
    ASSUME ~Reverts
    PROVE  Spec => []QuietCallIsLabelled
<1>1. TypeOK /\ Sound => QuietCallIsLabelled
  <2> SUFFICES ASSUME TypeOK, Sound, call.pc = "answer", call.asked # NoRoot, Own.graph \in Scan,
                      call.began[call.asked] = sources[call.asked]
               PROVE  Own.signature = Own.graph.functions /\ Own.digest = <<Own.signature, Own.signature>>
    BY DEF QuietCallIsLabelled
  <2> DEFINE graph == Own.graph
             signature == Own.signature
             now == sources[call.asked]
  <2>1. call \in AnswerCall
    BY CallShape DEF TypeOK
  <2>2. now \in [File -> 1..LastVersion]
    BY <2>1 DEF TypeOK, Contents, AnswerCall
  <2>3. SessionSound(Own) /\ Own.identity = call.asked
        /\ \A f \in File : Since(f, now[f], signature[f])
    BY <2>1 DEF Sound, AnswerSound, Own, AnswerCall
  <2>4. /\ graph.functions \in [File -> 1..LastVersion] /\ graph.imports \in [File -> 1..LastVersion]
        /\ signature \in [File -> 0..LastVersion]
        /\ Own.digest = <<graph.functions, graph.imports>>
    BY <2>3 DEF SessionSound, Signature, Scan, Contents
  <2>5. \A f \in File : Read(f, signature[f], graph.functions[f], now[f])
                        /\ Read(f, signature[f], graph.imports[f], now[f])
    BY <2>3 DEF SessionSound
  <2> HIDE DEF graph, signature, now
  <2>6. \A f \in File : graph.functions[f] = signature[f] /\ graph.imports[f] = signature[f]
    BY <2>2, <2>3, <2>4, <2>5 DEF Read, Before, Since, Vanished
  <2>7. graph.functions = signature /\ graph.imports = signature
    BY <2>4, <2>6
  <2> QED
    BY <2>4, <2>7 DEF graph, signature
<1> QED
  BY <1>1, AlwaysSound, PTL
====
