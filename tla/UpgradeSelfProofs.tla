-------------------------- MODULE UpgradeSelfProofs --------------------------
(***************************************************************************)
(* Type correctness of UpgradeSelf and, for any number of processes, that  *)
(* no two of them write the same program file and none writes the file of  *)
(* a running program: unlinking the program is what excludes the others.   *)
(* Of an upgrade that is alone: its advice is true, and it leaves a program*)
(* that works unless something fails.                                      *)
(***************************************************************************)
EXTENDS UpgradeSelf, TLAPS

\* A call that starts has a well-typed local state.
LEMMA NoCallType == NoCall \in Call
  BY VersionAssumption, ChunkAssumption DEF NoCall, Call, NoFile, State

\* Leaving a call, and moving on inside it, keep the types.
LEMMA ReturnType ==
  ASSUME TypeOK, NEW p \in Proc, NEW r \in Results, Return(p, r)
  PROVE  /\ pc'   \in [Proc -> Labels]
         /\ ret'  \in [Proc -> Results]
         /\ call' \in [Proc -> Call]
  BY NoCallType DEF TypeOK, Return, Labels

LEMMA GotoType ==
  ASSUME TypeOK, NEW p \in Proc, NEW l \in Labels, Goto(p, l)
  PROVE  pc' \in [Proc -> Labels] /\ ret' \in [Proc -> Results]
  BY DEF TypeOK, Goto

LEMMA InitTypeOK == Init => TypeOK
<1> SUFFICES ASSUME Init PROVE TypeOK
  OBVIOUS
<1>1. json \in Tag \cup {NoTag} /\ latest \in Tag /\ path \in Inode \cup {NoFile}
  BY DEF Init
<1>2. body \in [Inode -> File]
  BY DEF Init, File
<1>3. /\ tarball \in [Version -> SUBSET Chunk]
      /\ unpacked \in [Version -> State]
      /\ pc \in [Proc -> Labels] /\ ret \in [Proc -> Results]
      /\ met \subseteq Proc /\ faulty \subseteq Proc
  BY DEF Init, State, Labels, Results
<1>4. call \in [Proc -> Call]
  BY NoCallType DEF Init
<1> QED
  BY <1>1, <1>2, <1>3, <1>4 DEF TypeOK

\* One step per action.
LEMMA NextTypeOK == TypeOK /\ [Next]_vars => TypeOK'
<1> SUFFICES ASSUME TypeOK, [Next]_vars PROVE TypeOK'
  OBVIOUS
<1> USE DEF server, tmp, program, past
<1>1. ASSUME Publish PROVE TypeOK'
  BY <1>1 DEF Publish, TypeOK
<1>2. ASSUME NEW p \in Proc, Start(p) PROVE TypeOK'
  <2>1. path \in Inode /\ body[path].version \in Version
    BY <1>2 DEF Start, Works, TypeOK, File
  <2>2. [NoCall EXCEPT !.exe = path, !.own = body[path].version] \in Call
    BY <2>1, NoCallType DEF NoCall, Call
  <2>3. call' \in [Proc -> Call]
    BY <1>2, <2>2 DEF Start, TypeOK
  <2>4. pc' \in [Proc -> Labels] /\ ret' \in [Proc -> Results]
    BY <1>2 DEF Start, TypeOK, Labels, Results
  <2>5. met' \subseteq Proc /\ faulty' \subseteq Proc
    BY <1>2 DEF Start, TypeOK, Running
  <2> QED
    BY <1>2, <2>3, <2>4, <2>5 DEF Start, TypeOK
<1>3. ASSUME NEW p \in Proc, OpenJson(p) \/ Answer(p) PROVE TypeOK'
  <2>1. pc' \in [Proc -> Labels] /\ ret' \in [Proc -> Results]
    BY <1>3, GotoType DEF OpenJson, Answer, Labels
  <2> QED
    BY <1>3, <2>1 DEF OpenJson, Answer, TypeOK
<1>4. ASSUME NEW p \in Proc, Scan(p) PROVE TypeOK'
  <2>1. json.version \in Version
    BY TagAssumption, VersionAssumption DEF TypeOK, NoTag
  <2>2. [call[p] EXCEPT !.found = json.version] \in Call
    BY <2>1 DEF TypeOK, Call
  <2>3. pc' \in [Proc -> Labels] /\ ret' \in [Proc -> Results] /\ call' \in [Proc -> Call]
    <3>1. CASE Return(p, "ERROR") \/ Return(p, "LATEST")
      BY <3>1, ReturnType DEF Results
    <3>2. CASE Goto(p, "fetch") /\ call' = [call EXCEPT ![p].found = json.version]
      BY <3>2, <2>2, GotoType DEF Labels, TypeOK
    <3> QED
      BY <1>4, <3>1, <3>2 DEF Scan
  <2> QED
    BY <1>4, <2>3 DEF Scan, TypeOK
<1>5. ASSUME NEW p \in Proc, OpenTarball(p) PROVE TypeOK'
  <2>1. pc' \in [Proc -> Labels] /\ ret' \in [Proc -> Results] /\ call' \in [Proc -> Call]
    BY <1>5, ReturnType, GotoType DEF OpenTarball, Labels, Results, TypeOK
  <2>2. tarball' \in [Version -> SUBSET Chunk]
    BY <1>5 DEF OpenTarball, TypeOK
  <2> QED
    BY <1>5, <2>1, <2>2 DEF OpenTarball, TypeOK
<1>6. ASSUME NEW p \in Proc, WriteTarball(p) PROVE TypeOK'
  <2>1. call[p] \in Call /\ call[p].pos + 1 \in 0..NChunks /\ call[p].pos + 1 \in Chunk
    BY <1>6, ChunkAssumption DEF WriteTarball, TypeOK, Call, Chunk
  <2>2. [call[p] EXCEPT !.pos = @ + 1] \in Call
    BY <2>1 DEF Call
  <2>3. call' \in [Proc -> Call]
    BY <1>6, <2>2 DEF WriteTarball, TypeOK
  <2>4. tarball' \in [Version -> SUBSET Chunk]
    BY <1>6, <2>1 DEF WriteTarball, TypeOK
  <2> QED
    BY <1>6, <2>3, <2>4 DEF WriteTarball, TypeOK
<1>7. ASSUME NEW p \in Proc, CloseTarball(p) PROVE TypeOK'
  <2>1. pc' \in [Proc -> Labels] /\ ret' \in [Proc -> Results]
    BY <1>7, GotoType DEF CloseTarball, Labels
  <2> QED
    BY <1>7, <2>1 DEF CloseTarball, TypeOK
<1>8. ASSUME NEW p \in Proc, Unpack(p) \/ Unpacked(p) PROVE TypeOK'
  <2>1. pc' \in [Proc -> Labels] /\ ret' \in [Proc -> Results] /\ call' \in [Proc -> Call]
    BY <1>8, ReturnType, GotoType DEF Unpack, Unpacked, Labels, Results, TypeOK
  <2>2. unpacked' \in [Version -> State]
    BY <1>8 DEF Unpack, Unpacked, TypeOK, State
  <2> QED
    BY <1>8, <2>1, <2>2 DEF Unpack, Unpacked, TypeOK
<1>9. ASSUME NEW p \in Proc, SelfPath(p) \/ Unlink(p) PROVE TypeOK'
  <2>1. pc' \in [Proc -> Labels] /\ ret' \in [Proc -> Results] /\ call' \in [Proc -> Call]
    BY <1>9, ReturnType, GotoType DEF SelfPath, Unlink, Labels, Results, TypeOK
  <2> QED
    BY <1>9, <2>1 DEF SelfPath, Unlink, TypeOK
<1>10. ASSUME NEW p \in Proc, OpenCopy(p) PROVE TypeOK'
  <2>1. CASE Return(p, "BY_HAND") /\ UNCHANGED program
    <3>1. pc' \in [Proc -> Labels] /\ ret' \in [Proc -> Results] /\ call' \in [Proc -> Call]
      BY <2>1, ReturnType DEF Results
    <3> QED
      BY <1>10, <2>1, <3>1 DEF OpenCopy, TypeOK
  <2>2. CASE ~(Return(p, "BY_HAND") /\ UNCHANGED program)
    <3>1. PICK i \in Inode :
            /\ path' = i
            /\ body' = [body EXCEPT ![i] = [version |-> call[p].found, whole |-> FALSE,
                                            exec |-> path = i /\ body[i].exec]]
            /\ call' = [call EXCEPT ![p].dst = i, ![p].src = unpacked[call[p].found]]
            /\ Goto(p, "copy")
      BY <1>10, <2>2 DEF OpenCopy
    <3>2. call[p] \in Call /\ call[p].found \in Version /\ unpacked[call[p].found] \in State
      BY DEF TypeOK, Call
    <3>3. [version |-> call[p].found, whole |-> FALSE, exec |-> path = i /\ body[i].exec] \in File
      BY <3>2 DEF File
    <3>4. body' \in [Inode -> File]
      BY <3>1, <3>3 DEF TypeOK
    <3>5. [call[p] EXCEPT !.dst = i, !.src = unpacked[call[p].found]] \in Call
      BY <3>2 DEF Call
    <3>6. call' \in [Proc -> Call]
      BY <3>1, <3>5 DEF TypeOK
    <3>7. pc' \in [Proc -> Labels] /\ ret' \in [Proc -> Results]
      BY <3>1, GotoType DEF Labels
    <3> QED
      BY <1>10, <3>1, <3>4, <3>6, <3>7 DEF OpenCopy, TypeOK
  <2> QED
    BY <2>1, <2>2
<1>11. ASSUME NEW p \in Proc, Copied(p) PROVE TypeOK'
  <2>1. pc' \in [Proc -> Labels] /\ ret' \in [Proc -> Results]
    BY <1>11, GotoType DEF Copied, Labels
  <2>2. body' \in [Inode -> File]
    BY <1>11 DEF Copied, TypeOK, File
  <2> QED
    BY <1>11, <2>1, <2>2 DEF Copied, TypeOK
<1>12. ASSUME NEW p \in Proc, Chmod(p) PROVE TypeOK'
  <2>1. pc' \in [Proc -> Labels] /\ ret' \in [Proc -> Results] /\ call' \in [Proc -> Call]
    BY <1>12, ReturnType DEF Chmod, Results
  <2>2. body' \in [Inode -> File]
    BY <1>12 DEF Chmod, TypeOK, File
  <2> QED
    BY <1>12, <2>1, <2>2 DEF Chmod, TypeOK
<1>13. ASSUME NEW p \in Proc, Fails(p) \/ Kill(p) PROVE TypeOK'
  <2>1. pc' \in [Proc -> Labels] /\ ret' \in [Proc -> Results] /\ call' \in [Proc -> Call]
    BY <1>13, ReturnType DEF Fails, Kill, Results
  <2> QED
    BY <1>13, <2>1 DEF Fails, Kill, Blame, TypeOK
<1>14. ASSUME NEW p \in Proc, LosesTail(p) PROVE TypeOK'
  <2>1. pc' \in [Proc -> Labels] /\ ret' \in [Proc -> Results]
    BY <1>14, GotoType DEF LosesTail, Labels
  <2> QED
    BY <1>14, <2>1 DEF LosesTail, Blame, TypeOK
<1>15. ASSUME UNCHANGED vars PROVE TypeOK'
  BY <1>15 DEF vars, TypeOK
<1> QED
  BY <1>1, <1>2, <1>3, <1>4, <1>5, <1>6, <1>7, <1>8, <1>9, <1>10, <1>11, <1>12,
     <1>13, <1>14, <1>15 DEF Next, Step, Failure

\* Every variable keeps its type, whatever the releases, races and failures.
THEOREM TypeCorrect == Spec => []TypeOK
<1>1. Init => TypeOK
  BY InitTypeOK
<1>2. TypeOK /\ [Next]_vars => TypeOK'
  BY NextTypeOK
<1> QED
  BY <1>1, <1>2, PTL DEF Spec

-----------------------------------------------------------------------------
\* What a step may do to the parts WriterInv is about, when it is neither the
\* start of a call nor one of the steps from the unlink to the copy: nothing
\* of the program but its mode, and p moves to a label that writes nothing.
Harmless(p) ==
  /\ path' = path
  /\ \A i \in Inode : body'[i].whole = body[i].whole
  /\ pc'[p] \notin {"open", "copy"}
  /\ call'[p].exe \in {call[p].exe, NoFile}
  /\ pc[p] # "idle"
  /\ \A q \in Proc \ {p} : pc'[q] = pc[q] /\ call'[q] = call[q]

\* A harmless step keeps the invariant.
LEMMA HarmlessKeeps ==
  ASSUME WriterInv, TypeOK', NEW p \in Proc, Harmless(p)
  PROVE  WriterInv'
<1>1. ASSUME NEW q \in Proc PROVE Opening(q)'
  BY DEF WriterInv, Opening, Harmless
<1>2. ASSUME NEW q \in Proc PROVE Copying(q)'
  BY DEF WriterInv, Copying, Harmless
<1>3. SingleWriter'
  <2> SUFFICES ASSUME NEW q \in Proc, pc'[q] = "copy"
               PROVE  /\ \A r \in Proc \ {q} : pc'[r] = "copy" => call'[q].dst # call'[r].dst
                      /\ \A r \in Proc : pc'[r] # "idle" => call'[q].dst # call'[r].exe
    BY DEF SingleWriter, Running
  <2>1. q # p /\ pc[q] = "copy" /\ call'[q] = call[q] /\ call[q].dst \in Inode
    BY DEF Harmless, WriterInv, Copying
  <2>2. ASSUME NEW r \in Proc \ {q}, pc'[r] = "copy" PROVE call'[q].dst # call'[r].dst
    BY <2>1, <2>2 DEF Harmless, WriterInv, SingleWriter
  <2>3. ASSUME NEW r \in Proc, pc'[r] # "idle" PROVE call'[q].dst # call'[r].exe
    BY <2>1, <2>3, InodeAssumption DEF Harmless, WriterInv, SingleWriter, Running, NoFile
  <2> QED
    BY <2>2, <2>3
<1> QED
  BY <1>1, <1>2, <1>3 DEF WriterInv

\* The steps before the unlink, the chmod and the failures are harmless.
LEMMA MostAreHarmless ==
  ASSUME TypeOK, NEW p \in Proc,
         \/ OpenJson(p) \/ Answer(p) \/ Scan(p) \/ OpenTarball(p) \/ WriteTarball(p)
         \/ CloseTarball(p) \/ Unpack(p) \/ Unpacked(p) \/ SelfPath(p) \/ Chmod(p)
         \/ Failure(p)
  PROVE  Harmless(p)
<1> USE DEF TypeOK, Harmless, Return, Goto, NoCall, program, File, Call
<1>1. CASE OpenJson(p) \/ Answer(p)
  BY <1>1 DEF OpenJson, Answer
<1>2. CASE Scan(p)
  BY <1>2 DEF Scan
<1>3. CASE OpenTarball(p) \/ WriteTarball(p) \/ CloseTarball(p)
  BY <1>3 DEF OpenTarball, WriteTarball, CloseTarball
<1>4. CASE Unpack(p) \/ Unpacked(p)
  BY <1>4 DEF Unpack, Unpacked
<1>5. CASE SelfPath(p)
  BY <1>5 DEF SelfPath
<1>6. CASE Chmod(p)
  BY <1>6 DEF Chmod
<1>7. CASE Fails(p) \/ Kill(p)
  BY <1>7 DEF Fails, Kill
<1>8. CASE LosesTail(p)
  BY <1>8 DEF LosesTail
<1> QED
  BY <1>1, <1>2, <1>3, <1>4, <1>5, <1>6, <1>7, <1>8 DEF Failure

LEMMA InitWriterInv == Init => WriterInv
  BY InitTypeOK DEF Init, WriterInv, SingleWriter, Opening, Copying

\* One step per action that is not harmless.
LEMMA NextWriterInv == WriterInv /\ [Next]_vars => WriterInv'
<1> SUFFICES ASSUME WriterInv, [Next]_vars PROVE WriterInv'
  OBVIOUS
<1> TypeOK /\ TypeOK'
  BY NextTypeOK DEF WriterInv
<1>1. CASE Publish \/ UNCHANGED vars
  <2> UNCHANGED <<path, body, pc, call>>
    BY <1>1 DEF Publish, program, vars
  <2> QED
    BY DEF WriterInv, SingleWriter, Opening, Copying, Running
<1>2. ASSUME NEW p \in Proc, Start(p) PROVE WriterInv'
  <2>1. /\ UNCHANGED <<path, body>>
        /\ body[path].whole
        /\ pc'[p] = "ask" /\ call'[p].exe = path
        /\ \A q \in Proc \ {p} : pc'[q] = pc[q] /\ call'[q] = call[q]
    BY <1>2 DEF Start, Works, program, TypeOK, NoCall
  <2>2. ASSUME NEW q \in Proc PROVE Opening(q)' /\ Copying(q)'
    BY <2>1 DEF WriterInv, Opening, Copying
  <2>3. SingleWriter'
    <3> SUFFICES ASSUME NEW q \in Proc, pc'[q] = "copy"
                 PROVE  /\ \A r \in Proc \ {q} : pc'[r] = "copy" => call'[q].dst # call'[r].dst
                        /\ \A r \in Proc : pc'[r] # "idle" => call'[q].dst # call'[r].exe
      BY DEF SingleWriter, Running
    <3>1. q # p /\ pc[q] = "copy" /\ call'[q] = call[q] /\ call[q].dst # path
      BY <2>1 DEF WriterInv, Copying
    <3> QED
      BY <2>1, <3>1 DEF WriterInv, SingleWriter, Running
  <2> QED
    BY <2>2, <2>3 DEF WriterInv
<1>3. ASSUME NEW p \in Proc, Unlink(p) PROVE WriterInv'
  <2>1. CASE path = NoFile
    <3>1. Harmless(p)
      BY <1>3, <2>1 DEF Unlink, Return, Harmless, TypeOK, NoCall
    <3> QED
      BY <3>1, HarmlessKeeps
  <2>2. CASE path # NoFile
    <3>1. /\ path' = NoFile /\ UNCHANGED <<body, call>>
          /\ pc[p] = "unlink" /\ pc' = [pc EXCEPT ![p] = "open"]
      BY <1>3, <2>2 DEF Unlink, Goto
    <3>2. \A q \in Proc : pc[q] # "open"
      BY <2>2 DEF WriterInv, Opening
    <3>3. ASSUME NEW q \in Proc PROVE Opening(q)' /\ Copying(q)'
      BY <3>1, <3>2 DEF WriterInv, Opening, Copying, TypeOK
    <3>4. SingleWriter'
      BY <3>1 DEF WriterInv, SingleWriter, Running, TypeOK
    <3> QED
      BY <3>3, <3>4 DEF WriterInv
  <2> QED
    BY <2>1, <2>2
<1>4. ASSUME NEW p \in Proc, OpenCopy(p) PROVE WriterInv'
  <2>1. CASE Return(p, "BY_HAND") /\ UNCHANGED program
    <3>1. Harmless(p)
      BY <1>4, <2>1 DEF OpenCopy, Return, Harmless, TypeOK, NoCall, program
    <3> QED
      BY <3>1, HarmlessKeeps
  <2>2. CASE ~(Return(p, "BY_HAND") /\ UNCHANGED program)
    <3>1. PICK i \in Inode :
            /\ Opens(i)
            /\ path' = i
            /\ body' = [body EXCEPT ![i] = [version |-> call[p].found, whole |-> FALSE,
                                            exec |-> path = i /\ body[i].exec]]
            /\ call' = [call EXCEPT ![p].dst = i, ![p].src = unpacked[call[p].found]]
            /\ Goto(p, "copy")
      BY <1>4, <2>2 DEF OpenCopy
    <3>2. pc[p] = "open" /\ path = NoFile /\ i \notin InUse
      BY <1>4, <3>1 DEF OpenCopy, WriterInv, Opening, Opens
    <3>3. \A q \in Proc : i # call[q].exe /\ i # call[q].dst
      BY <3>2 DEF InUse
    <3>4. /\ pc' = [pc EXCEPT ![p] = "copy"]
          /\ call'[p].dst = i /\ call'[p].exe = call[p].exe
          /\ \A q \in Proc \ {p} : call'[q] = call[q]
          /\ ~body'[i].whole
          /\ \A j \in Inode \ {i} : body'[j] = body[j]
      BY <3>1 DEF Goto, TypeOK, Call
    <3>5. ASSUME NEW q \in Proc PROVE Opening(q)' /\ Copying(q)'
      <4>1. CASE q = p
        BY <3>4, <4>1 DEF Opening, Copying, TypeOK
      <4>2. CASE q # p
        <5>1. pc'[q] = pc[q] /\ pc[q] # "open"
          BY <3>2, <3>4, <4>2 DEF WriterInv, Opening, TypeOK
        <5>2. Opening(q)'
          BY <5>1 DEF Opening
        <5>3. Copying(q)'
          BY <5>1, <3>3, <3>4, <4>2 DEF WriterInv, Copying
        <5> QED
          BY <5>2, <5>3
      <4> QED
        BY <4>1, <4>2
    <3>6. \A q \in Proc : call'[q].exe = call[q].exe /\ (pc'[q] # "idle" <=> pc[q] # "idle")
      BY <3>2, <3>4 DEF TypeOK
    <3>7. SingleWriter'
      <4> SUFFICES ASSUME NEW q \in Proc, pc'[q] = "copy"
                   PROVE  /\ \A r \in Proc \ {q} : pc'[r] = "copy" => call'[q].dst # call'[r].dst
                          /\ \A r \in Proc : pc'[r] # "idle" => call'[q].dst # call'[r].exe
        BY DEF SingleWriter, Running
      <4>1. CASE q = p
        BY <3>3, <3>4, <3>6, <4>1
      <4>2. CASE q # p
        <5>1. pc[q] = "copy" /\ call'[q] = call[q] /\ call[q].dst # i
          BY <3>3, <3>4, <4>2 DEF TypeOK
        <5>2. \A r \in Proc \ {q} : pc'[r] = "copy" => call'[q].dst # call'[r].dst
          BY <5>1, <3>4 DEF WriterInv, SingleWriter, TypeOK
        <5>3. \A r \in Proc : pc'[r] # "idle" => call'[q].dst # call'[r].exe
          BY <5>1, <3>6 DEF WriterInv, SingleWriter, Running
        <5> QED
          BY <5>2, <5>3
      <4> QED
        BY <4>1, <4>2
    <3> QED
      BY <3>5, <3>7 DEF WriterInv
  <2> QED
    BY <2>1, <2>2
<1>5. ASSUME NEW p \in Proc, Copied(p) PROVE WriterInv'
  <2>1. /\ pc[p] = "copy" /\ pc' = [pc EXCEPT ![p] = "chmod"]
        /\ UNCHANGED <<path, call>>
        /\ \A j \in Inode : j # call[p].dst => body'[j] = body[j]
    BY <1>5 DEF Copied, Goto, TypeOK
  <2>2. ASSUME NEW q \in Proc PROVE Opening(q)' /\ Copying(q)'
    BY <2>1 DEF WriterInv, SingleWriter, Opening, Copying, TypeOK
  <2>3. SingleWriter'
    BY <2>1 DEF WriterInv, SingleWriter, Running, TypeOK
  <2> QED
    BY <2>2, <2>3 DEF WriterInv
<1> QED
  BY <1>1, <1>2, <1>3, <1>4, <1>5, MostAreHarmless, HarmlessKeeps DEF Next, Step

\* The unlink that must succeed before the copy is a lock: two upgrades never
\* write one file, and none writes the file of a program that is running.
THEOREM WritersExclude == Spec => []SingleWriter
<1>1. Init => WriterInv
  BY InitWriterInv
<1>2. WriterInv /\ [Next]_vars => WriterInv'
  BY NextWriterInv
<1>3. WriterInv => SingleWriter
  BY DEF WriterInv
<1> QED
  BY <1>1, <1>2, <1>3, PTL DEF Spec

-----------------------------------------------------------------------------
\* What every step of p inside its call does to the calls of the others.
Frame(p) ==
  /\ pc[p] # "idle"
  /\ met' = met /\ faulty \subseteq faulty'
  /\ \A q \in Proc \ {p} : pc'[q] = pc[q] /\ call'[q] = call[q] /\ ret'[q] = ret[q]

LEMMA StepFrame ==
  ASSUME TypeOK, NEW p \in Proc, Step(p) \/ Failure(p)
  PROVE  Frame(p)
<1> USE DEF Frame, TypeOK, Return, Goto, past, Blame
<1>1. CASE OpenJson(p) \/ Answer(p) \/ Scan(p)
  BY <1>1 DEF OpenJson, Answer, Scan
<1>2. CASE OpenTarball(p) \/ WriteTarball(p) \/ CloseTarball(p)
  BY <1>2 DEF OpenTarball, WriteTarball, CloseTarball
<1>3. CASE Unpack(p) \/ Unpacked(p) \/ SelfPath(p) \/ Unlink(p)
  BY <1>3 DEF Unpack, Unpacked, SelfPath, Unlink
<1>4. CASE OpenCopy(p)
  BY <1>4 DEF OpenCopy
<1>5. CASE Copied(p) \/ Chmod(p)
  BY <1>5 DEF Copied, Chmod
<1>6. CASE Fails(p) \/ Kill(p)
  BY <1>6 DEF Fails, Kill
<1>7. CASE LosesTail(p)
  BY <1>7 DEF LosesTail
<1> QED
  BY <1>1, <1>2, <1>3, <1>4, <1>5, <1>6, <1>7 DEF Step, Failure

\* What a step of p does to Solo(p) itself, while p is alone. One step per
\* action; those that end the call have nothing to vouch for.
LEMMA StepSolo ==
  ASSUME TypeOK, TypeOK', NEW p \in Proc, Solo(p), Step(p) \/ Failure(p),
         pc'[p] # "idle", p \notin met'
  PROVE  Solo(p)'
<1>1. /\ pc[p] # "idle" /\ p \notin met /\ Running = {p}
      /\ \A q \in Proc \ {p} : pc'[q] = pc[q]
  <2>1. Frame(p)
    BY StepFrame
  <2> QED
    BY <2>1 DEF Frame, Solo
<1>2. Running' = {p}
  BY <1>1 DEF Running
<1> USE DEF Solo, Goto
<1>3. CASE OpenJson(p) \/ Answer(p)
  BY <1>1, <1>2, <1>3 DEF OpenJson, Answer, TypeOK, program
<1>4. CASE Scan(p)
  BY <1>1, <1>2, <1>4 DEF Scan, Return, TypeOK, Call
<1>5. CASE OpenTarball(p)
  <2>1. /\ pc' = [pc EXCEPT ![p] = "write"] /\ call' = call
        /\ tarball' = [tarball EXCEPT ![call[p].found] = {}]
    BY <1>5 DEF OpenTarball, Return, TypeOK
  <2>2. call[p].pos = 0 /\ call[p].found \in Version
    BY <1>1, <1>5 DEF OpenTarball, TypeOK, Call
  <2>3. tarball'[call[p].found] = 1..call[p].pos
    BY <2>1, <2>2 DEF TypeOK
  <2> QED
    BY <1>2, <2>1, <2>3 DEF TypeOK
<1>6. CASE WriteTarball(p)
  <2>1. /\ pc' = pc /\ pc[p] = "write" /\ call' = [call EXCEPT ![p].pos = @ + 1]
        /\ tarball' = [tarball EXCEPT ![call[p].found] = @ \cup {call[p].pos + 1}]
    BY <1>6 DEF WriteTarball
  <2>2. call[p].pos \in Nat /\ call[p].found \in Version
    BY DEF TypeOK, Call
  <2>3. call'[p].pos = call[p].pos + 1 /\ call'[p].found = call[p].found
    BY <2>1 DEF TypeOK, Call
  <2>4. tarball'[call'[p].found] = 1..call'[p].pos
    <3>1. tarball[call[p].found] = 1..call[p].pos
      BY <1>1, <2>1
    <3>2. tarball'[call[p].found] = tarball[call[p].found] \cup {call[p].pos + 1}
      BY <2>1, <2>2 DEF TypeOK
    <3>3. (1..call[p].pos) \cup {call[p].pos + 1} = 1..(call[p].pos + 1)
      BY <2>2
    <3> QED
      BY <2>3, <3>1, <3>2, <3>3
  <2> QED
    BY <1>2, <2>1, <2>4
<1>7. CASE CloseTarball(p)
  BY <1>1, <1>2, <1>7, ChunkAssumption DEF CloseTarball, tmp, TypeOK
<1>8. CASE Unpack(p)
  <2>1. 1 \in tarball[call[p].found] /\ call[p].found \in Version
    BY <1>1, <1>8 DEF Unpack, TypeOK, Call
  <2>2. /\ pc' = [pc EXCEPT ![p] = "unpacking"] /\ call' = call
        /\ unpacked' = [unpacked EXCEPT ![call[p].found] = p]
    BY <2>1, <1>8 DEF Unpack
  <2> QED
    BY <1>2, <2>1, <2>2 DEF TypeOK
<1>9. CASE Unpacked(p)
  <2>1. unpacked[call[p].found] = p /\ call[p].found \in Version
    BY <1>1, <1>9 DEF Unpacked, TypeOK, Call
  <2>2. /\ pc' = [pc EXCEPT ![p] = "self"] /\ call' = call
        /\ unpacked'[call[p].found] = "whole"
    BY <2>1, <1>9 DEF Unpacked, Return, TypeOK
  <2> QED
    BY <1>2, <2>2 DEF TypeOK
<1>10. CASE SelfPath(p)
  BY <1>1, <1>2, <1>10 DEF SelfPath, Return, tmp, TypeOK
<1>11. CASE Unlink(p)
  BY <1>1, <1>2, <1>11 DEF Unlink, Return, tmp, TypeOK
<1>12. CASE OpenCopy(p)
  <2>1. pc[p] = "open" /\ UNCHANGED tmp
    BY <1>12 DEF OpenCopy
  <2>2. PICK i \in Inode :
          /\ path' = i
          /\ call' = [call EXCEPT ![p].dst = i, ![p].src = unpacked[call[p].found]]
          /\ pc' = [pc EXCEPT ![p] = "copy"]
    BY <1>12 DEF OpenCopy, Return, TypeOK
  <2>3. /\ call'[p].dst = i /\ call'[p].found = call[p].found
        /\ call'[p].src = unpacked[call[p].found]
    BY <2>2 DEF TypeOK, Call
  <2> QED
    BY <1>1, <1>2, <2>1, <2>2, <2>3, InodeAssumption DEF tmp, TypeOK, NoFile
<1>13. CASE Copied(p)
  <2>1. /\ pc[p] = "copy" /\ pc' = [pc EXCEPT ![p] = "chmod"]
        /\ UNCHANGED <<tmp, path, call, past>>
        /\ call[p].src = "whole" /\ path = call[p].dst /\ path # NoFile /\ path \in Inode
    BY <1>1, <1>13 DEF Copied, TypeOK
  <2>2. body'[path].whole
    BY <1>13, <2>1 DEF Copied, TypeOK, File
  <2> QED
    BY <1>1, <1>2, <2>1, <2>2 DEF tmp, TypeOK
<1>14. CASE Chmod(p) \/ Fails(p) \/ Kill(p)
  BY <1>14 DEF Chmod, Fails, Kill, Return, TypeOK
<1>15. CASE LosesTail(p)
  <2>1. /\ UNCHANGED <<tmp, program, call>> /\ p \in faulty'
        /\ \/ pc[p] = "write" /\ call[p].pos = NChunks - 1 /\ pc' = [pc EXCEPT ![p] = "unpack"]
           \/ pc[p] = "copy" /\ pc' = [pc EXCEPT ![p] = "chmod"]
    BY <1>15 DEF LosesTail, Blame
  <2> QED
    BY <1>1, <1>2, <2>1, ChunkAssumption DEF tmp, program, TypeOK
<1> QED
  BY <1>3, <1>4, <1>5, <1>6, <1>7, <1>8, <1>9, <1>10, <1>11, <1>12, <1>13, <1>14, <1>15
     DEF Step, Failure

LEMMA InitSoloInv == Init => SoloInv
  BY InitTypeOK DEF Init, SoloInv, Solo

LEMMA NextSoloInv == SoloInv /\ [Next]_vars => SoloInv'
<1> SUFFICES ASSUME SoloInv, [Next]_vars, NEW q \in Proc PROVE Solo(q)'
  BY NextTypeOK DEF SoloInv
<1>0. TypeOK /\ TypeOK' /\ Solo(q)
  BY NextTypeOK DEF SoloInv
<1>1. CASE Publish \/ UNCHANGED vars
  <2> UNCHANGED <<tmp, program, pc, call, past>>
    BY <1>1 DEF Publish, vars
  <2> QED
    BY <1>0 DEF Solo, Running, tmp, program, past
<1>2. ASSUME NEW p \in Proc, Start(p) PROVE Solo(q)'
  <2> SUFFICES ASSUME pc'[q] # "idle", q \notin met' PROVE Solo(q)'
    BY DEF Solo
  <2>1. Running = {} /\ q = p
    BY <1>0, <1>2 DEF Start, Running, TypeOK
  <2>2. Running' = {q} /\ pc'[q] = "ask" /\ call'[q].pos = 0
    BY <1>0, <1>2, <2>1 DEF Start, Running, TypeOK, NoCall
  <2> QED
    BY <2>2 DEF Solo
<1>3. ASSUME NEW p \in Proc, Step(p) \/ Failure(p) PROVE Solo(q)'
  <2> SUFFICES ASSUME pc'[q] # "idle", q \notin met' PROVE Solo(q)'
    BY DEF Solo
  <2>1. Frame(p)
    BY <1>0, <1>3, StepFrame
  <2>2. q = p
    BY <1>0, <2>1 DEF Frame, Solo, Running
  <2> QED
    BY <1>0, <1>3, <2>2, StepSolo
<1> QED
  BY <1>1, <1>2, <1>3 DEF Next

\* An upgrade that nobody else overlapped and that ends with the advice to
\* replace the program by hand has unpacked the whole program it speaks of,
\* for any number of processes and any leftovers of failed upgrades.
THEOREM AdviceIsTrue == Spec => ByHandIsPossible
<1> DEFINE Advice == \A p \in Proc : ReturnsAlone(p) /\ ret'[p] = "BY_HAND"
                       => unpacked[call[p].found] = "whole"
<1>1. SoloInv /\ [Next]_vars => [Advice]_vars
  <2> SUFFICES ASSUME SoloInv, Next, NEW q \in Proc, ReturnsAlone(q), ret'[q] = "BY_HAND"
               PROVE  unpacked[call[q].found] = "whole"
    OBVIOUS
  <2>0. TypeOK /\ Solo(q) /\ pc[q] # "idle" /\ pc'[q] = "idle" /\ q \notin met
    BY DEF SoloInv, ReturnsAlone
  <2>1. ~Publish
    BY <2>0 DEF Publish
  <2>2. ASSUME NEW p \in Proc, Start(p) PROVE FALSE
    BY <2>0, <2>2 DEF Start, TypeOK
  <2>3. Step(q) \/ Failure(q)
    <3>1. PICK p \in Proc : Step(p) \/ Failure(p)
      BY <2>1, <2>2 DEF Next
    <3>2. Frame(p)
      BY <2>0, <3>1, StepFrame
    <3>3. q = p
      BY <2>0, <3>2 DEF Frame
    <3> QED
      BY <3>1, <3>3
  <2>4. pc[q] \in {"self", "unlink", "open", "copy", "chmod"}
    <3> USE <2>0 DEF Return, Goto, TypeOK
    <3>1. ASSUME Scan(q) \/ OpenJson(q) \/ Answer(q) PROVE FALSE
      BY <3>1 DEF Scan, OpenJson, Answer
    <3>2. ASSUME OpenTarball(q) \/ WriteTarball(q) \/ CloseTarball(q) PROVE FALSE
      BY <3>2 DEF OpenTarball, WriteTarball, CloseTarball
    <3>3. ASSUME Unpack(q) \/ Unpacked(q) PROVE FALSE
      BY <3>3 DEF Unpack, Unpacked
    <3>4. ASSUME LosesTail(q) \/ Kill(q) PROVE FALSE
      BY <3>4 DEF LosesTail, Kill
    <3>5. CASE SelfPath(q) \/ Unlink(q) \/ OpenCopy(q) \/ Copied(q) \/ Chmod(q)
      BY <3>5 DEF SelfPath, Unlink, OpenCopy, Copied, Chmod
    <3>6. CASE Fails(q)
      BY <3>6 DEF Fails
    <3> QED
      BY <2>3, <3>1, <3>2, <3>3, <3>4, <3>5, <3>6 DEF Step, Failure
  <2> QED
    BY <2>0, <2>4 DEF Solo
<1> QED
  BY <1>1, InitSoloInv, NextSoloInv, PTL DEF Spec, ByHandIsPossible

\* After a step of p the program at the path still has an excuse for not
\* working, should it not work. One step per action.
LEMMA BrokenKept ==
  ASSUME SoloInv, TypeOK', BrokenOnlyInside, ~Works',
         NEW p \in Proc, Step(p) \/ Failure(p)
  PROVE  BrokenOnlyInside'
<1> DEFINE Excuse(q) == \/ pc[q] \in {"open", "copy", "chmod"}
                        \/ /\ pc[q] = "idle" /\ q \in faulty \cup met
                           /\ ret[q] \in {"BY_HAND", "killed"}
                        \/ /\ pc[q] = "idle" /\ ret[q] = "UPGRADED"
                           /\ q \in met \/ (q \in faulty /\ path # NoFile /\ body[path].exec)
<1>0. TypeOK /\ Solo(p)
  BY DEF SoloInv
<1>a. Frame(p)
  BY <1>0, StepFrame
<1>1. ASSUME NEW q \in Proc \ {p}, Excuse(q), path' = path, body' = body PROVE Excuse(q)'
  BY <1>1, <1>a DEF Frame
<1>2. ASSUME path' = path, body' = body, pc[p] \notin {"open", "copy", "chmod"}
      PROVE  \E q \in Proc : Excuse(q)'
  <2>1. PICK q \in Proc : Excuse(q)
    BY <1>2 DEF BrokenOnlyInside, Works
  <2>2. q # p
    BY <1>2, <1>a, <2>1 DEF Frame
  <2> QED
    BY <1>1, <1>2, <2>1, <2>2
<1> USE DEF Return, Goto, TypeOK, program
<1>3. CASE OpenJson(p) \/ Answer(p) \/ Scan(p) \/ OpenTarball(p)
  BY <1>2, <1>3 DEF OpenJson, Answer, Scan, OpenTarball, BrokenOnlyInside
<1>4. CASE WriteTarball(p) \/ CloseTarball(p) \/ Unpack(p) \/ Unpacked(p) \/ SelfPath(p)
  BY <1>2, <1>4 DEF WriteTarball, CloseTarball, Unpack, Unpacked, SelfPath, BrokenOnlyInside, tmp
<1>5. CASE Unlink(p)
  <2>1. CASE path = NoFile
    BY <1>2, <1>5, <2>1 DEF Unlink, BrokenOnlyInside
  <2>2. CASE path # NoFile
    BY <1>0, <1>5, <2>2 DEF Unlink, BrokenOnlyInside
  <2> QED
    BY <2>1, <2>2
<1>6. CASE OpenCopy(p)
  <2>1. CASE unpacked[call[p].found] = "absent"
    BY <1>0, <1>6, <2>1 DEF OpenCopy, BrokenOnlyInside, Solo, past
  <2>2. CASE unpacked[call[p].found] # "absent"
    BY <1>0, <1>6, <2>2 DEF OpenCopy, BrokenOnlyInside
  <2> QED
    BY <2>1, <2>2
<1>7. CASE Copied(p)
  BY <1>0, <1>7 DEF Copied, BrokenOnlyInside
<1>8. CASE Chmod(p)
  <2>1. /\ pc[p] = "chmod" /\ pc'[p] = "idle" /\ path' = path
        /\ ret'[p] \in {"BY_HAND", "UPGRADED"}
        /\ faulty' = faulty /\ met' = met
    BY <1>0, <1>8 DEF Chmod, past
  <2>2. CASE p \in met
    BY <2>1, <2>2 DEF BrokenOnlyInside
  <2>4. CASE p \in faulty /\ p \notin met
    <3>1. path \in Inode /\ path # NoFile
      BY <1>0, <2>1, <2>4 DEF Solo
    <3>2. body' = [body EXCEPT ![path].exec = TRUE] /\ ret'[p] = "UPGRADED"
      BY <1>0, <1>8, <3>1 DEF Chmod
    <3>3. body'[path].exec
      BY <1>0, <3>1, <3>2 DEF File
    <3> QED
      BY <2>1, <2>4, <3>1, <3>2, <3>3 DEF BrokenOnlyInside
  <2>3. CASE p \notin faulty \cup met
    <3>1. path \in Inode /\ path # NoFile /\ body[path].whole
      BY <1>0, <2>1, <2>3 DEF Solo
    <3>2. path' = path /\ body'[path].whole /\ body'[path].exec
      BY <1>0, <1>8, <3>1 DEF Chmod, File
    <3> QED
      BY <3>1, <3>2 DEF Works
  <2> QED
    BY <2>2, <2>3, <2>4
<1>9. CASE Fails(p) \/ Kill(p)
  <2>1. CASE pc[p] \in {"open", "copy", "chmod"}
    BY <1>0, <1>9, <2>1 DEF Fails, Kill, Blame, BrokenOnlyInside
  <2>2. CASE pc[p] \notin {"open", "copy", "chmod"}
    BY <1>2, <1>9, <2>2 DEF Fails, Kill, BrokenOnlyInside
  <2> QED
    BY <2>1, <2>2
<1>10. CASE LosesTail(p)
  <2>1. CASE pc[p] = "copy"
    BY <1>0, <1>10, <2>1 DEF LosesTail, BrokenOnlyInside
  <2>2. CASE pc[p] # "copy"
    BY <1>2, <1>10, <2>2 DEF LosesTail, BrokenOnlyInside
  <2> QED
    BY <2>1, <2>2
<1> QED
  BY <1>3, <1>4, <1>5, <1>6, <1>7, <1>8, <1>9, <1>10 DEF Step, Failure

\* Nothing but the replacement itself, stopped or overlapped, breaks the
\* program, and with success reported nothing but a lost end of the copy does:
\* an upgrade that fails before its unlink leaves it alone, and one that is
\* alone and meets no failure leaves a program that works.
THEOREM ProgramSurvives == Spec => []BrokenOnlyInside
<1>1. Init => BrokenOnlyInside
  <2> SUFFICES ASSUME Init PROVE Works
    BY DEF BrokenOnlyInside
  <2>1. path \in Inode /\ body[path].whole /\ body[path].exec
    BY DEF Init
  <2> QED
    BY <2>1, InodeAssumption DEF Works, NoFile
<1>2. SoloInv /\ BrokenOnlyInside /\ [Next]_vars => BrokenOnlyInside'
  <2> SUFFICES ASSUME SoloInv, BrokenOnlyInside, [Next]_vars, ~Works' PROVE BrokenOnlyInside'
    BY DEF BrokenOnlyInside
  <2>1. TypeOK /\ TypeOK'
    BY NextTypeOK DEF SoloInv
  <2>2. CASE Publish \/ UNCHANGED vars
    <3> UNCHANGED <<program, pc, ret, past>>
      BY <2>2 DEF Publish, vars
    <3> QED
      BY DEF BrokenOnlyInside, Works, program, past
  <2>3. ASSUME NEW p \in Proc, Start(p) PROVE FALSE
    BY <2>3 DEF Start, Works, program
  <2>4. ASSUME NEW p \in Proc, Step(p) \/ Failure(p) PROVE BrokenOnlyInside'
    BY <2>1, <2>4, BrokenKept
  <2> QED
    BY <2>2, <2>3, <2>4 DEF Next
<1> QED
  BY <1>1, <1>2, InitSoloInv, NextSoloInv, PTL DEF Spec

-----------------------------------------------------------------------------
(* The version at the path *)

\* The order of versions is total, and NotNewer is its complement.
LEMMA Order ==
  ASSUME NEW v \in Nat \X Nat \X Nat, NEW w \in Nat \X Nat \X Nat
  PROVE  /\ Older(v, w) <=> \/ v[1] < w[1]
                            \/ v[1] = w[1] /\ v[2] < w[2]
                            \/ v[1] = w[1] /\ v[2] = w[2] /\ v[3] < w[3]
         /\ ~Older(v, v)
         /\ Older(v, w) => ~Older(w, v)
         /\ NotNewer(v, w) <=> ~Older(w, v)
<1>1. ASSUME NEW a \in Nat \X Nat \X Nat, NEW b \in Nat \X Nat \X Nat
      PROVE  Older(a, b) <=> \/ a[1] < b[1]
                             \/ a[1] = b[1] /\ a[2] < b[2]
                             \/ a[1] = b[1] /\ a[2] = b[2] /\ a[3] < b[3]
  <2>1. 1..3 = {1, 2, 3} /\ 1..(1 - 1) = {} /\ 1..(2 - 1) = {1} /\ 1..(3 - 1) = {1, 2}
    OBVIOUS
  <2>2. Older(a, b) <=> \/ a[1] < b[1] /\ \A j \in 1..(1 - 1) : a[j] = b[j]
                        \/ a[2] < b[2] /\ \A j \in 1..(2 - 1) : a[j] = b[j]
                        \/ a[3] < b[3] /\ \A j \in 1..(3 - 1) : a[j] = b[j]
    BY <2>1 DEF Older
  <2> QED
    BY <2>1, <2>2
<1>2. v[1] \in Nat /\ v[2] \in Nat /\ v[3] \in Nat /\ w[1] \in Nat /\ w[2] \in Nat /\ w[3] \in Nat
  OBVIOUS
<1> QED
  BY <1>1, <1>2 DEF NotNewer

\* While p is alone nobody else touches what Track(p) speaks of. One step per
\* action; those that end the call have nothing to keep.
LEMMA StepTrack ==
  ASSUME TypeOK, TypeOK', NEW p \in Proc, Solo(p), Solo(p)', Track(p), Step(p) \/ Failure(p),
         pc'[p] # "idle", p \notin met'
  PROVE  Track(p)'
<1>1. pc[p] # "idle" /\ p \notin met /\ faulty \subseteq faulty'
  <2>1. Frame(p)
    BY StepFrame
  <2> QED
    BY <2>1 DEF Frame
<1> USE DEF Track, Goto, Works
<1>2. CASE OpenJson(p) \/ Answer(p)
  BY <1>1, <1>2 DEF OpenJson, Answer, TypeOK, program
<1>3. CASE Scan(p)
  <2>1. /\ pc[p] = "scan" /\ pc' = [pc EXCEPT ![p] = "fetch"]
        /\ ~NotNewer(json.version, call[p].own) /\ json.version # Zero
        /\ call' = [call EXCEPT ![p].found = json.version]
        /\ UNCHANGED <<tmp, program>>
    BY <1>3 DEF Scan, Return, TypeOK
  <2>2. json.version \in Nat \X Nat \X Nat /\ call[p].own \in Nat \X Nat \X Nat
    BY VersionAssumption, TagAssumption DEF TypeOK, Call, NoTag, Zero
  <2>3. Older(call[p].own, json.version)
    BY <2>1, <2>2, Order
  <2>4. /\ call'[p].found = json.version /\ call'[p].own = call[p].own
        /\ call'[p].exe = call[p].exe /\ pc'[p] = "fetch"
    BY <2>1 DEF TypeOK, Call
  <2> QED
    BY <1>1, <2>1, <2>3, <2>4 DEF tmp, program
<1>4. CASE OpenTarball(p)
  BY <1>1, <1>4 DEF OpenTarball, Return, TypeOK, program
<1>5. CASE WriteTarball(p)
  <2>1. /\ pc' = pc /\ pc[p] = "write" /\ UNCHANGED <<json, program>>
        /\ call' = [call EXCEPT ![p].pos = @ + 1]
    BY <1>5 DEF WriteTarball
  <2>2. call'[p].found = call[p].found /\ call'[p].own = call[p].own /\ call'[p].exe = call[p].exe
    BY <2>1 DEF TypeOK, Call
  <2> QED
    BY <1>1, <2>1, <2>2 DEF program
<1>6. CASE CloseTarball(p)
  <2>1. /\ pc[p] = "write" /\ pc' = [pc EXCEPT ![p] = "unpack"] /\ call[p].pos = NChunks
        /\ UNCHANGED <<tmp, program, call, past>>
    BY <1>6 DEF CloseTarball
  <2>2. tarball[call[p].found] = Chunk
    BY <1>1, <2>1 DEF Solo, Chunk
  <2> QED
    BY <1>1, <2>1, <2>2 DEF tmp, program, past, TypeOK
<1>7. CASE Unpack(p)
  <2>1. pc[p] = "unpack" /\ 1 \in tarball[call[p].found]
    BY <1>1, <1>7 DEF Unpack, Solo
  <2>2. /\ pc' = [pc EXCEPT ![p] = "unpacking"] /\ call' = call
        /\ UNCHANGED <<json, tarball, program, past>>
    BY <2>1, <1>7 DEF Unpack
  <2> QED
    BY <1>1, <2>1, <2>2 DEF program, past, TypeOK
<1>8. CASE Unpacked(p)
  <2>1. pc[p] = "unpacking" /\ pc' = [pc EXCEPT ![p] = "self"] /\ UNCHANGED <<json, program, call>>
    BY <1>8 DEF Unpacked, Return, TypeOK
  <2> QED
    BY <1>1, <2>1 DEF program, TypeOK
<1>9. CASE SelfPath(p)
  <2>1. pc[p] = "self" /\ pc' = [pc EXCEPT ![p] = "unlink"] /\ UNCHANGED <<tmp, program, call>>
    BY <1>9 DEF SelfPath, Return, TypeOK
  <2> QED
    BY <1>1, <2>1 DEF tmp, program, TypeOK
<1>10. CASE Unlink(p)
  <2>1. /\ pc[p] = "unlink" /\ pc' = [pc EXCEPT ![p] = "open"] /\ path' = NoFile
        /\ UNCHANGED <<tmp, call>>
    BY <1>10 DEF Unlink, Return, TypeOK
  <2> QED
    BY <1>1, <2>1 DEF tmp, TypeOK
<1>11. CASE OpenCopy(p)
  <2>1. pc[p] = "open" /\ UNCHANGED tmp
    BY <1>11 DEF OpenCopy
  <2>2. PICK i \in Inode :
          /\ path' = i
          /\ body' = [body EXCEPT ![i] = [version |-> call[p].found, whole |-> FALSE,
                                          exec |-> path = i /\ body[i].exec]]
          /\ call' = [call EXCEPT ![p].dst = i, ![p].src = unpacked[call[p].found]]
          /\ pc' = [pc EXCEPT ![p] = "copy"]
    BY <1>11 DEF OpenCopy, Return, TypeOK
  <2>3. call'[p].own = call[p].own /\ call'[p].found = call[p].found
    BY <2>2 DEF TypeOK, Call
  <2>4. body'[path'].version = call[p].found
    BY <2>2 DEF TypeOK
  <2> QED
    BY <1>1, <2>1, <2>2, <2>3, <2>4 DEF tmp, TypeOK
<1>12. CASE Copied(p)
  <2>1. /\ pc[p] = "copy" /\ pc' = [pc EXCEPT ![p] = "chmod"]
        /\ UNCHANGED <<tmp, path, call>> /\ path = call[p].dst /\ path \in Inode
    BY <1>1, <1>12 DEF Copied, TypeOK, Solo
  <2>2. body'[path].version = body[path].version
    BY <1>12, <2>1 DEF Copied, TypeOK, File
  <2> QED
    BY <1>1, <2>1, <2>2 DEF tmp, TypeOK
<1>13. CASE Chmod(p) \/ Fails(p) \/ Kill(p)
  BY <1>13 DEF Chmod, Fails, Kill, Return, TypeOK
<1>14. CASE LosesTail(p)
  <2>1. /\ UNCHANGED <<tmp, program, call>> /\ p \in faulty'
        /\ \/ pc[p] = "write" /\ pc' = [pc EXCEPT ![p] = "unpack"]
           \/ pc[p] = "copy" /\ pc' = [pc EXCEPT ![p] = "chmod"]
    BY <1>14 DEF LosesTail, Blame
  <2> QED
    BY <1>1, <2>1 DEF tmp, program, TypeOK
<1> QED
  BY <1>2, <1>3, <1>4, <1>5, <1>6, <1>7, <1>8, <1>9, <1>10, <1>11, <1>12, <1>13, <1>14
     DEF Step, Failure

LEMMA InitTrack == Init => TrackInv
  BY InitSoloInv DEF Init, TrackInv, Track

LEMMA NextTrack == TrackInv /\ [Next]_vars => TrackInv'
<1> SUFFICES ASSUME TrackInv, [Next]_vars, NEW q \in Proc PROVE Track(q)'
  BY NextSoloInv DEF TrackInv
<1>0. TypeOK /\ TypeOK' /\ Solo(q) /\ Solo(q)' /\ Track(q)
  BY NextSoloInv DEF TrackInv, SoloInv
<1>1. CASE Publish \/ UNCHANGED vars
  <2> UNCHANGED <<tmp, program, pc, call, past>>
    BY <1>1 DEF Publish, vars
  <2> QED
    BY <1>0 DEF Track, Works, tmp, program, past
<1>2. ASSUME NEW p \in Proc, Start(p) PROVE Track(q)'
  <2> SUFFICES ASSUME pc'[q] # "idle", q \notin met' PROVE Track(q)'
    BY DEF Track
  <2>1. Running = {} /\ q = p
    BY <1>0, <1>2 DEF Start, Running, TypeOK
  <2>2. /\ pc'[q] = "ask" /\ Works /\ UNCHANGED program
        /\ call'[q] = [NoCall EXCEPT !.exe = path, !.own = body[path].version]
    BY <1>0, <1>2, <2>1 DEF Start, TypeOK
  <2>3. call'[q].exe = path /\ call'[q].own = body[path].version
    BY <2>2 DEF NoCall
  <2> QED
    BY <2>2, <2>3 DEF Track, Works, program
<1>3. ASSUME NEW p \in Proc, Step(p) \/ Failure(p) PROVE Track(q)'
  <2> SUFFICES ASSUME pc'[q] # "idle", q \notin met' PROVE Track(q)'
    BY DEF Track
  <2>1. Frame(p)
    BY <1>0, <1>3, StepFrame
  <2>2. q = p
    BY <1>0, <2>1 DEF Frame, Solo, Running
  <2> QED
    BY <1>0, <1>3, <2>2, StepTrack
<1> QED
  BY <1>1, <1>2, <1>3 DEF Next

\* A call that nobody overlapped returns by a step of its own.
LEMMA OwnReturn ==
  ASSUME TrackInv, Next, NEW q \in Proc, ReturnsAlone(q)
  PROVE  /\ TypeOK /\ Solo(q) /\ Track(q)
         /\ pc[q] # "idle" /\ pc'[q] = "idle" /\ q \notin met
         /\ Step(q) \/ Failure(q)
<1>0. /\ TypeOK /\ Solo(q) /\ Track(q)
      /\ pc[q] # "idle" /\ pc'[q] = "idle" /\ q \notin met
  BY DEF TrackInv, SoloInv, ReturnsAlone
<1>1. ~Publish
  BY <1>0 DEF Publish
<1>2. ASSUME NEW p \in Proc, Start(p) PROVE FALSE
  BY <1>0, <1>2 DEF Start, TypeOK
<1>3. Step(q) \/ Failure(q)
  <2>1. PICK p \in Proc : Step(p) \/ Failure(p)
    BY <1>1, <1>2 DEF Next
  <2>2. Frame(p)
    BY <1>0, <2>1, StepFrame
  <2>3. q = p
    BY <1>0, <2>2 DEF Frame
  <2> QED
    BY <2>1, <2>3
<1> QED
  BY <1>0, <1>3

\* The step that returns leaves the program as it is, but for its mode.
LEMMA ReturnKeeps ==
  ASSUME TypeOK, NEW p \in Proc, Step(p) \/ Failure(p), pc'[p] = "idle", path' # NoFile
  PROVE  path' = path /\ body'[path].version = body[path].version
<1> USE DEF Goto, TypeOK
<1>1. CASE OpenJson(p) \/ Answer(p) \/ Scan(p)
  BY <1>1 DEF OpenJson, Answer, Scan, program
<1>2. CASE OpenTarball(p) \/ WriteTarball(p) \/ CloseTarball(p)
  BY <1>2 DEF OpenTarball, WriteTarball, CloseTarball, program
<1>3. CASE Unpack(p) \/ Unpacked(p) \/ SelfPath(p)
  BY <1>3 DEF Unpack, Unpacked, SelfPath, program
<1>4. CASE Unlink(p)
  BY <1>4 DEF Unlink
<1>5. CASE OpenCopy(p)
  BY <1>5 DEF OpenCopy, program
<1>6. CASE Copied(p)
  BY <1>6 DEF Copied
<1>7. CASE Chmod(p)
  <2>1. path' = path /\ path \in Inode
        /\ (body' = body \/ body' = [body EXCEPT ![path].exec = TRUE])
    BY <1>7 DEF Chmod
  <2>2. body[path] \in File
    BY <2>1
  <2> QED
    BY <2>1, <2>2 DEF File
<1>8. CASE Failure(p)
  BY <1>8 DEF Failure, Fails, LosesTail, Kill, program
<1> QED
  BY <1>1, <1>2, <1>3, <1>4, <1>5, <1>6, <1>7, <1>8 DEF Step

\* The version that a call knows are versions.
LEMMA Versions ==
  ASSUME TypeOK, NEW p \in Proc
  PROVE  /\ call[p].own \in Nat \X Nat \X Nat /\ call[p].found \in Version
         /\ call[p].found \in Nat \X Nat \X Nat /\ json.version \in Nat \X Nat \X Nat
  BY VersionAssumption, TagAssumption DEF TypeOK, Call, NoTag, Zero

\* For any versions and any number of processes: an upgrade that nobody else
\* overlaps never puts an older program in place of the one it was started
\* from, whatever tag latest.json names and whatever fails (upgrade-self.c:186-200).
THEOREM NoDowngrade == Spec => NeverOlder
<1> DEFINE Keeps == \A p \in Proc : ReturnsAlone(p) /\ path' # NoFile
                      => ~Older(body'[path'].version, call[p].own)
<1>1. TrackInv /\ [Next]_vars => [Keeps]_vars
  <2> SUFFICES ASSUME TrackInv, Next, NEW q \in Proc, ReturnsAlone(q), path' # NoFile
               PROVE  ~Older(body'[path'].version, call[q].own)
    OBVIOUS
  <2>1. /\ TypeOK /\ Solo(q) /\ Track(q) /\ pc[q] # "idle" /\ q \notin met
        /\ Step(q) \/ Failure(q)
        /\ pc'[q] = "idle"
    BY OwnReturn
  <2>2. path' = path /\ body'[path'].version = body[path].version
    BY <2>1, ReturnKeeps
  <2>3. pc[q] # "open"
    BY <2>1, <2>2 DEF Track
  <2>4. \/ body[path].version = call[q].own
        \/ body[path].version = call[q].found /\ Older(call[q].own, call[q].found)
    BY <2>1, <2>3 DEF Track, TypeOK, Labels
  <2> QED
    BY <2>1, <2>2, <2>4, Versions, Order
<1> QED
  BY <1>1, InitTrack, NextTrack, PTL DEF Spec, NeverOlder

\* An upgrade that nobody else overlaps and that meets no failure leaves a
\* program that works, for any versions, chunks and inodes, whatever tarballs
\* can be downloaded and whatever failed and killed upgrades left behind; it
\* is not older than the release unless its tag is no version or its version
\* names no tarball (upgrade-self.c:77-288).
THEOREM UpgradeWorks == Spec => LeftoversHarmless
<1> DEFINE Ends == \A p \in Proc : ReturnsAlone(p) /\ p \notin faulty' => EndsWell(p)
<1>1. TrackInv /\ [Next]_vars => [Ends]_vars
  <2> SUFFICES ASSUME TrackInv, Next, NEW q \in Proc, ReturnsAlone(q), q \notin faulty'
               PROVE  EndsWell(q)
    OBVIOUS
  <2>1. /\ TypeOK /\ Solo(q) /\ Track(q) /\ pc[q] # "idle" /\ q \notin met
        /\ Step(q) \/ Failure(q)
        /\ pc'[q] = "idle"
    BY OwnReturn
  <2>2. ~Failure(q)
    BY DEF Failure, Fails, LosesTail, Kill, Blame
  <2>3. q \notin faulty
    BY <2>1, StepFrame DEF Frame
  <2> USE DEF Goto
  <2>4. CASE Scan(q)
    <3>1. \/ ret'[q] = "ERROR" /\ (~json.commit \/ json.version = Zero)
          \/ ret'[q] = "LATEST" /\ NotNewer(json.version, call[q].own)
      BY <2>1, <2>4 DEF Scan, Return, TypeOK
    <3>2. UNCHANGED program /\ Works /\ body[path].version = call[q].own
      BY <2>1, <2>4 DEF Scan, Track
    <3>3. NotNewer(json.version, call[q].own) => ~Older(call[q].own, json.version)
      BY <2>1, Versions, Order
    <3> QED
      BY <3>1, <3>2, <3>3 DEF program, Works, EndsWell
  <2>5. CASE Chmod(q)
    <3>1. pc[q] = "chmod" /\ path # NoFile /\ path \in Inode /\ body[path].whole
          /\ body[path].version = json.version
      BY <2>1, <2>3, <2>5 DEF Chmod, Solo, Track, TypeOK
    <3>2. ret'[q] = "UPGRADED" /\ path' = path /\ body' = [body EXCEPT ![path].exec = TRUE]
      <4>1. Return(q, "UPGRADED") /\ path' = path /\ body' = [body EXCEPT ![path].exec = TRUE]
        BY <2>5, <3>1 DEF Chmod
      <4> QED
        BY <2>1, <4>1 DEF Return, TypeOK
    <3>3. body[path] \in File
      BY <2>1, <3>1 DEF TypeOK
    <3>4. body'[path].exec /\ body'[path].whole /\ body'[path].version = json.version
      BY <2>1, <3>1, <3>2, <3>3 DEF File, TypeOK
    <3>5. ~Older(json.version, json.version)
      BY <2>1, Versions, Order
    <3> QED
      BY <3>1, <3>2, <3>4, <3>5 DEF Works, EndsWell
  <2>6. ASSUME OpenJson(q) \/ Answer(q) PROVE FALSE
    BY <2>1, <2>6 DEF OpenJson, Answer, TypeOK
  <2>7. ASSUME WriteTarball(q) \/ CloseTarball(q) PROVE FALSE
    BY <2>1, <2>7 DEF WriteTarball, CloseTarball, TypeOK
  <2>12. CASE OpenTarball(q)
    <3>1. /\ pc[q] = "fetch" /\ UNCHANGED program
          /\ [version |-> call[q].found, commit |-> FALSE] \notin Asset
          /\ ret'[q] = "NETWORK"
      BY <2>1, <2>12 DEF OpenTarball, Return, TypeOK
    <3>2. Works /\ call[q].found = json.version
      BY <2>1, <3>1 DEF Track
    <3> QED
      BY <3>1, <3>2 DEF program, Works, EndsWell
  <2>8. ASSUME Unpack(q) PROVE FALSE
    BY <2>1, <2>8 DEF Unpack, Solo, TypeOK
  <2>9. ASSUME Unpacked(q) PROVE FALSE
    BY <2>1, <2>3, <2>9 DEF Unpacked, Track, TypeOK
  <2>10. ASSUME SelfPath(q) \/ Unlink(q) PROVE FALSE
    BY <2>1, <2>10 DEF SelfPath, Unlink, Track, Works, TypeOK
  <2>11. ASSUME OpenCopy(q) \/ Copied(q) PROVE FALSE
    <3>1. pc[q] = "open" => unpacked[call[q].found] = "whole"
      BY <2>1 DEF Solo
    <3> QED
      BY <2>1, <2>11, <3>1 DEF OpenCopy, Copied, TypeOK
  <2> QED
    BY <2>1, <2>2, <2>4, <2>5, <2>6, <2>7, <2>8, <2>9, <2>10, <2>11, <2>12 DEF Step
<1> QED
  BY <1>1, InitTrack, NextTrack, PTL DEF Spec, LeftoversHarmless
=============================================================================
