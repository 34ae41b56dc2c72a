--------------------------- MODULE DownloadProofs ---------------------------
(***************************************************************************)
(* Proofs about Download, for any number of processes, files, contents and *)
(* chunks: type correctness, and, when no two processes ask for the same   *)
(* cache file, that only verified content is ever extracted with success.  *)
(***************************************************************************)
EXTENDS Download, SequenceTheorems, TLAPS


LEMMA FunctionIsSeq ==
  ASSUME NEW n \in Nat, NEW S, NEW f \in [1..n -> S]
  PROVE  f \in Seq(S) /\ Len(f) = n
  OBVIOUS

LEMMA WholeType ==
  ASSUME NEW b \in Blob
  PROVE  Whole(b) \in Seq(Chunk) /\ Len(Whole(b)) = NChunks
  <1>1. Whole(b) \in [1..NChunks -> Chunk]
    BY DEF Whole, Chunk
  <1> QED BY <1>1, FunctionIsSeq, NChunksAssumption

\* A content is named by its chunks: two contents never have the same file.
LEMMA WholeInjective == \A b, c \in Blob : Whole(b) = Whole(c) => b = c
  <1> SUFFICES ASSUME NEW b \in Blob, NEW c \in Blob, Whole(b) = Whole(c)
               PROVE  b = c
    OBVIOUS
  <1>1. Whole(b)[1] = b /\ Whole(c)[1] = c
    BY NChunksAssumption DEF Whole
  <1> QED BY <1>1

\* A chunk written at an offset inside or just past the file.
LEMMA WrittenType ==
  ASSUME NEW c \in Seq(Chunk), NEW n \in Nat \ {0}, NEW b \in Blob
  PROVE  /\ Written(c, n, b) \in Seq(Chunk)
         /\ Len(Written(c, n, b)) = IF n > Len(c) THEN n ELSE Len(c)
  <1> DEFINE m == IF n > Len(c) THEN n ELSE Len(c)
  <1>1. m \in Nat
    OBVIOUS
  <1>2. Written(c, n, b) \in [1..m -> Chunk]
    BY ElementOfSeq DEF Written, Chunk
  <1> QED BY <1>1, <1>2, FunctionIsSeq

-----------------------------------------------------------------------------
(* Type correctness *)

LEMMA InitTypeOK == Init => TypeOK
  <1> SUFFICES ASSUME Init PROVE TypeOK
    OBVIOUS
  <1>1. ASSUME NEW n \in 0..NChunks, NEW b \in Blob
        PROVE  [k \in 1..n |-> b] \in Seq(Chunk)
    <2>1. [k \in 1..n |-> b] \in [1..n -> Chunk]
      BY DEF Chunk
    <2> QED BY <2>1, FunctionIsSeq, NChunksAssumption
  <1>2. Leftover \subseteq Seq(Chunk)
    BY <1>1 DEF Leftover
  <1>3. seen \in [Proc -> Seq(Chunk)]
    BY EmptySeq DEF Init
  <1>4. data \in [File -> Seq(Chunk)]
    BY <1>2 DEF Init
  <1> QED BY <1>3, <1>4, NChunksAssumption DEF Init, TypeOK, Labels, Results

LEMMA CallTypeOK == ASSUME TypeOK, NEW p \in Proc, Call(p) PROVE TypeOK'
  <1>1. PICK r \in Request[p] : req' = [req EXCEPT ![p] = r]
    BY DEF Call
  <1>2. r \in [file : File, sha : Blob]
    BY RequestAssumption
  <1>3. req' \in [Proc -> [file : File, sha : Blob]]
    BY <1>1, <1>2 DEF TypeOK
  <1> QED BY <1>3 DEF TypeOK, disk, Call, Labels, Results

LEMMA StepTypeOK == ASSUME TypeOK, NEW p \in Proc, Step(p) PROVE TypeOK'
  <1>0. <<>> \in Seq(Chunk)
    BY EmptySeq
  <1>1. CASE Stat(p)
    BY <1>0, <1>1 DEF TypeOK, disk, Stat, Goto, GotoReading, Labels
  <1>2. CASE ReadChunk(p)
    <2>1. Content(p) \in Seq(Chunk) /\ seen[p] \in Seq(Chunk)
      BY DEF TypeOK, Content
    <2>2. Content(p)[Len(seen[p]) + 1] \in Chunk
      BY <1>2, <2>1, ElementOfSeq DEF ReadChunk, AtEOF
    <2> QED BY <1>2, <2>1, <2>2 DEF TypeOK, disk, ReadChunk
  <1>3. CASE CheckCached(p)
    BY <1>0, <1>3 DEF TypeOK, disk, CheckCached, Goto, GotoReading, Labels
  <1>4. CASE OpenForWrite(p)
    BY <1>0, <1>4, NChunksAssumption DEF TypeOK, OpenForWrite, Goto, Labels
  <1>5. CASE WriteChunk(p)
    <2>0. Content(p) \in Seq(Chunk) /\ pos[p] + 1 \in Nat \ {0} /\ served[p] \in Blob
      BY NChunksAssumption DEF TypeOK, Content
    <2>1. Written(Content(p), pos[p] + 1, served[p]) \in Seq(Chunk)
      BY <2>0, WrittenType
    <2> QED BY <1>5, <2>1, NChunksAssumption DEF TypeOK, WriteChunk, Content
  <1>6. CASE FetchDone(p)
    BY <1>0, <1>6 DEF TypeOK, disk, FetchDone, Goto, GotoReading, Labels
  <1>7. CASE CheckFetched(p)
    BY <1>0, <1>7 DEF TypeOK, disk, CheckFetched, Goto, GotoReading, Return, Labels, Results
  <1>8. CASE Extract(p)
    <2>1. tree' \in [Proc -> Blob \cup {Empty, Torn}]
      BY <1>8 DEF TypeOK, Extract
    <2>2. ret' \in [Proc -> Results] /\ pc' \in [Proc -> Labels]
      BY <1>8 DEF TypeOK, Extract, Return, Labels, Results
    <2> QED BY <1>8, <2>1, <2>2 DEF TypeOK, disk, Extract
  <1> QED BY <1>1, <1>2, <1>3, <1>4, <1>5, <1>6, <1>7, <1>8 DEF Step

LEMMA FailureTypeOK == ASSUME TypeOK, NEW p \in Proc, Failure(p) PROVE TypeOK'
  <1>0. <<>> \in Seq(Chunk)
    BY EmptySeq
  <1>1. CASE ReadError(p)
    BY <1>1 DEF TypeOK, disk, ReadError, Blame, Return, Labels, Results
  <1>2. CASE OpenError(p)
    BY <1>2 DEF TypeOK, disk, OpenError, Blame, Return, Labels, Results
  <1>3. CASE FetchLosesTail(p)
    BY <1>0, <1>3 DEF TypeOK, disk, FetchLosesTail, Blame, Goto, GotoReading, Labels
  <1>4. CASE FetchError(p)
    BY <1>4 DEF TypeOK, disk, FetchError, Blame, Return, Labels, Results
  <1>5. CASE ExtractError(p)
    BY <1>5 DEF TypeOK, disk, ExtractError, Blame, Return, Labels, Results
  <1>6. CASE Kill(p)
    BY <1>6 DEF TypeOK, disk, Kill, Blame, Return, Labels, Results
  <1> QED BY <1>1, <1>2, <1>3, <1>4, <1>5, <1>6 DEF Failure

LEMMA NextTypeOK == ASSUME TypeOK, [Next]_vars PROVE TypeOK'
  <1>1. CASE UNCHANGED vars
    BY <1>1 DEF TypeOK, vars
  <1>2. CASE Next
    <2>1. PICK p \in Proc : Call(p) \/ Step(p) \/ Failure(p)
      BY <1>2 DEF Next
    <2> QED BY <2>1, CallTypeOK, StepTypeOK, FailureTypeOK
  <1> QED BY <1>1, <1>2

\* Download keeps its variables in their types.
THEOREM TypeCorrect == Spec => []TypeOK
  BY InitTypeOK, NextTypeOK, PTL DEF Spec
-----------------------------------------------------------------------------
(* Only verified content is extracted *)

\* Two sequences of chunks with the same length and elements are the same.
LEMMA SameChunks ==
  ASSUME NEW c \in Seq(Chunk), NEW d \in Seq(Chunk), Len(d) = Len(c),
         \A k \in 1..Len(d) : d[k] = c[k]
  PROVE  d = c
  BY SeqEqual

LEMMA AllChunksOf ==
  ASSUME NEW b \in Blob, NEW c \in Seq(Chunk), Len(c) = NChunks,
         \A k \in 1..NChunks : c[k] = b
  PROVE  c = Whole(b)
  <1>1. Whole(b) \in Seq(Chunk) /\ Len(Whole(b)) = NChunks
    BY WholeType
  <1>2. \A k \in 1..Len(c) : c[k] = Whole(b)[k]
    BY DEF Whole
  <1> QED BY <1>1, <1>2, SameChunks

\* A process that has read to the end of its file has read all of it.
LEMMA ReadAll ==
  ASSUME TypeOK, NEW p \in Proc, CallInv(p), AtEOF(p),
         pc[p] \in {"check", "verify", "extract"}
  PROVE  seen[p] = Content(p)
  <1>1. seen[p] \in Seq(Chunk) /\ Content(p) \in Seq(Chunk)
    BY DEF TypeOK, Content
  <1>2. Len(seen[p]) = Len(Content(p)) /\ \A k \in 1..Len(seen[p]) : seen[p][k] = Content(p)[k]
    BY <1>1, LenProperties DEF AtEOF, CallInv
  <1> QED BY <1>1, <1>2, SameChunks

LEMMA InitCallInv == ASSUME Init, NEW p \in Proc PROVE CallInv(p)
  BY DEF Init, CallInv

LEMMA CallCallInv == ASSUME TypeOK, NEW p \in Proc, CallInv(p), Call(p) PROVE CallInv(p)'
  <1>1. PICK r \in Request[p] : req' = [req EXCEPT ![p] = r]
    BY DEF Call
  <1>2. req'[p] \in Request[p] /\ pc'[p] = "stat" /\ ret'[p] = "none"
    BY <1>1 DEF TypeOK, Call
  <1> QED BY <1>2 DEF CallInv

LEMMA StepCallInv == ASSUME TypeOK, NEW p \in Proc, CallInv(p), Step(p) PROVE CallInv(p)'
  <1>t. /\ req[p] \in [file : File, sha : Blob] /\ served[p] \in Blob
        /\ seen[p] \in Seq(Chunk) /\ Content(p) \in Seq(Chunk) /\ pos[p] \in 0..NChunks
    BY DEF TypeOK, Content
  <1>1. CASE Stat(p)
    BY <1>1, <1>t, EmptySeq DEF CallInv, TypeOK, Stat, Goto, GotoReading, Content, disk
  <1>2. CASE ReadChunk(p)
    <2> DEFINE n == Len(seen[p]) + 1
    <2>1. n \in 1..Len(Content(p)) /\ Content(p)[n] \in Chunk
      BY <1>2, <1>t, ElementOfSeq DEF ReadChunk, AtEOF
    <2>2. seen'[p] = Append(seen[p], Content(p)[n]) /\ Content(p)' = Content(p)
      BY <1>2 DEF ReadChunk, TypeOK, Content, disk
    <2>3. Len(seen'[p]) = n
      BY <1>t, <2>1, <2>2, AppendProperties
    <2>4. \A k \in 1..Len(seen'[p]) : seen'[p][k] = Content(p)[k]
      BY <1>2, <1>t, <2>1, <2>2, <2>3, AppendProperties DEF CallInv, ReadChunk
    <2> QED BY <1>2, <2>1, <2>2, <2>3, <2>4 DEF CallInv, ReadChunk
  <1>3. CASE CheckCached(p)
    <2>1. seen[p] = Content(p)
      BY <1>3, ReadAll DEF CheckCached
    <2> QED BY <1>3, <2>1, <1>t, EmptySeq
            DEF CallInv, TypeOK, CheckCached, Goto, GotoReading, Content, disk
  <1>4. CASE OpenForWrite(p)
    <2>1. Content(p)' = <<>> /\ pos'[p] = 0 /\ pc'[p] = "fetch" /\ ret'[p] = "none"
      BY <1>4, <1>t DEF CallInv, TypeOK, OpenForWrite, Goto, Content
    <2>2. req'[p] = req[p] /\ req[p] \in Request[p]
      BY <1>4 DEF CallInv, OpenForWrite
    <2>3. p \notin faulty' => served'[p] = req[p].sha
      BY <1>4 DEF OpenForWrite, TypeOK
    <2> QED BY <2>1, <2>2, <2>3, EmptySeq DEF CallInv
  <1>5. CASE WriteChunk(p)
    <2> DEFINE n == pos[p] + 1
    <2>1. n \in Nat \ {0} /\ Len(Content(p)) = n - 1
      BY <1>5, <1>t, NChunksAssumption DEF CallInv, WriteChunk
    <2>2. Content(p)' = Written(Content(p), n, served[p])
      BY <1>5, <1>t DEF WriteChunk, TypeOK, Content
    <2>3. Len(Content(p)') = n
      BY <1>t, <2>1, <2>2, WrittenType
    <2>4. \A k \in 1..n : Content(p)'[k] = served[p]
      <3> SUFFICES ASSUME NEW k \in 1..n PROVE Written(Content(p), n, served[p])[k] = served[p]
        BY <2>2
      <3>1. k # n => k \in 1..pos[p] /\ Content(p)[k] = served[p]
        BY <1>5, <1>t DEF CallInv, WriteChunk
      <3> QED BY <3>1, <2>1, <1>t DEF Written
    <2>5. /\ pos'[p] = n /\ pc'[p] = "fetch" /\ ret'[p] = "none"
          /\ served'[p] = served[p] /\ req'[p] = req[p] /\ faulty' = faulty
          /\ req[p] \in Request[p] /\ (p \notin faulty => served[p] = req[p].sha)
      BY <1>5 DEF CallInv, WriteChunk, TypeOK
    <2> QED BY <2>3, <2>4, <2>5 DEF CallInv
  <1>6. CASE FetchDone(p)
    <2>1. Content(p) = Whole(served[p])
      <3>1. Len(Content(p)) = NChunks /\ \A k \in 1..NChunks : Content(p)[k] = served[p]
        BY <1>6 DEF CallInv, FetchDone
      <3> QED BY <3>1, <1>t, AllChunksOf
    <2> QED BY <1>6, <2>1, <1>t, EmptySeq
            DEF CallInv, TypeOK, FetchDone, Goto, GotoReading, Content, disk
  <1>7. CASE CheckFetched(p)
    <2>1. seen[p] = Content(p)
      BY <1>7, ReadAll DEF CheckFetched
    <2> QED BY <1>7, <2>1, <1>t, EmptySeq
            DEF CallInv, TypeOK, CheckFetched, Goto, GotoReading, Return, Content, disk
  <1>8. CASE Extract(p)
    <2>1. seen[p] = Whole(req[p].sha)
      BY <1>8, ReadAll DEF Extract, CallInv
    <2>2. seen[p] # <<>>
      BY <2>1, <1>t, WholeType, EmptySeq, NChunksAssumption
    <2>3. tree'[p] = req[p].sha
      BY <1>8, <1>t, <2>1, <2>2, WholeInjective DEF Extract, TypeOK
    <2>4. pc'[p] = "idle" /\ ret'[p] = "OK" /\ req' = req
      BY <1>8, <1>t, <2>1, <2>2 DEF Extract, Return, TypeOK
    <2> QED BY <2>3, <2>4 DEF CallInv
  <1> QED BY <1>1, <1>2, <1>3, <1>4, <1>5, <1>6, <1>7, <1>8 DEF Step

LEMMA FailureCallInv == ASSUME TypeOK, NEW p \in Proc, CallInv(p), Failure(p) PROVE CallInv(p)'
  <1>1. CASE ReadError(p)
    BY <1>1 DEF CallInv, TypeOK, ReadError, Blame, Return
  <1>2. CASE OpenError(p)
    BY <1>2 DEF CallInv, TypeOK, OpenError, Blame, Return
  <1>3. CASE FetchLosesTail(p)
    <2>1. Content(p) \in Seq(Chunk) /\ Content(p)' = Content(p)
      BY <1>3 DEF TypeOK, FetchLosesTail, Content, disk
    <2> QED BY <1>3, <2>1, EmptySeq
            DEF CallInv, TypeOK, FetchLosesTail, Blame, Goto, GotoReading
  <1>4. CASE FetchError(p)
    BY <1>4 DEF CallInv, TypeOK, FetchError, Blame, Return
  <1>5. CASE ExtractError(p)
    BY <1>5 DEF CallInv, TypeOK, ExtractError, Blame, Return
  <1>6. CASE Kill(p)
    BY <1>6 DEF CallInv, TypeOK, Kill, Blame, Return
  <1> QED BY <1>1, <1>2, <1>3, <1>4, <1>5, <1>6 DEF Failure

\* A step of p changes no variable of another process, and no file that
\* another process can be using.
LEMMA Frame ==
  ASSUME TypeOK, NEW p \in Proc, NEW q \in Proc, p # q,
         Call(p) \/ Step(p) \/ Failure(p)
  PROVE  /\ pc'[q] = pc[q] /\ req'[q] = req[q] /\ pos'[q] = pos[q] /\ seen'[q] = seen[q]
         /\ served'[q] = served[q] /\ tree'[q] = tree[q] /\ ret'[q] = ret[q]
         /\ q \in faulty' <=> q \in faulty
         /\ data' = data \/ (pc[p] # "idle" /\ \E c : data' = [data EXCEPT ![req[p].file] = c])
  <1>1. CASE Call(p)
    BY <1>1 DEF Call, TypeOK, disk
  <1>2. CASE Step(p)
    BY <1>2 DEF Step, Stat, ReadChunk, CheckCached, OpenForWrite, WriteChunk, FetchDone,
                CheckFetched, Extract, Goto, GotoReading, Return, TypeOK, disk
  <1>3. CASE Failure(p)
    BY <1>3 DEF Failure, ReadError, OpenError, FetchLosesTail, FetchError, ExtractError,
                Kill, Blame, Goto, GotoReading, Return, TypeOK, disk
  <1> QED BY <1>1, <1>2, <1>3

\* With files of their own, what one process does leaves the file another
\* one is using alone.
LEMMA OtherContent ==
  ASSUME Disjoint, TypeOK, NEW p \in Proc, NEW q \in Proc, p # q,
         Call(p) \/ Step(p) \/ Failure(p), CallInv(p), CallInv(q), pc[q] # "idle"
  PROVE  Content(q)' = Content(q)
  <1> SUFFICES ASSUME NEW c, pc[p] # "idle", data' = [data EXCEPT ![req[p].file] = c]
               PROVE  data'[req[q].file] = data[req[q].file]
    BY Frame DEF Content
  <1>1. req[p].file # req[q].file
    BY DEF Disjoint, CallInv
  <1> QED BY <1>1 DEF TypeOK

LEMMA OtherCallInv ==
  ASSUME Disjoint, TypeOK, NEW p \in Proc, NEW q \in Proc, p # q,
         Call(p) \/ Step(p) \/ Failure(p), CallInv(p), CallInv(q)
  PROVE  CallInv(q)'
  BY Frame, OtherContent DEF CallInv

LEMMA SafeInvStep == ASSUME Disjoint, SafeInv, [Next]_vars PROVE SafeInv'
  <1>1. TypeOK'
    BY NextTypeOK DEF SafeInv
  <1>2. CASE UNCHANGED vars
    BY <1>1, <1>2 DEF SafeInv, CallInv, Content, vars
  <1>3. CASE Next
    <2>1. PICK p \in Proc : Call(p) \/ Step(p) \/ Failure(p)
      BY <1>3 DEF Next
    <2>2. CallInv(p)'
      BY <2>1, CallCallInv, StepCallInv, FailureCallInv DEF SafeInv
    <2>3. ASSUME NEW q \in Proc, q # p PROVE CallInv(q)'
      BY <2>1, <2>3, OtherCallInv DEF SafeInv
    <2> QED BY <1>1, <2>2, <2>3 DEF SafeInv
  <1> QED BY <1>2, <1>3

\* When no two processes share a cache file, success always comes with the
\* tree of the content that was asked for.
THEOREM OnlyVerifiedExtracted == Disjoint /\ Spec => []OnlyVerified
  <1> SUFFICES ASSUME Disjoint PROVE Spec => []OnlyVerified
    OBVIOUS
  <1>1. Init => SafeInv
    BY InitTypeOK, InitCallInv DEF SafeInv
  <1>2. SafeInv /\ [Next]_vars => SafeInv'
    BY SafeInvStep
  <1>3. SafeInv => OnlyVerified
    BY DEF SafeInv, CallInv, OnlyVerified
  <1> QED BY <1>1, <1>2, <1>3, PTL DEF Spec

\* Nor can anything an earlier call left in the cache make a later one fail:
\* a call that meets no failure itself succeeds.
THEOREM CacheAlwaysHeals == Disjoint /\ Spec => []CacheHeals
  <1> SUFFICES ASSUME Disjoint PROVE Spec => []CacheHeals
    OBVIOUS
  <1>1. Init => SafeInv
    BY InitTypeOK, InitCallInv DEF SafeInv
  <1>2. SafeInv /\ [Next]_vars => SafeInv'
    BY SafeInvStep
  <1>3. SafeInv => CacheHeals
    BY DEF SafeInv, CallInv, CacheHeals
  <1> QED BY <1>1, <1>2, <1>3, PTL DEF Spec
-----------------------------------------------------------------------------
(* The call implements VerifiedSource *)

\* A step of the call after which it goes on shows nothing to the caller,
\* and one that returns gives the wanted tree or admits the failure.
LEMMA StepResult ==
  ASSUME TypeOK, NEW p \in Proc, CallInv(p), CallInv(p)', Step(p) \/ Failure(p)
  PROVE  /\ pc[p] # "idle" /\ req' = req
         /\ \/ pc'[p] # "idle" /\ tree' = tree
            \/ pc'[p] = "idle" /\ ret'[p] = "OK" /\ tree' = [tree EXCEPT ![p] = req[p].sha]
            \/ /\ pc'[p] = "idle" /\ ret'[p] \notin {"OK", "none"}
               /\ tree' \in {tree, [tree EXCEPT ![p] = Torn]}
  <1>1. CASE Step(p) /\ ~Extract(p)
    BY <1>1 DEF Step, Stat, ReadChunk, CheckCached, OpenForWrite, WriteChunk, FetchDone,
                CheckFetched, Goto, GotoReading, Return, TypeOK
  <1>2. CASE Extract(p)
    <2>1. pc[p] # "idle" /\ req' = req /\ pc'[p] = "idle" /\ ret'[p] \in {"OK", "ERROR"}
      BY <1>2 DEF Extract, Return, TypeOK
    <2>2. ret'[p] = "OK" => tree'[p] = req[p].sha
      BY <2>1 DEF CallInv
    <2>3. \E t : tree' = [tree EXCEPT ![p] = t]
      BY <1>2 DEF Extract, TypeOK
    <2>4. ret'[p] = "OK" => tree' = [tree EXCEPT ![p] = req[p].sha]
      BY <2>2, <2>3 DEF TypeOK
    <2>5. ret'[p] = "ERROR" => tree' = [tree EXCEPT ![p] = Torn]
      BY <1>2 DEF Extract, Return, TypeOK
    <2> QED BY <2>1, <2>4, <2>5
  <1>3. CASE Failure(p)
    BY <1>3 DEF Failure, ReadError, OpenError, FetchLosesTail, FetchError, ExtractError,
                Kill, Blame, Goto, GotoReading, Return, TypeOK
  <1> QED BY <1>1, <1>2, <1>3

\* What VerifiedSource sees of the processes.
Wants  == [p \in Proc |-> req[p].sha]
States == [p \in Proc |-> Seen(p)]

LEMMA SourceStep ==
  ASSUME Disjoint, SafeInv, [Next]_vars
  PROVE  Source!Next \/ UNCHANGED <<Wants, States, tree>>
  <1>1. CASE UNCHANGED vars
    BY <1>1 DEF vars, Wants, States, Seen
  <1>2. CASE Next
    <2>1. PICK p \in Proc : Call(p) \/ Step(p) \/ Failure(p)
      BY <1>2 DEF Next
    <2>2. ASSUME NEW q \in Proc, q # p PROVE Seen(q)' = Seen(q) /\ req'[q] = req[q]
      BY <2>1, <2>2, Frame DEF Seen, SafeInv
    <2>3. CASE Call(p)
      <3>1. PICK r \in Request[p] : req' = [req EXCEPT ![p] = r]
        BY <2>3 DEF Call
      <3>t. r \in [file : File, sha : Blob]
        BY RequestAssumption
      <3>2. r.sha \in Blob /\ req'[p] = r
        BY <3>1, <3>t DEF SafeInv, TypeOK
      <3>3. Seen(p) # "busy" /\ Seen(p)' = "busy"
        BY <2>3 DEF Call, Seen, SafeInv, TypeOK
      <3>4. Wants' = [Wants EXCEPT ![p] = r.sha] /\ States' = [States EXCEPT ![p] = "busy"]
        BY <2>2, <3>2, <3>3 DEF Wants, States
      <3>5. tree' = [tree EXCEPT ![p] = Source!Empty] /\ States[p] # "busy"
        BY <2>3, <3>3 DEF Call, Empty, Source!Empty, States
      <3> QED BY <3>2, <3>4, <3>5 DEF Source!Next, Source!Call, Wants, States
    <2>4. CASE Step(p) \/ Failure(p)
      <3>1. SafeInv'
        BY SafeInvStep
      <3>2. /\ pc[p] # "idle" /\ req' = req
            /\ \/ pc'[p] # "idle" /\ tree' = tree
               \/ /\ pc'[p] = "idle" /\ ret'[p] = "OK"
                  /\ tree' = [tree EXCEPT ![p] = req[p].sha]
               \/ /\ pc'[p] = "idle" /\ ret'[p] \notin {"OK", "none"}
                  /\ tree' \in {tree, [tree EXCEPT ![p] = Torn]}
        BY <2>4, <3>1, StepResult DEF SafeInv
      <3>3. Wants' = Wants /\ States[p] = "busy" /\ Wants[p] = req[p].sha
        BY <3>2 DEF Wants, States, Seen
      <3>4. CASE pc'[p] # "idle" /\ tree' = tree
        <4>1. Seen(p)' = Seen(p)
          BY <3>2, <3>4 DEF Seen
        <4> QED BY <2>2, <3>3, <3>4, <4>1 DEF States
      <3>5. CASE /\ pc'[p] = "idle" /\ ret'[p] = "OK"
                 /\ tree' = [tree EXCEPT ![p] = req[p].sha]
        <4>1. Seen(p)' = "ok"
          BY <3>5 DEF Seen
        <4>2. States' = [States EXCEPT ![p] = "ok"]
          BY <2>2, <4>1 DEF States
        <4>3. tree' = [tree EXCEPT ![p] = Wants[p]]
          BY <3>3, <3>5
        <4> QED BY <3>3, <4>2, <4>3 DEF Source!Next, Source!Succeed, Wants, States
      <3>6. CASE /\ pc'[p] = "idle" /\ ret'[p] \notin {"OK", "none"}
                 /\ tree' \in {tree, [tree EXCEPT ![p] = Torn]}
        <4>1. Seen(p)' = "failed"
          BY <3>6 DEF Seen
        <4>2. States' = [States EXCEPT ![p] = "failed"]
          BY <2>2, <4>1 DEF States
        <4>3. tree' \in {tree, [tree EXCEPT ![p] = Source!Torn]}
          BY <3>6 DEF Torn, Source!Torn
        <4> QED BY <3>3, <4>2, <4>3 DEF Source!Next, Source!Fail, Wants, States
      <3> QED BY <3>2, <3>4, <3>5, <3>6
    <2> QED BY <2>1, <2>3, <2>4
  <1> QED BY <1>1, <1>2

LEMMA SourceInit == Init => Source!Init
  BY InitTypeOK DEF Init, TypeOK, Source!Init, Seen, Empty, Source!Empty

\* When no two processes share a cache file, "download and uncompress" keeps
\* the promise of VerifiedSource, whatever the cache, the servers, the disk
\* and the deaths of processes do (setup.c:122-177).
THEOREM DownloadImplementsSource == Disjoint /\ Spec => ImplementsVerifiedSource
  <1> SUFFICES ASSUME Disjoint PROVE Spec => ImplementsVerifiedSource
    OBVIOUS
  <1>1. Init => SafeInv
    BY InitTypeOK, InitCallInv DEF SafeInv
  <1>2. SafeInv /\ [Next]_vars => SafeInv'
    BY SafeInvStep
  <1>3. SafeInv /\ [Next]_vars => [Source!Next]_Source!vars
    BY SourceStep DEF Source!vars, Wants, States
  <1> QED BY <1>1, <1>2, <1>3, SourceInit, PTL DEF Spec, ImplementsVerifiedSource, Source!Spec

-----------------------------------------------------------------------------
(* A good cached file is kept *)

LEMMA InitKept == Init => KeptInv
  BY DEF Init, KeptInv

\* What one step does to the files: a process that opens or fetches.
LEMMA DataStep ==
  ASSUME TypeOK, NEW p \in Proc, Call(p) \/ Step(p) \/ Failure(p)
  PROVE  \/ UNCHANGED disk /\ (pc'[p] = "fetch" => pc[p] = "fetch" /\ req'[p] = req[p])
         \/ OpenForWrite(p)
         \/ WriteChunk(p)
  <1>1. CASE Call(p)
    BY <1>1 DEF Call, TypeOK
  <1>2. CASE Step(p)
    BY <1>2 DEF Step, Stat, ReadChunk, CheckCached, FetchDone, CheckFetched, Extract,
                Goto, GotoReading, Return, TypeOK
  <1>3. CASE Failure(p)
    BY <1>3 DEF Failure, ReadError, OpenError, FetchLosesTail, FetchError, ExtractError,
                Kill, Goto, GotoReading, Return, TypeOK
  <1> QED BY <1>1, <1>2, <1>3

\* A process comes to truncate a file when it is not there, or was checked
\* and is not what it should be.
LEMMA OpensBadFile ==
  ASSUME SafeInv, KeptInv, NEW p \in Proc, Call(p) \/ Step(p) \/ Failure(p),
         pc'[p] = "open"
  PROVE  Content(p)' # Whole(req'[p].sha)
  <1>t. req[p] \in [file : File, sha : Blob]
    BY DEF SafeInv, TypeOK
  <1>1. CASE Stat(p)
    <2>1. Content(p) = <<>> /\ UNCHANGED <<disk, req>>
      BY <1>1, <1>t DEF Stat, Goto, GotoReading, KeptInv, Content, SafeInv, TypeOK
    <2>2. Whole(req[p].sha) # <<>>
      BY <1>t, WholeType, EmptySeq, NChunksAssumption
    <2> QED BY <2>1, <2>2 DEF Content, disk
  <1>2. CASE CheckCached(p)
    <2>1. seen[p] # Whole(req[p].sha) /\ UNCHANGED <<disk, req>>
      BY <1>2 DEF CheckCached, Goto, GotoReading, SafeInv, TypeOK
    <2>2. seen[p] = Content(p)
      BY <1>2, ReadAll DEF CheckCached, SafeInv
    <2> QED BY <2>1, <2>2 DEF Content, disk
  <1>3. ~Call(p) /\ ~Failure(p)
    BY DEF Call, Failure, ReadError, OpenError, FetchLosesTail, FetchError, ExtractError,
           Kill, Goto, GotoReading, Return, SafeInv, TypeOK
  <1>4. CASE Step(p) /\ ~Stat(p) /\ ~CheckCached(p)
    BY <1>4 DEF Step, ReadChunk, OpenForWrite, WriteChunk, FetchDone, CheckFetched, Extract,
                Goto, GotoReading, Return, SafeInv, TypeOK
  <1> QED BY <1>1, <1>2, <1>3, <1>4

LEMMA KeptStep == ASSUME Disjoint, SafeInv, KeptInv, [Next]_vars PROVE KeptInv'
  <1>1. CASE UNCHANGED vars
    BY <1>1 DEF vars, KeptInv, Content
  <1>2. CASE Next
    <2>1. PICK p \in Proc : Call(p) \/ Step(p) \/ Failure(p)
      BY <1>2 DEF Next
    <2>t. /\ TypeOK /\ req[p].file \in File
          /\ (pc[p] \in {"open", "fetch"} => req[p] \in Request[p])
      BY DEF SafeInv, TypeOK, CallInv
    <2>2. there \subseteq there'
      BY <2>1, <2>t, DataStep DEF disk, OpenForWrite, WriteChunk
    <2>3. ASSUME NEW f \in File \ there' PROVE data'[f] = <<>>
      <3>1. CASE UNCHANGED disk
        BY <2>3, <3>1 DEF KeptInv, disk
      <3>2. CASE OpenForWrite(p)
        BY <2>3, <2>t, <3>2 DEF KeptInv, OpenForWrite, TypeOK
      <3>3. CASE WriteChunk(p)
        BY <2>3, <2>t, <3>3 DEF KeptInv, WriteChunk, TypeOK
      <3> QED BY <2>1, <2>t, <3>1, <3>2, <3>3, DataStep
    <2>4. ASSUME NEW q \in Proc, pc'[q] = "fetch" PROVE req'[q].file \in there'
      <3>1. CASE q # p
        BY <2>1, <2>2, <2>4, <2>t, <3>1, Frame DEF KeptInv
      <3>2. CASE q = p
        BY <2>1, <2>4, <2>t, <3>2, DataStep DEF KeptInv, disk, OpenForWrite, WriteChunk, TypeOK
      <3> QED BY <3>1, <3>2
    <2>5. ASSUME NEW q \in Proc, pc'[q] = "open" PROVE Content(q)' # Whole(req'[q].sha)
      <3>1. CASE q # p
        <4>1. pc[q] = "open" /\ req'[q] = req[q]
          BY <2>1, <2>5, <2>t, <3>1, Frame
        <4>2. Content(q)' = Content(q)
          BY <2>1, <3>1, <4>1, OtherContent DEF SafeInv
        <4> QED BY <4>1, <4>2 DEF KeptInv
      <3>2. CASE q = p
        BY <2>1, <2>5, <3>2, OpensBadFile
      <3> QED BY <3>1, <3>2
    <2> QED BY <2>3, <2>4, <2>5 DEF KeptInv
  <1> QED BY <1>1, <1>2

LEMMA GoodFileStep ==
  ASSUME SafeInv, KeptInv, [Next]_vars,
         NEW f \in File, NEW b \in Blob, data[f] = Whole(b),
         \A p \in Proc : \A r \in Request[p] : r.file = f => r.sha = b,
         \A p \in Proc : pc[p] = "fetch" => req[p].file # f
  PROVE  data'[f] = data[f]
  <1>1. CASE UNCHANGED vars
    BY <1>1 DEF vars
  <1>2. CASE Next
    <2>1. PICK p \in Proc : Call(p) \/ Step(p) \/ Failure(p)
      BY <1>2 DEF Next
    <2>2. CASE OpenForWrite(p)
      <3>1. req[p] \in Request[p] /\ Content(p) # Whole(req[p].sha)
        BY <2>2 DEF OpenForWrite, SafeInv, CallInv, KeptInv
      <3>2. req[p].file # f
        BY <3>1 DEF Content
      <3> QED BY <2>2, <3>2 DEF OpenForWrite, SafeInv, TypeOK
    <2>3. CASE WriteChunk(p)
      BY <2>3 DEF WriteChunk, SafeInv, TypeOK
    <2> QED BY <2>1, <2>2, <2>3, DataStep DEF SafeInv, disk
  <1> QED BY <1>1, <1>2

\* When no two processes share a cache file, one that already has the content
\* its user asks for is never truncated or rewritten (setup.c:129-150).
THEOREM GoodFilesAreKept == Disjoint /\ Spec => GoodFileKept
  <1> SUFFICES ASSUME Disjoint PROVE Spec => GoodFileKept
    OBVIOUS
  <1>1. Init => SafeInv /\ KeptInv
    BY InitTypeOK, InitCallInv, InitKept DEF SafeInv
  <1>2. SafeInv /\ KeptInv /\ [Next]_vars => SafeInv' /\ KeptInv'
    BY SafeInvStep, KeptStep
  <1>3. SafeInv /\ KeptInv /\ [Next]_vars =>
          [\A f \in File, b \in Blob :
             (/\ data[f] = Whole(b)
              /\ \A p \in Proc : \A r \in Request[p] : r.file = f => r.sha = b
              /\ \A p \in Proc : pc[p] = "fetch" => req[p].file # f)
               => data'[f] = data[f]]_vars
    BY GoodFileStep
  <1> QED BY <1>1, <1>2, <1>3, PTL DEF Spec, GoodFileKept

-----------------------------------------------------------------------------
(* Processes that share a cache file *)

\* A request that agrees with the writer's on the sum keeps its file pure, and
\* a file changes only to become pure.
LEMMA DataPure ==
  ASSUME TypeOK, Honest, NEW p \in Proc, SharedInv(p), Call(p) \/ Step(p) \/ Failure(p),
         NEW r \in [file : File, sha : Blob],
         req[p] \in Request[p] /\ req[p].file = r.file => req[p].sha = r.sha
  PROVE  /\ Pure(r) => Pure(r)'
         /\ data'[r.file] = data[r.file] \/ Pure(r)'
  <1>t. /\ req[p] \in [file : File, sha : Blob] /\ data[r.file] \in Seq(Chunk)
        /\ pos[p] \in 0..NChunks /\ served[p] \in Blob
    BY DEF TypeOK
  <1>1. CASE data'[r.file] = data[r.file]
    BY <1>1 DEF Pure
  <1>2. CASE OpenForWrite(p)
    <2>1. data'[req[p].file] = <<>>
      BY <1>2, <1>t DEF OpenForWrite, TypeOK
    <2>2. CASE req[p].file = r.file
      BY <2>1, <2>2, EmptySeq DEF Pure
    <2>3. CASE req[p].file # r.file
      BY <1>1, <1>2, <1>t, <2>3 DEF OpenForWrite, TypeOK
    <2> QED BY <2>2, <2>3
  <1>3. CASE WriteChunk(p)
    <2>1. CASE req[p].file = r.file
      <3> DEFINE n == pos[p] + 1
                 c == Written(data[r.file], n, served[p])
      <3>1. n \in Nat \ {0} /\ data'[r.file] = c
        BY <1>3, <1>t, <2>1, NChunksAssumption DEF WriteChunk, TypeOK
      <3>2. served[p] = r.sha /\ Pure(r)
        BY <1>3, <2>1 DEF WriteChunk, Honest, SharedInv, Pure
      <3>3. Len(c) = IF n > Len(data[r.file]) THEN n ELSE Len(data[r.file])
        BY <1>t, <3>1, WrittenType
      <3>4. ASSUME NEW k \in 1..Len(c) PROVE c[k] \in {r.sha, Hole}
        <4>1. c[k] = IF k = n THEN served[p]
                     ELSE IF k <= Len(data[r.file]) THEN data[r.file][k] ELSE Hole
          BY <3>3 DEF Written
        <4>2. k <= Len(data[r.file]) => data[r.file][k] \in {r.sha, Hole}
          BY <1>t, <3>2, <3>4, LenProperties DEF Pure
        <4> QED BY <3>2, <4>1, <4>2
      <3> QED BY <3>1, <3>4 DEF Pure
    <2>2. CASE req[p].file # r.file
      BY <1>1, <1>3, <1>t, <2>2 DEF WriteChunk, TypeOK
    <2> QED BY <2>1, <2>2
  <1> QED BY <1>1, <1>2, <1>3, DataStep DEF disk

\* Pure and Foreign are about the file only.
LEMMA SameFile ==
  ASSUME NEW r, data'[r.file] = data[r.file]
  PROVE  (Pure(r)' <=> Pure(r)) /\ (Foreign(r)' <=> Foreign(r))
  BY DEF Pure, Foreign

\* Call, and the failures, leave the file and what was read alone.
LEMMA SharedCall ==
  ASSUME TypeOK, NEW p \in Proc, SharedInv(p), Call(p) PROVE SharedInv(p)'
  <1>1. PICK r \in Request[p] : req' = [req EXCEPT ![p] = r]
    BY DEF Call
  <1>2. /\ req'[p] \in Request[p] /\ pc'[p] = "stat" /\ ret'[p] = "none" /\ tree'[p] = Empty
        /\ data' = data
    BY <1>1 DEF TypeOK, Call, disk
  <1>3. \A s \in Request[p] : Pure(s)' \/ Foreign(s)'
    BY <1>2 DEF SharedInv, Pure, Foreign
  <1> QED BY <1>2, <1>3 DEF SharedInv

LEMMA SharedFailure ==
  ASSUME TypeOK, NEW p \in Proc, SharedInv(p), Failure(p) PROVE SharedInv(p)'
  <1>1. /\ data' = data /\ req' = req
        /\ \/ pc'[p] = "idle" /\ ret'[p] \notin {"OK", "none"}
           \/ /\ pc[p] = "fetch" /\ pc'[p] = "verify" /\ ret'[p] = ret[p]
              /\ tree'[p] = tree[p]
    BY DEF Failure, ReadError, OpenError, FetchLosesTail, FetchError, ExtractError,
           Kill, Goto, GotoReading, Return, TypeOK, disk
  <1>2. /\ \A s \in Request[p] : Pure(s)' \/ Foreign(s)'
        /\ Pure(req[p]) => Pure(req[p])'
    BY <1>1 DEF SharedInv, Pure, Foreign
  <1> QED BY <1>1, <1>2 DEF SharedInv

LEMMA SharedStep ==
  ASSUME Agreed, TypeOK, Honest, NEW p \in Proc, SharedInv(p), Step(p) PROVE SharedInv(p)'
  <1>r. PICK r \in [file : File, sha : Blob] : r = req[p]
    BY DEF TypeOK
  <1>t. /\ seen[p] \in Seq(Chunk) /\ data[r.file] \in Seq(Chunk) /\ pc[p] # "idle"
        /\ Content(p) = data[r.file]
        /\ ret[p] = "none" /\ tree[p] = Empty /\ r \in Request[p]
    BY <1>r DEF TypeOK, Content, SharedInv, Step, Stat, ReadChunk, CheckCached, OpenForWrite,
                WriteChunk, FetchDone, CheckFetched, Extract
  <1>q. req'[p] = r
    BY <1>r DEF Step, Stat, ReadChunk, CheckCached, OpenForWrite, WriteChunk, FetchDone,
                CheckFetched, Extract
  <1>f. ASSUME NEW s \in Request[p] PROVE Pure(s)' \/ Foreign(s)'
    <2>1. s \in [file : File, sha : Blob]
      BY RequestAssumption
    <2>2. req[p] \in Request[p] /\ req[p].file = s.file => req[p].sha = s.sha
      BY DEF Agreed
    <2> QED BY <2>1, <2>2, DataPure, SameFile DEF SharedInv
  <1>p. (Pure(r) => Pure(r)') /\ (Pure(req[p])' <=> Pure(r)') /\ (Pure(req[p]) <=> Pure(r))
    <2>1. Pure(r) => Pure(r)'
      BY <1>r, DataPure
    <2> QED BY <1>r, <1>q, <2>1 DEF Pure
  \* Reduce the goal to the parts about the process.
  <1> SUFFICES /\ pc'[p] # "idle" => ret'[p] = "none" /\ tree'[p] = Empty
               /\ pc'[p] = "check" =>
                    Pure(r)' \/ \A k \in 1..Len(seen'[p]) : seen'[p][k] # r.sha
               /\ pc'[p] \in {"fetch", "verify", "extract"} => Pure(r)'
               /\ pc'[p] = "extract" =>
                    \A k \in 1..Len(seen'[p]) : seen'[p][k] \in {r.sha, Hole}
               /\ ret'[p] = "OK" => tree'[p] \in {r.sha, Empty}
    BY <1>t, <1>q, <1>f, <1>p DEF SharedInv
  <1>1. CASE Stat(p)
    BY <1>1, <1>t, EmptySeq DEF Stat, Goto, GotoReading, TypeOK
  <1>2. CASE ReadChunk(p)
    <2> DEFINE n == Len(seen[p]) + 1
    <2>1. n \in 1..Len(data[r.file])
      BY <1>2, <1>t, LenProperties DEF ReadChunk, AtEOF
    <2>2. /\ seen'[p] = Append(seen[p], data[r.file][n]) /\ pc' = pc /\ ret' = ret
          /\ tree' = tree
      BY <1>2, <1>t DEF ReadChunk, TypeOK
    <2>3. Len(seen'[p]) = n /\ seen'[p][n] = data[r.file][n]
          /\ \A k \in 1..Len(seen[p]) : seen'[p][k] = seen[p][k]
      BY <1>t, <2>1, <2>2, AppendProperties, ElementOfSeq
    <2>4. \A k \in 1..n : k = n \/ k \in 1..Len(seen[p])
      BY <1>t, LenProperties
    <2>5. Pure(r) => data[r.file][n] \in {r.sha, Hole}
      BY <2>1 DEF Pure
    <2>6. ~Pure(r) => data[r.file][n] # r.sha
      BY <1>t, <2>1 DEF SharedInv, Foreign
    <2>7. pc[p] = "check" => Pure(r) \/ \A k \in 1..n : seen'[p][k] # r.sha
      BY <1>r, <1>p, <2>3, <2>4, <2>6 DEF SharedInv
    <2>8. pc[p] = "extract" => \A k \in 1..n : seen'[p][k] \in {r.sha, Hole}
      BY <1>r, <1>p, <2>3, <2>4, <2>5 DEF SharedInv
    <2> QED BY <1>2, <1>t, <1>p, <2>2, <2>3, <2>7, <2>8 DEF SharedInv
  <1>3. CASE CheckCached(p)
    <2>1. CASE seen[p] = Whole(r.sha) /\ GotoReading(p, "extract")
      <3>1. Len(seen[p]) = NChunks /\ seen[p][1] = r.sha
        BY <2>1, WholeType, NChunksAssumption DEF Whole
      <3>2. Pure(r)
        BY <1>3, <1>r, <1>p, <3>1, NChunksAssumption DEF SharedInv, CheckCached
      <3> QED BY <1>3, <1>t, <1>p, <2>1, <3>2, EmptySeq
              DEF GotoReading, Goto, TypeOK, CheckCached
    <2>2. CASE Goto(p, "open")
      BY <1>3, <1>t, <2>2 DEF CheckCached, Goto, TypeOK
    <2> QED BY <1>3, <1>r, <2>1, <2>2 DEF CheckCached
  <1>4. CASE OpenForWrite(p)
    <2>1. data'[r.file] = <<>>
      BY <1>4, <1>r DEF OpenForWrite, TypeOK
    <2>2. Pure(r)'
      BY <2>1, EmptySeq DEF Pure
    <2> QED BY <1>4, <1>t, <2>2 DEF OpenForWrite, Goto, TypeOK
  <1>5. CASE WriteChunk(p) \/ FetchDone(p)
    <2>1. pc[p] = "fetch" /\ Pure(r)'
      BY <1>5, <1>p DEF SharedInv, WriteChunk, FetchDone
    <2> QED BY <1>5, <1>t, <2>1 DEF WriteChunk, FetchDone, GotoReading, Goto, TypeOK
  <1>6. CASE CheckFetched(p)
    <2>1. pc[p] = "verify" /\ Pure(r)'
      BY <1>6, <1>p DEF SharedInv, CheckFetched
    <2> QED BY <1>6, <1>t, <2>1, EmptySeq
            DEF CheckFetched, GotoReading, Goto, Return, TypeOK
  <1>7. CASE Extract(p)
    <2>1. /\ pc'[p] = "idle" /\ pc[p] = "extract"
          /\ \A k \in 1..Len(seen[p]) : seen[p][k] \in {r.sha, Hole}
      BY <1>7, <1>r DEF Extract, Return, TypeOK, SharedInv
    <2>2. ASSUME NEW b \in Blob, seen[p] = Whole(b) PROVE b = r.sha
      <3>1. Len(seen[p]) = NChunks /\ seen[p][1] = b
        BY <2>2, WholeType, NChunksAssumption DEF Whole
      <3> QED BY <2>1, <3>1, NChunksAssumption, HoleAssumption
    <2>3. ret'[p] = "OK" => tree'[p] \in {r.sha, Empty}
      BY <1>7, <1>t, <2>2 DEF Extract, Return, TypeOK
    <2> QED BY <2>1, <2>3
  <1> QED BY <1>1, <1>2, <1>3, <1>4, <1>5, <1>6, <1>7 DEF Step

\* The process next to it.
LEMMA SharedOther ==
  ASSUME Agreed, TypeOK, Honest, NEW p \in Proc, NEW q \in Proc, p # q,
         SharedInv(p), SharedInv(q), Call(p) \/ Step(p) \/ Failure(p)
  PROVE  SharedInv(q)'
  <1>r. PICK r \in [file : File, sha : Blob] : r = req[q]
    BY DEF TypeOK
  <1>q. /\ pc'[q] = pc[q] /\ req'[q] = r /\ seen'[q] = seen[q]
        /\ tree'[q] = tree[q] /\ ret'[q] = ret[q]
    BY <1>r, Frame
  <1>1. ASSUME NEW s \in Request[q] PROVE (Pure(s)' \/ Foreign(s)') /\ (Pure(s) => Pure(s)')
    <2>1. s \in [file : File, sha : Blob]
      BY RequestAssumption
    <2>2. req[p] \in Request[p] /\ req[p].file = s.file => req[p].sha = s.sha
      BY DEF Agreed
    <2> QED BY <2>1, <2>2, DataPure, SameFile DEF SharedInv
  <1>2. (Pure(req[q])' <=> Pure(r)') /\ (Pure(req[q]) <=> Pure(r))
    BY <1>r, <1>q DEF Pure
  <1>3. pc[q] # "idle" => r \in Request[q] /\ (Pure(r) => Pure(r)')
    BY <1>r, <1>1 DEF SharedInv
  <1> QED BY <1>r, <1>q, <1>1, <1>2, <1>3 DEF SharedInv

AllShared == \A p \in Proc : SharedInv(p)

LEMMA LeftoverForm ==
  ASSUME NEW d \in Leftover
  PROVE  \E n \in 0..NChunks, b \in Blob : d = [k \in 1..n |-> b]
  BY SMT DEF Leftover

LEMMA InitShared == Init => AllShared
  <1> SUFFICES ASSUME Init, NEW p \in Proc, NEW r \in Request[p] PROVE Pure(r) \/ Foreign(r)
    BY DEF Init, AllShared, SharedInv
  <1>t. r \in [file : File, sha : Blob]
    BY RequestAssumption
  <1>1. data[r.file] \in Leftover
    BY <1>t DEF Init
  <1>2. PICK n \in 0..NChunks, b \in Blob : data[r.file] = [k \in 1..n |-> b]
    BY <1>1, LeftoverForm
  <1>3. [k \in 1..n |-> b] \in [1..n -> Blob]
    OBVIOUS
  <1>4. Len(data[r.file]) = n /\ \A k \in 1..n : data[r.file][k] = b
    BY <1>2, <1>3, FunctionIsSeq, NChunksAssumption
  <1> QED BY <1>4 DEF Pure, Foreign

LEMMA SharedNext == Agreed /\ TypeOK /\ Honest /\ AllShared /\ [Next]_vars => AllShared'
  <1> SUFFICES ASSUME Agreed, TypeOK, Honest, AllShared, [Next]_vars, NEW q \in Proc
               PROVE  SharedInv(q)'
    BY DEF AllShared
  <1>1. CASE UNCHANGED vars
    BY <1>1 DEF vars, AllShared, SharedInv, Pure, Foreign
  <1>2. CASE Next
    <2>1. PICK p \in Proc : Call(p) \/ Step(p) \/ Failure(p)
      BY <1>2 DEF Next
    <2> QED BY <2>1, SharedCall, SharedStep, SharedFailure, SharedOther DEF AllShared
  <1> QED BY <1>1, <1>2

\* Processes that share cache files but agree on their sums, with servers that
\* send what was asked for, never report success with a torn tree or the tree
\* of another content: at worst nothing was extracted (setup.c:122-177).
THEOREM NoTornTreeShared == Agreed /\ Spec /\ []Honest => []NoTornSuccess
  <1> SUFFICES ASSUME Agreed PROVE Spec /\ []Honest => []NoTornSuccess
    OBVIOUS
  <1>1. Init => TypeOK /\ AllShared
    BY InitTypeOK, InitShared
  <1>2. TypeOK /\ AllShared /\ Honest /\ [Next]_vars => TypeOK' /\ AllShared'
    BY NextTypeOK, SharedNext
  <1>3. AllShared => NoTornSuccess
    BY DEF AllShared, SharedInv, NoTornSuccess
  <1> QED BY <1>1, <1>2, <1>3, PTL DEF Spec
=============================================================================
