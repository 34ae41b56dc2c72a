------------------------------ MODULE Download ------------------------------
(***************************************************************************)
(* python3_setup_download_and_uncompress (setup.c) with the fetch, hash    *)
(* and extract loops it drives (http.c, sha256sum.c, tar.c), for several   *)
(* python3-setup processes that share ~/.python3-setup/downloads.          *)
(*                                                                         *)
(* A file is a sequence of at most NChunks chunks. Each process reads and  *)
(* writes it at its own offset, one chunk per step, and fopen(.., "wb")    *)
(* truncates the file every other process has open. The SHA-256 sum of a   *)
(* file is taken to identify its content: a request names the content.     *)
(***************************************************************************)
EXTENDS Integers, Sequences

CONSTANTS Proc,     \* the processes
          File,     \* the names basename(url) can give in the downloads directory
          Blob,     \* the contents a server can send
          NChunks,  \* the number of chunks of a whole content
          Request   \* Request[p]: the [file, sha] pairs p may ask for

ASSUME NChunksAssumption == NChunks \in Nat \ {0}
ASSUME RequestAssumption == Request \in [Proc -> SUBSET [file : File, sha : Blob]]

\* What a read finds where another process truncated and wrote past the gap.
Hole == "hole"
ASSUME HoleAssumption == Hole \notin Blob

\* What an uncompress directory can hold besides the tree of a content.
Empty == "empty"
Torn  == "torn"
ASSUME TreeAssumption == Empty \notin Blob /\ Torn \notin Blob

VARIABLES there,  \* the names of the regular files in the downloads directory
          data,   \* data[f]: the chunks of file f
          pc,     \* where each process stands in the call
          req,    \* the request of the call
          pos,    \* chunks written so far by the fetch
          seen,   \* chunks read so far by the hash or the extraction
          served, \* the content the server sends to this fetch
          tree,   \* what the uncompress directory holds
          ret,    \* how the last call ended
          faulty  \* the processes whose call the environment failed (history)

disk == <<there, data>>
vars == <<there, data, pc, req, pos, seen, served, tree, ret, faulty>>

Labels  == {"idle", "stat", "check", "open", "fetch", "verify", "extract"}
Results == {"none", "OK", "ERROR", "NETWORK", "SHA256_MISMATCH", "killed"}
Chunk   == Blob \cup {Hole}
Whole(b) == [k \in 1..NChunks |-> b]

TypeOK ==
  /\ there  \subseteq File
  /\ data   \in [File -> Seq(Chunk)]
  /\ pc     \in [Proc -> Labels]
  /\ req    \in [Proc -> [file : File, sha : Blob]]
  /\ pos    \in [Proc -> 0..NChunks]
  /\ seen   \in [Proc -> Seq(Chunk)]
  /\ served \in [Proc -> Blob]
  /\ tree   \in [Proc -> Blob \cup {Empty, Torn}]
  /\ ret    \in [Proc -> Results]
  /\ faulty \subseteq Proc

\* The downloads directory may already hold anything an earlier run left: a
\* whole content, or the first chunks of one whose fetch was interrupted.
Leftover == {[k \in 1..n |-> b] : n \in 0..NChunks, b \in Blob}

Init ==
  /\ there  \in SUBSET File
  /\ data   \in [File -> Leftover]
  /\ \A f \in File \ there : data[f] = <<>>
  /\ pc     = [p \in Proc |-> "idle"]
  /\ req    \in [Proc -> [file : File, sha : Blob]]
  /\ pos    = [p \in Proc |-> 0]
  /\ seen   = [p \in Proc |-> <<>>]
  /\ served = [p \in Proc |-> req[p].sha]
  /\ tree   = [p \in Proc |-> Empty]
  /\ ret    = [p \in Proc |-> "none"]
  /\ faulty = {}

-----------------------------------------------------------------------------
Content(p) == data[req[p].file]

\* Process p leaves the call with result r.
Return(p, r) ==
  /\ pc'  = [pc EXCEPT ![p] = "idle"]
  /\ ret' = [ret EXCEPT ![p] = r]

Goto(p, label) ==
  /\ pc' = [pc EXCEPT ![p] = label]
  /\ UNCHANGED ret

\* Start reading the file from its first chunk at the given label.
GotoReading(p, label) ==
  /\ Goto(p, label)
  /\ seen' = [seen EXCEPT ![p] = <<>>]

Blame(p) == faulty' = faulty \cup {p}

AtEOF(p) == Len(seen[p]) >= Len(Content(p))

Call(p) ==
  /\ pc[p] = "idle"
  /\ \E r \in Request[p] : req' = [req EXCEPT ![p] = r]
  /\ tree'  = [tree EXCEPT ![p] = Empty]
  /\ faulty' = faulty \ {p}
  /\ pc'    = [pc EXCEPT ![p] = "stat"]
  /\ ret'   = [ret EXCEPT ![p] = "none"]
  /\ UNCHANGED <<disk, pos, seen, served>>

\* Mutant of Stat: the file is fetched again whatever the cache holds.
Stat_AlwaysFetches(p) ==
  /\ pc[p] = "stat"
  /\ Goto(p, "open")
  /\ UNCHANGED <<disk, req, pos, seen, served, tree, faulty>>

Stat(p) ==
  /\ pc[p] = "stat"
  /\ \/ req[p].file \in there /\ GotoReading(p, "check")
     \/ req[p].file \notin there /\ Goto(p, "open") /\ UNCHANGED seen
  /\ UNCHANGED <<disk, req, pos, served, tree, faulty>>

\* fread of the hash and extraction loops; a shrunken file reads as EOF.
ReadChunk(p) ==
  /\ pc[p] \in {"check", "verify", "extract"}
  /\ ~AtEOF(p)
  /\ seen' = [seen EXCEPT ![p] = Append(@, Content(p)[Len(@) + 1])]
  /\ UNCHANGED <<disk, pc, req, pos, served, tree, ret, faulty>>

\* sha256sum_of_file cannot open or read the file.
ReadError(p) ==
  /\ pc[p] \in {"check", "verify"}
  /\ Blame(p)
  /\ Return(p, "ERROR")
  /\ UNCHANGED <<disk, req, pos, seen, served, tree>>

\* Mutant of CheckCached: a file that exists is taken to be good.
CheckCached_Trusts(p) ==
  /\ pc[p] = "check"
  /\ AtEOF(p)
  /\ GotoReading(p, "extract")
  /\ UNCHANGED <<disk, req, pos, served, tree, faulty>>

\* The cached file is used as it is only when its sum is the expected one.
CheckCached(p) ==
  /\ pc[p] = "check"
  /\ AtEOF(p)
  /\ \/ seen[p] = Whole(req[p].sha) /\ GotoReading(p, "extract")
     \/ seen[p] # Whole(req[p].sha) /\ Goto(p, "open") /\ UNCHANGED seen
  /\ UNCHANGED <<disk, req, pos, served, tree, faulty>>

\* fopen(filePath, "wb") truncates in place; the server may send anything.
OpenForWrite(p) ==
  /\ pc[p] = "open"
  /\ there' = there \cup {req[p].file}
  /\ data' = [data EXCEPT ![req[p].file] = <<>>]
  /\ pos' = [pos EXCEPT ![p] = 0]
  /\ \E b \in Blob :
       /\ served' = [served EXCEPT ![p] = b]
       /\ faulty' = IF b = req[p].sha THEN faulty ELSE faulty \cup {p}
  /\ Goto(p, "fetch")
  /\ UNCHANGED <<req, seen, tree>>

OpenError(p) ==
  /\ pc[p] = "open"
  /\ Blame(p)
  /\ Return(p, "ERROR")
  /\ UNCHANGED <<disk, req, pos, seen, served, tree>>

\* The file content after chunk b is written at offset n of content c.
Written(c, n, b) ==
  [k \in 1..(IF n > Len(c) THEN n ELSE Len(c)) |->
     IF k = n THEN b ELSE IF k <= Len(c) THEN c[k] ELSE Hole]

\* Mutant of WriteChunk: the transfer does not stop at the end of the content.
WriteChunk_NoEnd(p) ==
  /\ pc[p] = "fetch"
  /\ pos' = [pos EXCEPT ![p] = @ + 1]
  /\ data' = [data EXCEPT ![req[p].file] = Written(@, pos[p] + 1, served[p])]
  /\ UNCHANGED <<there, pc, req, seen, served, tree, ret, faulty>>

WriteChunk(p) ==
  /\ pc[p] = "fetch"
  /\ pos[p] < NChunks
  /\ pos' = [pos EXCEPT ![p] = @ + 1]
  /\ data' = [data EXCEPT ![req[p].file] = Written(@, pos[p] + 1, served[p])]
  /\ UNCHANGED <<there, pc, req, seen, served, tree, ret, faulty>>

FetchDone(p) ==
  /\ pc[p] = "fetch"
  /\ pos[p] = NChunks
  /\ GotoReading(p, "verify")
  /\ UNCHANGED <<disk, req, pos, served, tree, faulty>>

\* fclose drops the buffered tail of the file and its result is ignored.
FetchLosesTail(p) ==
  /\ pc[p] = "fetch"
  /\ pos[p] = NChunks - 1
  /\ Blame(p)
  /\ GotoReading(p, "verify")
  /\ UNCHANGED <<disk, req, pos, served, tree>>

\* curl_easy_perform fails; what was written so far stays in the cache.
FetchError(p) ==
  /\ pc[p] = "fetch"
  /\ Blame(p)
  /\ Return(p, "NETWORK")
  /\ UNCHANGED <<disk, req, pos, seen, served, tree>>

\* Mutant of CheckFetched: what was just fetched is not compared.
CheckFetched_NoCompare(p) ==
  /\ pc[p] = "verify"
  /\ AtEOF(p)
  /\ GotoReading(p, "extract")
  /\ UNCHANGED <<disk, req, pos, served, tree, faulty>>

\* Mutant of CheckFetched: after a mismatch the file is fetched again.
CheckFetched_Refetches(p) ==
  /\ pc[p] = "verify"
  /\ AtEOF(p)
  /\ IF seen[p] = Whole(req[p].sha) THEN GotoReading(p, "extract")
                                    ELSE GotoReading(p, "open")
  /\ UNCHANGED <<disk, req, pos, served, tree, faulty>>

\* The fetched file is hashed again; a bad file is reported and kept.
CheckFetched(p) ==
  /\ pc[p] = "verify"
  /\ AtEOF(p)
  /\ \/ seen[p] = Whole(req[p].sha) /\ GotoReading(p, "extract")
     \/ seen[p] # Whole(req[p].sha) /\ Return(p, "SHA256_MISMATCH") /\ UNCHANGED seen
  /\ UNCHANGED <<disk, req, pos, served, tree, faulty>>

\* Mutant of Extract: a read error in the archive is taken for a warning.
Extract_Warns(p) ==
  /\ pc[p] = "extract"
  /\ AtEOF(p)
  /\ tree' = [tree EXCEPT ![p] = IF seen[p] = Whole(req[p].sha) THEN req[p].sha ELSE Torn]
  /\ Return(p, "OK")
  /\ UNCHANGED <<disk, req, pos, seen, served, faulty>>

\* What tar_extract makes of the chunks it read: a whole archive gives its
\* tree, an empty file is an empty archive, anything else is a read error.
Extract(p) ==
  /\ pc[p] = "extract"
  /\ AtEOF(p)
  /\ \/ \E b \in Blob : /\ seen[p] = Whole(b)
                        /\ tree' = [tree EXCEPT ![p] = b]
                        /\ Return(p, "OK")
     \/ /\ seen[p] = <<>>
        /\ UNCHANGED tree
        /\ Return(p, "OK")
     \/ /\ seen[p] \notin {Whole(b) : b \in Blob} \cup {<<>>}
        /\ tree' = [tree EXCEPT ![p] = Torn]
        /\ Return(p, "ERROR")
  /\ UNCHANGED <<disk, req, pos, seen, served, faulty>>

\* Mutant of ExtractError: the result of tar_extract is dropped.
ExtractError_Dropped(p) ==
  /\ pc[p] = "extract"
  /\ Blame(p)
  /\ tree' = [tree EXCEPT ![p] = Torn]
  /\ Return(p, "OK")
  /\ UNCHANGED <<disk, req, pos, seen, served>>

\* Any result of libarchive but ARCHIVE_OK ends the extraction half way.
ExtractError(p) ==
  /\ pc[p] = "extract"
  /\ Blame(p)
  /\ tree' = [tree EXCEPT ![p] = Torn]
  /\ Return(p, "ERROR")
  /\ UNCHANGED <<disk, req, pos, seen, served>>

\* The process dies anywhere in the call; its files stay as they are.
Kill(p) ==
  /\ pc[p] # "idle"
  /\ Blame(p)
  /\ \/ UNCHANGED tree
     \/ pc[p] = "extract" /\ tree' = [tree EXCEPT ![p] = Torn]
  /\ Return(p, "killed")
  /\ UNCHANGED <<disk, req, pos, seen, served>>

\* The steps the process takes by itself, without a failure around it.
Step(p) == \/ Stat(p) \/ ReadChunk(p) \/ CheckCached(p) \/ OpenForWrite(p)
           \/ WriteChunk(p) \/ FetchDone(p) \/ CheckFetched(p) \/ Extract(p)

Failure(p) == \/ ReadError(p) \/ OpenError(p) \/ FetchLosesTail(p)
              \/ FetchError(p) \/ ExtractError(p) \/ Kill(p)

Next == \E p \in Proc : Call(p) \/ Step(p) \/ Failure(p)

Spec == Init /\ [][Next]_vars

\* A process inside a call keeps running: nothing in the call waits for
\* another process. (Network reads are taken to end, by data or by error.)
FairSpec == Spec /\ \A p \in Proc : WF_vars(Step(p))

-----------------------------------------------------------------------------
(* Properties *)

\* No two processes ever ask for the same cache file.
Disjoint == \A p, q \in Proc : p # q =>
              \A r \in Request[p], s \in Request[q] : r.file # s.file

\* A call that reports success has extracted exactly the content whose sum
\* was asked for, whatever the cache held, the server sent or fclose lost
\* (setup.c:133-176).
OnlyVerified == \A p \in Proc : ret[p] = "OK" => tree[p] = req[p].sha

\* A cache poisoned by an interrupted, failed or mismatched fetch heals: a
\* call that meets no failure itself returns success (setup.c:129-168).
CacheHeals == \A p \in Proc :
                pc[p] = "idle" /\ ret[p] # "none" /\ p \notin faulty => ret[p] = "OK"

\* The inductive invariant behind the two properties above, for one process.
\* A call in progress is for a request the process may make and has not
\* returned yet; what was read so far is what the file begins with, what was
\* written is all there is; a file is extracted only when it is the wanted
\* content, and a fetch that met no failure has brought just that.
CallInv(p) ==
  /\ pc[p] # "idle" => req[p] \in Request[p] /\ ret[p] = "none"
  /\ pc[p] \in {"check", "verify", "extract"} =>
       /\ Len(seen[p]) <= Len(Content(p))
       /\ \A k \in 1..Len(seen[p]) : seen[p][k] = Content(p)[k]
  /\ pc[p] = "fetch" => /\ Len(Content(p)) = pos[p]
                        /\ \A k \in 1..pos[p] : Content(p)[k] = served[p]
                        /\ p \notin faulty => served[p] = req[p].sha
  /\ pc[p] = "verify" /\ p \notin faulty => Content(p) = Whole(req[p].sha)
  /\ pc[p] = "extract" => Content(p) = Whole(req[p].sha)
  /\ ret[p] = "OK" => tree[p] = req[p].sha
  /\ pc[p] = "idle" /\ ret[p] # "none" /\ p \notin faulty => ret[p] = "OK"

SafeInv == TypeOK /\ \A p \in Proc : CallInv(p)

\* A cached file that already has the content its only user asks for is
\* never truncated or rewritten (needFetch, setup.c:129-150).
GoodFileKept ==
  [][\A f \in File, b \in Blob :
       (/\ data[f] = Whole(b)
        /\ \A p \in Proc : \A r \in Request[p] : r.file = f => r.sha = b
        /\ \A p \in Proc : pc[p] = "fetch" => req[p].file # f)
         => data'[f] = data[f]]_vars

\* Why: a process about to truncate its file found no good content in it, and
\* only the names of existing files have content.
KeptInv ==
  /\ \A f \in File \ there : data[f] = <<>>
  /\ \A p \in Proc : /\ pc[p] = "open" => Content(p) # Whole(req[p].sha)
                     /\ pc[p] = "fetch" => req[p].file \in there

\* What the caller sees of a call, in the terms of VerifiedSource.
Seen(p) == CASE pc[p] # "idle"                 -> "busy"
             [] pc[p] = "idle" /\ ret[p] = "none" -> "idle"
             [] pc[p] = "idle" /\ ret[p] = "OK"   -> "ok"
             [] OTHER                            -> "failed"

Source == INSTANCE VerifiedSource WITH
            want  <- [p \in Proc |-> req[p].sha],
            state <- [p \in Proc |-> Seen(p)]

\* The call implements its promise: between the call and its return nothing
\* shows, success comes with the wanted tree, failure with no success.
ImplementsVerifiedSource == Source!Spec

\* Every call ends: the process is never stuck between stat and return.
CallsReturn == \A p \in Proc : pc[p] # "idle" ~> pc[p] = "idle"

\* When processes share a cache file but agree on its sum, and servers send
\* what was asked for, success still never comes with the tree of another
\* content or a torn one: at worst a racing fopen("wb") makes tar_extract
\* read an empty archive and succeed with nothing (setup.c:176, tar.c:86-89).
NoTornSuccess == \A p \in Proc :
                   ret[p] = "OK" => tree[p] \in {req[p].sha, Empty}

\* The processes agree on the sum of every file two of them ask for, and the
\* servers send what was asked for.
Agreed == \A p, q \in Proc : \A r \in Request[p], s \in Request[q] :
            r.file = s.file => r.sha = s.sha
Honest == \A p \in Proc : pc[p] = "fetch" => served[p] = req[p].sha

\* The file of request r holds nothing but the wanted content and holes, or
\* nothing of the wanted content.
Pure(r)    == \A k \in 1..Len(data[r.file]) : data[r.file][k] \in {r.sha, Hole}
Foreign(r) == \A k \in 1..Len(data[r.file]) : data[r.file][k] # r.sha

\* The inductive invariant behind NoTornSuccess, for one process: a file that
\* is not pure is as an earlier run left it, no process that read the wanted
\* content found it there, and from the first fetch on files stay pure.
SharedInv(p) ==
  /\ \A r \in Request[p] : Pure(r) \/ Foreign(r)
  /\ pc[p] # "idle" => req[p] \in Request[p] /\ ret[p] = "none" /\ tree[p] = Empty
  /\ pc[p] = "check" =>
       Pure(req[p]) \/ \A k \in 1..Len(seen[p]) : seen[p][k] # req[p].sha
  /\ pc[p] \in {"fetch", "verify", "extract"} => Pure(req[p])
  /\ pc[p] = "extract" => \A k \in 1..Len(seen[p]) : seen[p][k] \in {req[p].sha, Hole}
  /\ ret[p] = "OK" => tree[p] \in {req[p].sha, Empty}
=============================================================================
