----------------------------- MODULE UpgradeSelf -----------------------------
(***************************************************************************)
(* `python3-setup upgrade-self` (upgrade-self.c with self.c and cp.c), run *)
(* by several processes that share ~/.python3-setup/tmp and were started   *)
(* from the same path: ask GitHub for the latest release, fetch and unpack *)
(* its tarball, unlink the running program and copy the new one in its     *)
(* place. Nothing is locked and nothing is hashed.                         *)
(*                                                                         *)
(* Programs are inodes: the path names at most one, a process keeps the    *)
(* one it was started from, and a copy writes the one it opened.           *)
(***************************************************************************)
EXTENDS Integers, FiniteSets

CONSTANTS Proc,      \* the processes
          Version,   \* <<major, minor, patch>> of the releases and programs
          Tag,       \* the tags a release can have: [version, commit]
          Asset,     \* the tags under which tarballs can be downloaded
          NChunks,   \* the chunks a tarball arrives in
          Inode,     \* the inodes of the program's file system
          ByName     \* self_realpath looks the program up by its name
                     \* (macOS, OpenBSD) and does not ask the kernel

Zero == <<0, 0, 0>>  \* what strtok and atoi make of a tag that is no version

ASSUME VersionAssumption == Version \subseteq Nat \X Nat \X Nat /\ Zero \in Version /\ Version # {Zero}
ASSUME TagAssumption == Tag \subseteq [version : Version, commit : BOOLEAN]
ASSUME InodeAssumption == Inode \subseteq Nat \ {0} /\ Inode # {}
ASSUME ChunkAssumption == NChunks \in Nat \ {0, 1}
ASSUME ByNameAssumption == ByName \in BOOLEAN
ASSUME ProcAssumption == "absent" \notin Proc /\ "whole" \notin Proc

NoFile  == 0             \* the path names no inode
NoTag   == [version |-> Zero, commit |-> FALSE]  \* latest.json has no tag_name
Chunk   == 1..NChunks

VARIABLES latest,    \* the tag of the release GitHub calls the latest
          json,      \* what tmp/latest.json holds
          tarball,   \* tarball[v]: the chunks the tarball of release v holds
          unpacked,  \* unpacked[v]: bin/python3-setup of its uncompress directory,
                     \* or the process that unpacks it or died doing so
          path,      \* the inode the program's path names
          body,      \* body[i]: the program file in inode i
          pc,        \* where each process stands in python3_setup_upgrade_self
          call,      \* the local state of a call (see Call)
          ret,       \* how the last call ended
          met,       \* processes whose call overlapped another one (history)
          faulty     \* processes whose call the environment failed (history)

server  == <<latest>>
tmp     == <<json, tarball, unpacked>>
program == <<path, body>>
past    == <<met, faulty>>
vars    == <<server, tmp, program, pc, call, ret, past>>

Labels  == {"idle", "ask", "answer", "scan", "fetch", "write", "unpack", "unpacking",
            "self", "unlink", "open", "copy", "chmod"}
Results == {"none", "LATEST", "UPGRADED", "ERROR", "NETWORK", "ARCHIVE", "BY_HAND", "killed"}
State   == {"absent", "whole"} \cup Proc
File    == [version : Version, whole : BOOLEAN, exec : BOOLEAN]

Call == [exe   : Inode \cup {NoFile},  \* the program the process was started from
         own   : Version,             \* PYTHON3_SETUP_VERSION of that program
         found : Version,             \* latestVersion
         pos   : 0..NChunks,          \* chunks of the tarball written so far
         src   : State,               \* the unpacked program when the copy opened it
         dst   : Inode \cup {NoFile}]  \* the inode the copy writes

NoCall == [exe |-> NoFile, own |-> Zero, found |-> Zero, pos |-> 0,
           src |-> "absent", dst |-> NoFile]

TypeOK ==
  /\ latest   \in Tag
  /\ json     \in Tag \cup {NoTag}
  /\ tarball  \in [Version -> SUBSET Chunk]
  /\ unpacked \in [Version -> State]
  /\ path     \in Inode \cup {NoFile}
  /\ body     \in [Inode -> File]
  /\ pc       \in [Proc -> Labels]
  /\ call     \in [Proc -> Call]
  /\ ret      \in [Proc -> Results]
  /\ met      \subseteq Proc
  /\ faulty   \subseteq Proc

Running == {p \in Proc : pc[p] # "idle"}

\* The program at the path can be started.
Works == path # NoFile /\ body[path].whole /\ body[path].exec

\* A program of some version is installed and nothing was downloaded yet.
Init ==
  /\ latest \in Tag
  /\ json = NoTag
  /\ tarball  = [v \in Version |-> {}]
  /\ unpacked = [v \in Version |-> "absent"]
  /\ path \in Inode /\ \A i \in Inode : path <= i
  /\ \E v \in Version \ {Zero} : body = [i \in Inode |-> [version |-> v, whole |-> TRUE, exec |-> TRUE]]
  /\ pc    = [p \in Proc |-> "idle"]
  /\ call  = [p \in Proc |-> NoCall]
  /\ ret   = [p \in Proc |-> "none"]
  /\ met   = {}
  /\ faulty = {}

-----------------------------------------------------------------------------
\* Process p leaves the call with result r; its local state is gone.
Return(p, r) ==
  /\ pc'   = [pc EXCEPT ![p] = "idle"]
  /\ ret'  = [ret EXCEPT ![p] = r]
  /\ call' = [call EXCEPT ![p] = NoCall]

Goto(p, label) ==
  /\ pc' = [pc EXCEPT ![p] = label]
  /\ UNCHANGED ret

\* Mutant of NotNewer: the major versions are only compared for equality.
NotNewer_Minor(v, w) ==
  v[1] = w[1] /\ (v[2] < w[2] \/ (v[2] = w[2] /\ v[3] <= w[3]))

\* Version v is not newer than w.
NotNewer(v, w) ==
  \/ v[1] < w[1]
  \/ v[1] = w[1] /\ v[2] < w[2]
  \/ v[1] = w[1] /\ v[2] = w[2] /\ v[3] <= w[3]

\* Someone starts `python3-setup upgrade-self` from the path.
Start(p) ==
  /\ pc[p] = "idle"
  /\ Works
  /\ pc' = [pc EXCEPT ![p] = "ask"]
  /\ ret' = [ret EXCEPT ![p] = "none"]
  /\ call' = [call EXCEPT ![p] = [NoCall EXCEPT !.exe = path, !.own = body[path].version]]
  /\ met' = IF Running = {} THEN met \ {p} ELSE met \cup Running \cup {p}
  /\ faulty' = faulty \ {p}
  /\ UNCHANGED <<server, tmp, program>>

\* fopen("latest.json", "wb") truncates it for everyone.
OpenJson(p) ==
  /\ pc[p] = "ask"
  /\ json' = NoTag
  /\ Goto(p, "answer")
  /\ UNCHANGED <<server, tarball, unpacked, program, call, past>>

\* The answer is small: it reaches the file in one write, at fclose.
Answer(p) ==
  /\ pc[p] = "answer"
  /\ json' = latest
  /\ Goto(p, "scan")
  /\ UNCHANGED <<server, tarball, unpacked, program, call, past>>

\* Mutant of Scan: an answer without a version is asked for again.
Scan_AsksAgain(p) ==
  /\ pc[p] = "scan"
  /\ LET usable == json.commit /\ json.version # Zero
         newer  == ~NotNewer(json.version, call[p].own)
     IN  \/ ~usable /\ Goto(p, "ask") /\ UNCHANGED call
         \/ usable /\ ~newer /\ Return(p, "LATEST")
         \/ /\ usable /\ newer
            /\ Goto(p, "fetch")
            /\ call' = [call EXCEPT ![p].found = json.version]
  /\ UNCHANGED <<server, tmp, program, past>>

\* tag_name is read up to its '+': without one, or with a version of zeros,
\* the call fails; a version that is not newer ends it with success.
Scan(p) ==
  /\ pc[p] = "scan"
  /\ LET usable == json.commit /\ json.version # Zero
         newer  == ~NotNewer(json.version, call[p].own)
     IN  \/ ~usable /\ Return(p, "ERROR")
         \/ usable /\ ~newer /\ Return(p, "LATEST")
         \/ /\ usable /\ newer
            /\ Goto(p, "fetch")
            /\ call' = [call EXCEPT ![p].found = json.version]
  /\ UNCHANGED <<server, tmp, program, past>>

\* The version read from latest.json is also the tag in the tarball's URL:
\* what followed the '+' is no part of it. The file is truncated either way.
OpenTarball(p) ==
  /\ pc[p] = "fetch"
  /\ tarball' = [tarball EXCEPT ![call[p].found] = {}]
  /\ IF [version |-> call[p].found, commit |-> FALSE] \in Asset
     THEN Goto(p, "write") /\ UNCHANGED call
     ELSE Return(p, "NETWORK")
  /\ UNCHANGED <<server, json, unpacked, program, past>>

\* Mutant of WriteTarball: the transfer does not stop at the end.
WriteTarball_NoEnd(p) ==
  /\ pc[p] = "write"
  /\ call' = [call EXCEPT ![p].pos = @ + 1]
  /\ tarball' = [tarball EXCEPT ![call[p].found] = @ \cup {call[p].pos + 1}]
  /\ UNCHANGED <<server, json, unpacked, program, pc, ret, past>>

WriteTarball(p) ==
  /\ pc[p] = "write"
  /\ call[p].pos < NChunks
  /\ call' = [call EXCEPT ![p].pos = @ + 1]
  /\ tarball' = [tarball EXCEPT ![call[p].found] = @ \cup {call[p].pos + 1}]
  /\ UNCHANGED <<server, json, unpacked, program, pc, ret, past>>

CloseTarball(p) ==
  /\ pc[p] = "write"
  /\ call[p].pos = NChunks
  /\ Goto(p, "unpack")
  /\ UNCHANGED <<server, tmp, program, call, past>>

\* Mutant of Unpack: a program that is already unpacked is not replaced.
Unpack_KeepsOld(p) ==
  /\ pc[p] = "unpack"
  /\ LET content == tarball[call[p].found]
     IN  \/ content = {} /\ Goto(p, "self") /\ UNCHANGED <<unpacked, call>>
         \/ /\ 1 \in content
            /\ unpacked' = [unpacked EXCEPT ![call[p].found] = IF @ = "absent" THEN p ELSE @]
            /\ Goto(p, "unpacking")
            /\ UNCHANGED call
         \/ /\ content # {} /\ 1 \notin content
            /\ Return(p, "ARCHIVE")
            /\ UNCHANGED unpacked
  /\ UNCHANGED <<server, json, tarball, program, past>>

\* tar_extract reads the first chunk: an empty file is an empty archive, one
\* without its beginning is none; the old program is unlinked and created anew.
Unpack(p) ==
  /\ pc[p] = "unpack"
  /\ LET content == tarball[call[p].found]
     IN  \/ content = {} /\ Goto(p, "self") /\ UNCHANGED <<unpacked, call>>
         \/ /\ 1 \in content
            /\ unpacked' = [unpacked EXCEPT ![call[p].found] = p]
            /\ Goto(p, "unpacking")
            /\ UNCHANGED call
         \/ /\ content # {} /\ 1 \notin content
            /\ Return(p, "ARCHIVE")
            /\ UNCHANGED unpacked
  /\ UNCHANGED <<server, json, tarball, program, past>>

\* Mutant of Unpacked: what tar_extract returns is dropped.
Unpacked_Dropped(p) ==
  /\ pc[p] = "unpacking"
  /\ unpacked' = [unpacked EXCEPT ![call[p].found] =
                    IF tarball[call[p].found] = Chunk THEN "whole" ELSE @]
  /\ Goto(p, "self")
  /\ UNCHANGED <<server, json, tarball, program, call, past>>

\* The end of tar_extract. Another process may have unlinked the file since.
Unpacked(p) ==
  /\ pc[p] = "unpacking"
  /\ IF tarball[call[p].found] = Chunk
     THEN /\ unpacked' = [unpacked EXCEPT ![call[p].found] = IF @ = p THEN "whole" ELSE @]
          /\ Goto(p, "self")
          /\ UNCHANGED call
     ELSE Return(p, "ARCHIVE") /\ UNCHANGED unpacked
  /\ UNCHANGED <<server, json, tarball, program, past>>

\* self_realpath: /proc/self/exe of a program that was unlinked ends in
\* " (deleted)" and names no file, so that the unlink that follows fails;
\* where the name is looked up again it is another program's by now.
SelfPath(p) ==
  /\ pc[p] = "self"
  /\ IF call[p].exe = path \/ (ByName /\ path # NoFile)
     THEN Goto(p, "unlink") /\ UNCHANGED call
     ELSE Return(p, "BY_HAND")
  /\ UNCHANGED <<server, tmp, program, past>>

\* Mutant of Unlink: the result of unlink is not looked at.
Unlink_Unchecked(p) ==
  /\ pc[p] = "unlink"
  /\ path' = NoFile
  /\ Goto(p, "open")
  /\ UNCHANGED <<server, tmp, body, call, past>>

Unlink(p) ==
  /\ pc[p] = "unlink"
  /\ IF path = NoFile THEN Return(p, "BY_HAND")
                      ELSE Goto(p, "open") /\ UNCHANGED call
  /\ path' = NoFile
  /\ UNCHANGED <<server, tmp, body, past>>

InUse == {path} \cup {call[p].exe : p \in Proc} \cup {call[p].dst : p \in Proc}

\* The inode fopen(.., "wb") opens: the one the path names, or a new one.
Opens(i) == IF path # NoFile THEN i = path
                             ELSE i \notin InUse /\ \A j \in Inode \ InUse : i <= j

\* The two fopen of copy_file. A new file is not executable; had the path
\* still a file, "wb" would truncate that one in place.
OpenCopy(p) ==
  /\ pc[p] = "open"
  /\ \/ /\ unpacked[call[p].found] = "absent"
        /\ Return(p, "BY_HAND")
        /\ UNCHANGED program
     \/ /\ unpacked[call[p].found] # "absent"
        /\ \E i \in Inode :
             /\ Opens(i)
             /\ path' = i
             /\ body' = [body EXCEPT ![i] = [version |-> call[p].found, whole |-> FALSE,
                                             exec |-> path = i /\ body[i].exec]]
             /\ call' = [call EXCEPT ![p].dst = i, ![p].src = unpacked[call[p].found]]
        /\ Goto(p, "copy")
  /\ UNCHANGED <<server, tmp, past>>

\* The copy reads up to the end of its source, which is the whole program
\* unless it was still being unpacked, or had been left torn, when opened.
Copied(p) ==
  /\ pc[p] = "copy"
  /\ \E whole \in BOOLEAN :
       /\ call[p].src = "whole" => whole
       /\ whole => "whole" \in {call[p].src, unpacked[call[p].found]}
       /\ body' = [body EXCEPT ![call[p].dst].whole = whole]
  /\ Goto(p, "chmod")
  /\ UNCHANGED <<server, tmp, path, call, past>>

\* Mutant of Chmod: the mode of the new program is left as fopen made it.
Chmod_Skipped(p) ==
  /\ pc[p] = "chmod"
  /\ Return(p, "UPGRADED")
  /\ UNCHANGED <<server, tmp, program, past>>

\* chmod works on the path, whatever it names by now.
Chmod(p) ==
  /\ pc[p] = "chmod"
  /\ \/ path = NoFile /\ Return(p, "BY_HAND") /\ UNCHANGED body
     \/ /\ path # NoFile
        /\ body' = [body EXCEPT ![path].exec = TRUE]
        /\ Return(p, "UPGRADED")
  /\ UNCHANGED <<server, tmp, path, past>>

-----------------------------------------------------------------------------
(* What the environment may do *)

\* A newer release is published.
Publish ==
  /\ \E t \in Tag : ~NotNewer(t.version, latest.version) /\ latest' = t
  /\ UNCHANGED <<tmp, program, pc, call, ret, past>>

Blame(p) == faulty' = faulty \cup {p}

\* A failed fopen, mkdir, read or uname; no connection; a failed transfer.
Fails(p) ==
  /\ \/ pc[p] \in {"ask", "answer", "scan", "fetch"} /\ Return(p, "ERROR")
     \/ pc[p] \in {"answer", "write"} /\ Return(p, "NETWORK")
     \/ pc[p] = "unpacking" /\ Return(p, "ARCHIVE")
     \/ pc[p] \in {"self", "unlink", "open", "copy", "chmod"} /\ Return(p, "BY_HAND")
  /\ Blame(p)
  /\ UNCHANGED <<server, tmp, program, met>>

\* fclose drops the buffered end of the tarball, or of the new program, and
\* nobody looks at its result.
LosesTail(p) ==
  /\ \/ /\ pc[p] = "write" /\ call[p].pos = NChunks - 1
        /\ Goto(p, "unpack")
     \/ pc[p] = "copy" /\ Goto(p, "chmod")
  /\ Blame(p)
  /\ UNCHANGED <<server, tmp, program, call, met>>

Kill(p) ==
  /\ pc[p] # "idle"
  /\ Return(p, "killed")
  /\ Blame(p)
  /\ UNCHANGED <<server, tmp, program, met>>

Step(p) == \/ OpenJson(p) \/ Answer(p) \/ Scan(p)
           \/ OpenTarball(p) \/ WriteTarball(p) \/ CloseTarball(p)
           \/ Unpack(p) \/ Unpacked(p) \/ SelfPath(p) \/ Unlink(p)
           \/ OpenCopy(p) \/ Copied(p) \/ Chmod(p)

Failure(p) == Fails(p) \/ LosesTail(p) \/ Kill(p)

Next == Publish \/ \E p \in Proc : Start(p) \/ Step(p) \/ Failure(p)

Spec == Init /\ [][Next]_vars

\* No step of the call waits for another process, and the network answers or
\* fails.
FairSpec == Spec /\ \A p \in Proc : WF_vars(Step(p))

-----------------------------------------------------------------------------
(* Properties *)

\* Two processes never write the same copy of the program, and nobody writes
\* the file of a program that is running: the unlink that must succeed first
\* (upgrade-self.c:261) is the only lock of the upgrade.
SingleWriter ==
  \A p \in Proc : pc[p] = "copy" =>
    /\ \A q \in Proc \ {p} : pc[q] = "copy" => call[p].dst # call[q].dst
    /\ \A q \in Running : call[p].dst # call[q].exe

\* What makes it so: whoever is past the unlink and has opened no new file
\* is the only one, and finds no file at the path; and what is being copied
\* is not whole yet, so that nothing can be started from it.
Opening(p) == pc[p] = "open" => path = NoFile /\ \A q \in Proc \ {p} : pc[q] # "open"
Copying(p) == pc[p] = "copy" => call[p].dst \in Inode /\ ~body[call[p].dst].whole

WriterInv == TypeOK /\ SingleWriter /\ \A p \in Proc : Opening(p) /\ Copying(p)

\* Process p returns in this step; nobody else ran since it started.
ReturnsAlone(p) == pc[p] # "idle" /\ pc'[p] = "idle" /\ p \notin met

\* The order of versions: the first number that differs decides.
Older(v, w) == \E k \in 1..3 : v[k] < w[k] /\ \A j \in 1..(k - 1) : v[j] = w[j]

\* The step in which process p returns leaves a program that works. It may
\* end badly only when the tag it was told of is no version, or names no
\* tarball once it is cut at the '+'; or else the program is then not older
\* than the release.
EndsWell(p) ==
  /\ Works'
  /\ \/ ret'[p] = "ERROR" /\ (~json.commit \/ json.version = Zero)
     \/ ret'[p] = "NETWORK" /\ [version |-> json.version, commit |-> FALSE] \notin Asset
     \/ ret'[p] \in {"LATEST", "UPGRADED"} /\ ~Older(body'[path'].version, json.version)

\* An upgrade that is alone and meets no failure ends well, whatever failed and
\* killed upgrades left in the tmp directory before it: torn tarballs, half
\* unpacked programs (upgrade-self.c:77-288).
LeftoversHarmless ==
  [][\A p \in Proc : ReturnsAlone(p) /\ p \notin faulty' => EndsWell(p)]_vars

\* A release that is newer than the program gets installed by an upgrade that
\* is alone and meets no failure: it can be fetched under the tag the program
\* makes of the release's own (upgrade-self.c:136 and upgrade-self.c:225).
NewReleaseInstalls ==
  [][\A p \in Proc :
       ReturnsAlone(p) /\ p \notin faulty' /\ json.commit /\ Older(call[p].own, json.version)
         => ret'[p] = "UPGRADED"]_vars

\* "python3-setup is up to date with version %s" (upgrade-self.c:282): the
\* program at the path then works and is of the version the message names.
UpToDateIsTrue ==
  [][\A p \in Proc : ReturnsAlone(p) /\ ret'[p] = "UPGRADED"
       => Works' /\ body'[path'].version = call[p].found]_vars

\* The program at the path never goes back to an older version by an upgrade
\* that is alone, whatever it is told is the latest release.
NeverOlder ==
  [][\A p \in Proc : ReturnsAlone(p) /\ path' # NoFile
       => ~Older(body'[path'].version, call[p].own)]_vars

\* What the message says when the upgrade fails at its end is true: "the latest
\* version of executable was downloaded to %s, you can manually replace the
\* current running program with it" (upgrade-self.c:284), also when the
\* running program is already unlinked.
ByHandIsPossible ==
  [][\A p \in Proc : ReturnsAlone(p) /\ ret'[p] = "BY_HAND"
       => unpacked[call[p].found] = "whole"]_vars

\* A program that no longer works is being replaced, or its replacement was
\* stopped by a failure or a kill and did not report success, or ran beside
\* another upgrade, or, with success reported, lost the end of the copy in the
\* fclose nobody checks (core/cp.c:45) and nothing else. An upgrade that fails
\* before the unlink (no network, a bad tag or archive) leaves it alone.
BrokenOnlyInside ==
  ~Works => \E p \in Proc :
              \/ pc[p] \in {"open", "copy", "chmod"}
              \/ /\ pc[p] = "idle" /\ p \in faulty \cup met
                 /\ ret[p] \in {"BY_HAND", "killed"}
              \/ /\ pc[p] = "idle" /\ ret[p] = "UPGRADED"
                 /\ p \in met \/ (p \in faulty /\ path # NoFile /\ body[path].exec)

\* Why the upgrade that is alone differs: while p runs and nobody else did, each
\* label vouches for what the steps before it left in the tmp directory and at
\* the path, whatever had been there.
Solo(p) ==
  pc[p] # "idle" /\ p \notin met =>
    /\ Running = {p}
    /\ pc[p] \in {"ask", "answer", "scan", "fetch"} => call[p].pos = 0
    /\ pc[p] = "write" => tarball[call[p].found] = 1..call[p].pos
    /\ pc[p] = "unpack" => 1 \in tarball[call[p].found]
    /\ pc[p] = "unpacking" => unpacked[call[p].found] = p
    /\ pc[p] \in {"self", "unlink", "open", "copy", "chmod"} => unpacked[call[p].found] = "whole"
    /\ pc[p] \in {"copy", "chmod"} => path = call[p].dst /\ path # NoFile /\ call[p].src = "whole"
    /\ pc[p] = "chmod" /\ p \notin faulty => body[path].whole

SoloInv == TypeOK /\ \A p \in Proc : Solo(p)

\* And what it has at the path: its own program up to the unlink, then none,
\* then the one it found, which is newer and still what latest.json names.
Track(p) ==
  pc[p] # "idle" /\ p \notin met =>
    /\ pc[p] \in {"ask", "answer", "scan", "fetch", "write", "unpack", "unpacking", "self", "unlink"} =>
         path = call[p].exe /\ Works /\ body[path].version = call[p].own
    /\ pc[p] \in {"fetch", "write", "unpack", "unpacking", "self", "unlink", "open", "copy", "chmod"} =>
         call[p].found = json.version /\ Older(call[p].own, call[p].found)
    /\ pc[p] \in {"unpack", "unpacking"} /\ p \notin faulty => tarball[call[p].found] = Chunk
    /\ pc[p] = "open" => path = NoFile
    /\ pc[p] \in {"copy", "chmod"} => body[path].version = call[p].found

TrackInv == SoloInv /\ \A p \in Proc : Track(p)

\* Every upgrade ends.
UpgradeEnds == \A p \in Proc : pc[p] # "idle" ~> pc[p] = "idle"
=============================================================================
