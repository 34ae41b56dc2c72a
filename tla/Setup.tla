-------------------------------- MODULE Setup --------------------------------
(***************************************************************************)
(* python3_setup_setup_internal (setup.c): one `python3-setup setup` after *)
(* another on one machine. A run gets gmake, finds cmake, then takes the   *)
(* twelve packages in order: a fresh directory under installing/, a        *)
(* verified source tree in it (VerifiedSource), chdir into it, the         *)
(* commands of the package, and at the end the receipt. Every step may     *)
(* fail, and the process may die at every step; whatever is on disk then   *)
(* is where the next run, maybe with another configuration, starts from.   *)
(*                                                                         *)
(* Paths: a relative --prefix denotes a directory under whatever directory *)
(* the process is in when the path is used.                                *)
(***************************************************************************)
EXTENDS Integers, Sequences, FiniteSets

CONSTANTS Version,    \* the source releases a configuration can name
          Config,     \* the configurations runs are given: package -> release
          Platform,   \* the <<kind, arch>> pairs to consider
          PrefixKind, \* which of "absolute" and "relative" --prefix may be
          MaxRuns     \* bound: the runs on this machine

\* Mutant of packages: python3 is installed before the ncurses and readline
\* that its configure looks for in the prefix.
packages_Python3Early ==
  <<"perl", "openssl", "zlib", "libbz2", "xz", "gdbm", "expat",
    "sqlite", "libffi", "python3", "ncurses", "readline">>

packages == <<"perl", "openssl", "zlib", "libbz2", "xz", "gdbm", "expat",
              "sqlite", "libffi", "ncurses", "readline", "python3">>
Package == {packages[i] : i \in DOMAIN packages}

ASSUME ConfigAssumption == Config \subseteq [Package -> Version] /\ Config # {}
ASSUME PrefixAssumption == PrefixKind \subseteq {"absolute", "relative"}
ASSUME MaxRunsAssumption == MaxRuns \in Nat

None  == "none"   \* nothing there
Torn  == "torn"   \* a partly written package, tree or file
Empty == "empty"  \* a directory with nothing in it
ASSUME VersionAssumption == Version \cap {None, Torn, Empty} = {}

\* What a package is built against. Every configure gets the include and
\* library directories of the prefix in CPPFLAGS and LDFLAGS: python3 finds
\* ncurses (<prefix>/include/ncursesw) and readline there, readline ncurses,
\* and what the options of gdbm and sqlite switch off is not looked for. The
\* rest of python3's are those with *_CFLAGS and *_LIBS variables, and openssl
\* (--with-openssl); perl runs openssl's config script.
Uses == [p \in Package |->
           CASE p = "openssl"  -> {"perl"}
             [] p = "sqlite"   -> {"zlib"}
             [] p = "readline" -> {"ncurses"}
             [] p = "python3"  -> {"expat", "libffi", "openssl", "sqlite",
                                   "libbz2", "zlib", "xz", "gdbm", "ncurses",
                                   "readline"}
             [] OTHER          -> {}]

\* The packages configured and built with cmake; the others with gmake.
CMakePackages == {"zlib", "libbz2", "expat"}

\* The packages receipt.yml mentions: all but xz.
Recorded == Package \ {"xz"}

\* gmake binaries: the platforms with a download URL and, for each, the
\* platform whose tarball has the SHA-256 sum the source demands.
binUrlGmake == {<<"linux", "x86_64">>, <<"linux", "aarch64">>,
                <<"linux", "ppc64le">>, <<"linux", "s390x">>,
                <<"darwin", "x86_64">>, <<"darwin", "arm64">>,
                <<"freebsd", "amd64">>, <<"openbsd", "amd64">>,
                <<"netbsd", "amd64">>}
binShaGmake == [m \in binUrlGmake |->
                  IF m = <<"netbsd", "amd64">> THEN <<"linux", "aarch64">> ELSE m]

\* Directories the process is ever in, and where a prefix can be.
Dir  == {"start", "liblzma"} \cup Package
Root == {"prefix"} \cup {d \in Dir : "relative" \in PrefixKind}

VARIABLES platform,  \* sysinfo's kind and arch
          run,       \* the arguments of the run: cfg and prefix
          pc,        \* where the run stands
          step,      \* the package the loop is at
          phase,     \* the command of the package the run is at
          cwd,       \* the current directory
          work,      \* work[p]: the directory installing/p
          gmakeIn,   \* the roots with an executable bin/gmake
          installed, \* installed[r][p]: what root r holds of package p
          found,     \* what the last configure found of the packages used
          receipt,   \* receipt[r]: the configuration r/receipt.yml records
          ret,       \* the exit status of the last run
          fault,     \* has the environment failed this run (history variable)
          runs       \* runs started so far

vars == <<platform, run, pc, step, phase, cwd, work, gmakeIn, installed, found,
          receipt, ret, fault, runs>>
disk == <<work, gmakeIn, installed, receipt>>

Found == Version \cup {None, Torn}
Entry == [source : Found, against : [Package -> Found]]
Absent  == [tree |-> None, stage |-> "source"]
Labels  == {"idle", "preflight", "gmake", "cmake", "prepare", "fetch", "chdir",
            "command", "openReceipt", "writeReceipt"}
Results == {"none", "OK", "ERROR", "HOME_NOT_SET", "PATH_NOT_SET", "NETWORK",
            "SHA256_MISMATCH", "killed"}
Stages  == {"source", "configured", "built"}
WorkDir == [tree : Version \cup {None, Torn, Empty}, stage : Stages]

package == packages[step]

\* The commands of package p, in order.
Phases(p) ==
  CASE p = "openssl" /\ platform[1] = "openbsd" -> <<"patch", "configure", "build", "install">>
    [] p = "xz"      -> <<"configure", "enter", "build", "install">>
    [] p = "python3" -> <<"local", "configure", "build", "install">>
    [] OTHER         -> <<"configure", "build", "install">>

Current == Phases(package)[phase]

TypeOK ==
  /\ platform  \in Platform
  /\ run       \in [cfg : Config, prefix : PrefixKind]
  /\ pc        \in Labels
  /\ step      \in 1..(Len(packages) + 1)
  /\ phase     \in 1..4
  /\ cwd       \in Dir
  /\ work      \in [Package -> WorkDir]
  /\ gmakeIn   \subseteq Root
  /\ installed \in [Root -> [Package -> Entry]]
  /\ found     \in [Package -> Found]
  /\ receipt   \in [Root -> [Recorded -> Found]]
  /\ ret       \in Results
  /\ fault     \in BOOLEAN
  /\ runs      \in 0..MaxRuns
  /\ pc \in {"prepare", "fetch", "chdir", "command"} => step \in DOMAIN packages
  /\ pc = "command" => phase \in DOMAIN Phases(package)

Nothing == [p \in Package |-> None]
NoReceipt   == [p \in Recorded |-> None]
TornReceipt == [p \in Recorded |-> Torn]
NothingInstalled == [p \in Package |-> [source |-> None, against |-> Nothing]]

Init ==
  /\ platform \in Platform
  /\ run \in [cfg : Config, prefix : PrefixKind]
  /\ pc = "idle"
  /\ step = 1
  /\ phase = 1
  /\ cwd = "start"
  /\ work = [p \in Package |-> Absent]
  /\ gmakeIn = {}
  /\ installed = [r \in Root |-> NothingInstalled]
  /\ found = Nothing
  /\ receipt = [r \in Root |-> NoReceipt]
  /\ ret = "none"
  /\ fault = FALSE
  /\ runs = 0

-----------------------------------------------------------------------------
\* The directory the setupDir argument denotes at this moment.
setupDir == IF run.prefix = "absolute" THEN "prefix" ELSE cwd

Goto(label) == pc' = label /\ UNCHANGED ret

\* The run is over, with an error the code found by itself.
Return(r) == pc' = "idle" /\ ret' = r

\* The run is over because the environment failed it.
Fail(r) == Return(r) /\ fault' = TRUE

local == <<platform, run, step, phase, cwd, found, runs>>

\* The user starts the program, from the directory "start".
Start ==
  /\ pc = "idle"
  /\ runs < MaxRuns
  /\ runs' = runs + 1
  /\ run' \in [cfg : Config, prefix : PrefixKind]
  /\ cwd' = "start"
  /\ step' = 1
  /\ phase' = 1
  /\ found' = Nothing
  /\ fault' = FALSE
  /\ pc' = "preflight"
  /\ ret' = "none"
  /\ UNCHANGED <<platform, disk>>

\* HOME and PATH are set and the directories of ~/.python3-setup are there or
\* can be made; otherwise the run ends before it has done anything.
Preflight ==
  /\ pc = "preflight"
  /\ \/ Goto("gmake") /\ UNCHANGED fault
     \/ \E r \in {"HOME_NOT_SET", "PATH_NOT_SET", "ERROR"} : Fail(r)
  /\ UNCHANGED <<local, disk>>

\* Without a prebuilt gmake: find gmake, else make, in PATH.
FindGmake ==
  /\ pc = "gmake"
  /\ platform \notin binUrlGmake
  /\ \/ Goto("cmake") /\ UNCHANGED fault
     \/ \E r \in {"PATH_NOT_SET", "ERROR"} : Fail(r)
  /\ UNCHANGED <<local, disk>>

\* The prebuilt gmake is downloaded and uncompressed right into the prefix.
InstallGmake ==
  /\ pc = "gmake"
  /\ platform \in binUrlGmake
  /\ \/ /\ binShaGmake[platform] = platform
        /\ gmakeIn' = gmakeIn \cup {setupDir}
        /\ Goto("cmake")
        /\ UNCHANGED fault
     \/ /\ binShaGmake[platform] # platform
        /\ Return("SHA256_MISMATCH")
        /\ UNCHANGED <<gmakeIn, fault>>
     \/ /\ \E r \in {"NETWORK", "SHA256_MISMATCH", "ERROR"} : Fail(r)
        /\ gmakeIn' \in {gmakeIn, gmakeIn \ {setupDir}}
  /\ UNCHANGED <<local, work, installed, receipt>>

FindCmake ==
  /\ pc = "cmake"
  /\ \/ Goto("prepare") /\ UNCHANGED fault
     \/ \E r \in {"PATH_NOT_SET", "ERROR"} : Fail(r)
  /\ UNCHANGED <<local, disk>>

\* The roots that lie under the directory installing/p.
Under(p) == IF p = "xz" THEN {"xz", "liblzma"} ELSE {p}

\* What lies under installing/p (a relative prefix can) goes with it.
Wipe(p) ==
  /\ installed' = [r \in Root |-> IF r \in Under(p) THEN NothingInstalled ELSE installed[r]]
  /\ gmakeIn' = gmakeIn \ Under(p)
  /\ receipt' = [r \in Root |-> IF r \in Under(p) THEN NoReceipt ELSE receipt[r]]

\* The tree, or the stage, of installing/p changes.
Unpacked(p, t) == work' = [work EXCEPT ![p] = [tree |-> t, stage |-> work[p].stage]]
Advanced(p, s) == work' = [work EXCEPT ![p] = [tree |-> work[p].tree, stage |-> s]]

\* An rm_r that stops half way: some of the directory is gone, or all of it.
RemoveInPart(p) ==
  /\ \/ work[p].tree # None /\ Unpacked(p, Torn)
     \/ work' = [work EXCEPT ![p] = Absent]
  /\ Wipe(p) \/ UNCHANGED <<gmakeIn, installed, receipt>>

\* Mutant of Prepare: a directory that is already there is used as it is.
Prepare_Reuses ==
  /\ pc = "prepare"
  /\ work' = [work EXCEPT ![package] = IF @ = Absent
                THEN [tree |-> Empty, stage |-> "source"] ELSE @]
  /\ Goto("fetch")
  /\ UNCHANGED <<fault, local, gmakeIn, installed, receipt>>

\* Mutant of Prepare: nothing is removed, so mkdir finds the old directory.
Prepare_NoRemove ==
  /\ pc = "prepare"
  /\ \/ /\ work[package] = Absent
        /\ work' = [work EXCEPT ![package] = [tree |-> Empty, stage |-> "source"]]
        /\ Goto("fetch")
     \/ work[package] # Absent /\ Return("ERROR") /\ UNCHANGED work
  /\ UNCHANGED <<fault, local, gmakeIn, installed, receipt>>

\* rm_r of what an earlier run left of installing/p, then mkdir.
Prepare ==
  /\ pc = "prepare"
  /\ \/ /\ work' = [work EXCEPT ![package] = [tree |-> Empty, stage |-> "source"]]
        /\ Wipe(package)
        /\ Goto("fetch")
        /\ UNCHANGED fault
     \/ /\ Fail("ERROR")
        /\ RemoveInPart(package) \/ UNCHANGED disk
  /\ UNCHANGED local

\* tar_extract of release v over what the directory holds.
Overlay(tree, v) == IF tree \in {Empty, v} THEN v ELSE Torn

\* python3_setup_download_and_uncompress keeps the promise of VerifiedSource.
Fetch ==
  /\ pc = "fetch"
  /\ \/ /\ Unpacked(package, Overlay(work[package].tree, run.cfg[package]))
        /\ Goto("chdir")
        /\ UNCHANGED fault
     \/ /\ Fail("ERROR")
        /\ UNCHANGED work \/ Unpacked(package, Torn)
  /\ UNCHANGED <<local, gmakeIn, installed, receipt>>

\* Mutant of ChangeDir: the process stays where it was.
ChangeDir_Stays ==
  /\ pc = "chdir"
  /\ phase' = 1
  /\ Goto("command")
  /\ UNCHANGED <<fault, cwd, platform, run, step, found, runs, disk>>

ChangeDir ==
  /\ pc = "chdir"
  /\ \/ /\ cwd' = package
        /\ phase' = 1
        /\ Goto("command")
        /\ UNCHANGED fault
     \/ Fail("ERROR") /\ UNCHANGED <<cwd, phase>>
  /\ UNCHANGED <<platform, run, step, found, runs, disk>>

NextPhase == phase' = phase + 1 /\ UNCHANGED <<pc, ret, step>>

\* Can execv find gmake: by its absolute path when it was found in PATH, else
\* by the path of the prefix as the process sees it from where it is now.
GmakeRuns == platform \in binUrlGmake => setupDir \in gmakeIn

\* openssl on OpenBSD: sed -i on Configurations/shared-info.pl.
\* python3: write Modules/Setup.localxxxx, unset PYTHONHOME and PYTHONPATH.
Tweak ==
  /\ pc = "command"
  /\ Current \in {"patch", "local"}
  /\ \/ NextPhase /\ UNCHANGED fault
     \/ Fail("ERROR") /\ UNCHANGED <<phase, step>>
  /\ UNCHANGED <<platform, run, cwd, found, runs, disk>>

\* xz is configured at its top and built in src/liblzma.
EnterLiblzma ==
  /\ pc = "command"
  /\ Current = "enter"
  /\ \/ cwd' = "liblzma" /\ NextPhase /\ UNCHANGED fault
     \/ Fail("ERROR") /\ UNCHANGED <<cwd, phase, step>>
  /\ UNCHANGED <<platform, run, found, runs, disk>>

\* What the configure command of package p sees of the packages it uses.
Visible(p) == [d \in Package |->
                 IF d \in Uses[p] THEN installed[setupDir][d].source ELSE None]

\* A configure that misses a package it uses may fail, or make do with
\* the system's.
Configure ==
  /\ pc = "command"
  /\ Current = "configure"
  /\ \/ /\ found' = Visible(package)
        /\ Advanced(package, "configured")
        /\ NextPhase
        /\ UNCHANGED fault
     \/ /\ \E d \in Uses[package] : Visible(package)[d] \notin Version
        /\ Return("ERROR")
        /\ UNCHANGED <<found, work, phase, step, fault>>
     \/ Fail("ERROR") /\ UNCHANGED <<found, work, phase, step>>
  /\ UNCHANGED <<platform, run, cwd, runs, gmakeIn, installed, receipt>>

\* gmake that execv cannot find makes the child exit with 127.
ExecFails == package \notin CMakePackages /\ ~GmakeRuns

\* Mutant of Build: a build that fails is configured and tried again.
Build_Retries ==
  /\ pc = "command"
  /\ Current = "build"
  /\ \/ /\ Advanced(package, "built")
        /\ NextPhase
        /\ UNCHANGED fault
     \/ /\ phase' = phase - 1
        /\ fault' = TRUE
        /\ UNCHANGED <<pc, ret, step, work>>
  /\ UNCHANGED <<platform, run, cwd, found, runs, gmakeIn, installed, receipt>>

Build ==
  /\ pc = "command"
  /\ Current = "build"
  /\ \/ /\ ~ExecFails
        /\ Advanced(package, "built")
        /\ NextPhase
        /\ UNCHANGED fault
     \/ ExecFails /\ Return("ERROR") /\ UNCHANGED <<work, phase, step, fault>>
     \/ Fail("ERROR") /\ UNCHANGED <<work, phase, step>>
  /\ UNCHANGED <<platform, run, cwd, found, runs, gmakeIn, installed, receipt>>

\* Root r after package p got entry e.
Put(r, p, e) ==
  installed' = [installed EXCEPT ![r] = [installed[r] EXCEPT ![p] = e]]

\* An install that stopped half way over whatever the root held of p.
Tear(r, p) == Put(r, p, [source |-> Torn, against |-> installed[r][p].against])

\* Mutant of NextPackage: the loop takes one package too many.
NextPackage_OneMore ==
  /\ step' = step + 1
  /\ Goto(IF step <= Len(packages) THEN "prepare" ELSE "openReceipt")

\* Mutant of NextPackage: the loop ends one package too early.
NextPackage_OneLess ==
  /\ step' = step + 1
  /\ Goto(IF step < Len(packages) - 1 THEN "prepare" ELSE "openReceipt")

\* The next package of the loop, or the receipt after the last one.
NextPackage ==
  /\ step' = step + 1
  /\ Goto(IF step < Len(packages) THEN "prepare" ELSE "openReceipt")

\* Mutant of Install: the exit status of the command is ignored.
Install_Ignored ==
  /\ pc = "command"
  /\ Current = "install"
  /\ \/ Put(setupDir, package, [source |-> run.cfg[package], against |-> found])
     \/ Tear(setupDir, package)
  /\ NextPackage
  /\ UNCHANGED <<fault, platform, run, phase, cwd, found, runs, work, gmakeIn, receipt>>

\* `make install` writes the package into the prefix; one that fails half
\* way leaves it torn. It runs where the build ran, so execv finds gmake.
Install ==
  /\ pc = "command"
  /\ Current = "install"
  /\ \/ /\ Put(setupDir, package, [source |-> run.cfg[package], against |-> found])
        /\ NextPackage
        /\ UNCHANGED fault
     \/ /\ Fail("ERROR")
        /\ \/ UNCHANGED installed
           \/ Tear(setupDir, package)
        /\ UNCHANGED step
  /\ UNCHANGED <<platform, run, phase, cwd, found, runs, work, gmakeIn, receipt>>

\* Mutant of OpenReceipt: a receipt that is already there is kept.
OpenReceipt_Keeps ==
  /\ pc = "openReceipt"
  /\ \/ /\ receipt[setupDir] = NoReceipt
        /\ receipt' = [receipt EXCEPT ![setupDir] = TornReceipt]
        /\ Goto("writeReceipt")
     \/ receipt[setupDir] # NoReceipt /\ Return("OK") /\ UNCHANGED receipt
  /\ UNCHANGED <<fault, local, work, gmakeIn, installed>>

\* fopen(receiptFilePath, "w") empties the receipt of the run before.
OpenReceipt ==
  /\ pc = "openReceipt"
  /\ \/ /\ receipt' = [receipt EXCEPT ![setupDir] = TornReceipt]
        /\ Goto("writeReceipt")
        /\ UNCHANGED fault
     \/ Fail("ERROR") /\ UNCHANGED receipt
  /\ UNCHANGED <<local, work, gmakeIn, installed>>

\* The results of fprintf and fclose are ignored: the run succeeds also when
\* the receipt could not be written.
WriteReceipt ==
  /\ pc = "writeReceipt"
  /\ \/ /\ receipt' = [receipt EXCEPT ![setupDir] = [p \in Recorded |-> run.cfg[p]]]
        /\ Return("OK")
        /\ UNCHANGED fault
     \/ Fail("OK") /\ UNCHANGED receipt
  /\ UNCHANGED <<local, work, gmakeIn, installed>>

\* The process dies; the step it was in may have been done in part.
Kill ==
  /\ pc # "idle"
  /\ Fail("killed")
  /\ \/ UNCHANGED disk
     \/ /\ pc = "gmake"
        /\ platform \in binUrlGmake
        /\ gmakeIn' = gmakeIn \ {setupDir}
        /\ UNCHANGED <<work, installed, receipt>>
     \/ pc = "prepare" /\ RemoveInPart(package)
     \/ /\ pc = "fetch"
        /\ Unpacked(package, Torn)
        /\ UNCHANGED <<gmakeIn, installed, receipt>>
     \/ /\ pc = "command"
        /\ Current = "install"
        /\ Tear(setupDir, package)
        /\ UNCHANGED <<work, gmakeIn, receipt>>
  /\ UNCHANGED local

Proceed == \/ Preflight \/ FindGmake \/ InstallGmake \/ FindCmake \/ Prepare
           \/ Fetch \/ ChangeDir \/ Tweak \/ EnterLiblzma \/ Configure \/ Build
           \/ Install \/ OpenReceipt \/ WriteReceipt

Next == Start \/ Proceed \/ Kill

Spec == Init /\ [][Next]_vars

\* The program keeps going as long as a run lasts; the commands it waits for
\* are taken to end.
FairSpec == Spec /\ WF_vars(Proceed)

-----------------------------------------------------------------------------
(* Properties *)

Ended == pc = "idle" /\ ret # "none"

\* The prefix holds package p as the run wants it.
Complete(p) ==
  /\ installed["prefix"][p].source = run.cfg[p]
  /\ \A d \in Uses[p] : installed["prefix"][p].against[d] = run.cfg[d]

\* A run that reports success has put every package of its configuration in
\* the prefix, each built against the releases the prefix now holds, whatever
\* earlier runs of other configurations left there (setup.c:1098-1139).
SuccessIsComplete == pc = "idle" /\ ret = "OK" => \A p \in Package : Complete(p)

\* The receipt is touched only when every package of the run is in the
\* prefix, so a failed or killed run never records itself (setup.c:1131).
ReceiptIsLast ==
  [][receipt' # receipt =>
       \A p \in Package : installed[setupDir][p].source = run.cfg[p]]_vars

\* Every configure starts from exactly the verified source of the package,
\* never from the tree of an earlier run (setup.c:469-505).
CleanBuild ==
  pc = "command" /\ Current = "configure" =>
    work[package] = [tree |-> run.cfg[package], stage |-> "source"]

\* The inductive invariants behind these properties. Where the run stands:
StepInv ==
  /\ pc \in {"preflight", "gmake", "cmake"} => step = 1
  /\ pc \in {"openReceipt", "writeReceipt"} => step = Len(packages) + 1
  /\ pc # "idle" => ret = "none"

\* From mkdir to the configure command the build directory is the run's own.
BuildInv ==
  /\ pc = "fetch" => work[package] = [tree |-> Empty, stage |-> "source"]
  /\ \/ pc = "chdir"
     \/ pc = "command" /\ Current \in {"patch", "local", "configure"}
     => work[package] = [tree |-> run.cfg[package], stage |-> "source"]

\* With an absolute prefix, the packages the loop has passed are complete,
\* and what the package at hand was configured against is what the run wants.
FillInv ==
  /\ pc # "idle" => \A i \in 1..(step - 1) : Complete(packages[i])
  /\ pc = "command" /\ Current \in {"enter", "build", "install"} =>
       \A d \in Uses[package] : found[d] = run.cfg[d]
  /\ ret = "OK" => \A p \in Package : Complete(p)

\* A run that the environment does not fail succeeds, from whatever an
\* earlier run left on disk (setup.c:593-1159).
NoFaultMeansSuccess == Ended /\ ~fault => ret = "OK"

\* For the platforms of a prebuilt gmake the source demands that tarball's sum.
SumsRight == \A m \in Platform \cap binUrlGmake : binShaGmake[m] = m

\* Why nothing but the environment stops a run then: the gmake it installed
\* first is still in the prefix when the builds look for it.
GmakeInv ==
  pc \notin {"idle", "preflight", "gmake"} /\ platform \in binUrlGmake => "prefix" \in gmakeIn

\* The receipt of a run that succeeded without a failed write is complete
\* and tells what the prefix holds (setup.c:179-237).
ReceiptIsTrue ==
  pc = "idle" /\ ret = "OK" /\ ~fault =>
    \A p \in Recorded : receipt["prefix"][p] = installed["prefix"][p].source

\* Each package lands in the prefix or, by a relative path, under its own
\* build directory, never in the tree of another package: the directory the
\* process was left in by the package before does not leak into the next
\* one (chdir at setup.c:502 and setup.c:352).
LandsInOwnTree ==
  \A r \in Root : \A p \in Package :
    installed[r][p].source # None => r \in {"prefix"} \cup Under(p)

\* Why: the commands of a package run below its build directory.
CwdInv == pc = "command" => cwd \in Under(package)

\* Why an installed package records what the prefix really held, and why a
\* write of the receipt that fails leaves it torn.
FoundInv ==
  pc = "command" /\ Current \in {"enter", "build", "install"} => found = Visible(package)
TornInv == pc = "writeReceipt" => receipt["prefix"] = TornReceipt

\* Every run ends.
RunsEnd == pc # "idle" ~> pc = "idle"

\* The run as its user sees it, in the terms of Provision.
RunState == CASE pc # "idle"                                   -> "running"
              [] pc = "idle" /\ ret = "none"                   -> "idle"
              [] pc = "idle" /\ ret = "OK"                     -> "succeeded"
              [] OTHER                                         -> "stopped"

Promise == INSTANCE Provision WITH
             state   <- RunState,
             goal    <- run.cfg,
             fresh   <- IF pc = "idle" THEN {} ELSE {packages[i] : i \in 1..(step - 1)},
             have    <- installed["prefix"],
             receipt <- receipt["prefix"]

\* With an absolute prefix, a sequence of runs fills the prefix as Provision
\* promises.
ImplementsProvision == Promise!Spec
=============================================================================
