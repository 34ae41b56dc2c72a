----------------------------- MODULE SetupProofs -----------------------------
(***************************************************************************)
(* Proofs about Setup, for every set of releases, configurations and       *)
(* platforms and every number of runs.                                     *)
(***************************************************************************)
EXTENDS Setup, TLAPS

-----------------------------------------------------------------------------
(* The package list and the commands of a package. *)

\* The list names twelve packages, each once (the tables of setup.c:1098).
LEMMA PackageList ==
  /\ Len(packages) = 12
  /\ DOMAIN packages = 1..12
  /\ \A i \in 1..12 : packages[i] \in Package
  /\ \A i, j \in 1..12 : packages[i] = packages[j] => i = j
  /\ \A p \in Package : \E i \in 1..12 : p = packages[i]
BY DEF packages, Package

\* What a package uses are packages of the list.
LEMMA UsesTyped == \A p \in Package : Uses[p] \subseteq Package
BY DEF Uses, Package, packages

\* The list is in build order: whatever package i uses comes before it.
LEMMA BuildOrder ==
  \A i \in 1..12 : \A d \in Uses[packages[i]] :
    \E j \in 1..(i - 1) : packages[j] = d
BY DEF Uses, Package, packages

\* The commands of a package end with install, configure comes before build,
\* and a command that prepares configure comes first.
LEMMA PhaseOrder ==
  ASSUME NEW p \in Package, NEW k \in DOMAIN Phases(p)
  PROVE  /\ k \in 1..4
         /\ 1 \in DOMAIN Phases(p)
         /\ Phases(p)[1] \in {"patch", "local", "configure"}
         /\ Phases(p)[k] \in {"patch", "local", "configure", "enter", "build", "install"}
         /\ Phases(p)[k] # "install" => k + 1 \in DOMAIN Phases(p)
         /\ Phases(p)[k] \in {"patch", "local"} => Phases(p)[k + 1] = "configure"
         /\ Phases(p)[k] \in {"configure", "enter", "build"} =>
              Phases(p)[k + 1] \in {"enter", "build", "install"}
BY DEF Phases

-----------------------------------------------------------------------------
(* Type correctness *)

\* TypeOK is inductive together with where each label finds the loop.
TypeInv == TypeOK /\ StepInv

LEMMA InitTyped == Init => TypeInv
<1> SUFFICES ASSUME Init PROVE TypeInv
    OBVIOUS
<1>1. "source" \in Stages /\ None \in Found
      BY DEF Stages, Found
<1>2. Nothing \in [Package -> Found] /\ NoReceipt \in [Recorded -> Found]
      BY <1>1 DEF Nothing, NoReceipt
<1>3. NothingInstalled \in [Package -> Entry]
      BY <1>1, <1>2 DEF NothingInstalled, Entry
<1>4. Absent \in WorkDir
      BY <1>1 DEF Absent, WorkDir
<1>5. /\ pc = "idle" /\ step = 1 /\ phase = 1 /\ cwd = "start" /\ ret = "none" /\ runs = 0
      /\ platform \in Platform /\ run \in [cfg : Config, prefix : PrefixKind]
      /\ gmakeIn \subseteq Root /\ fault \in BOOLEAN
      BY DEF Init
<1>6. /\ work \in [Package -> WorkDir] /\ found \in [Package -> Found]
      /\ installed \in [Root -> [Package -> Entry]]
      /\ receipt \in [Root -> [Recorded -> Found]]
      BY <1>2, <1>3, <1>4 DEF Init
<1>7. step \in 1..(Len(packages) + 1) /\ runs \in 0..MaxRuns
      BY <1>5, PackageList, MaxRunsAssumption
<1>8. TypeOK
      BY <1>5, <1>6, <1>7 DEF TypeOK, Labels, Results, Dir
<1>9. StepInv
      BY <1>5 DEF StepInv
<1> QED BY <1>8, <1>9 DEF TypeInv

\* The directory a prefix denotes is one of the roots.
LEMMA SetupDirTyped == ASSUME TypeOK PROVE setupDir \in Root
BY PrefixAssumption DEF TypeOK, setupDir, Root

\* What the loop is at.
LEMMA LoopTyped ==
  ASSUME TypeOK
  PROVE  /\ pc \in {"prepare", "fetch", "chdir", "command"} =>
              /\ step \in 1..12
              /\ package \in Package
              /\ run.cfg[package] \in Version
         /\ run.cfg \in [Package -> Version]
         /\ step \in 1..13
<1>1. step \in 1..13 /\ (pc \in {"prepare", "fetch", "chdir", "command"} => step \in 1..12)
      BY PackageList DEF TypeOK
<1>2. run.cfg \in [Package -> Version]
      BY ConfigAssumption DEF TypeOK
<1> QED BY <1>1, <1>2, PackageList DEF package

\* Wiping a build directory keeps the disk well typed.
LEMMA WipeTyped ==
  ASSUME TypeOK, NEW p \in Package, Wipe(p)
  PROVE  /\ gmakeIn' \subseteq Root
         /\ installed' \in [Root -> [Package -> Entry]]
         /\ receipt' \in [Root -> [Recorded -> Found]]
<1>1. None \in Found
      BY DEF Found
<1>2. Nothing \in [Package -> Found] /\ NoReceipt \in [Recorded -> Found]
      BY <1>1 DEF Nothing, NoReceipt
<1>3. NothingInstalled \in [Package -> Entry]
      BY <1>1, <1>2 DEF NothingInstalled, Entry
<1> QED BY <1>2, <1>3 DEF Wipe, TypeOK

\* So does every write to a build directory,
LEMMA WorkTyped ==
  ASSUME TypeOK, NEW p \in Package
  PROVE  /\ \A t \in Version \cup {None, Torn, Empty} :
              Unpacked(p, t) => work' \in [Package -> WorkDir]
         /\ \A s \in Stages : Advanced(p, s) => work' \in [Package -> WorkDir]
<1>1. work \in [Package -> WorkDir] /\ work[p].stage \in Stages
      /\ work[p].tree \in Version \cup {None, Torn, Empty}
      BY DEF TypeOK, WorkDir
<1>2. ASSUME NEW t \in Version \cup {None, Torn, Empty}, Unpacked(p, t)
      PROVE  work' \in [Package -> WorkDir]
  <2>1. [tree |-> t, stage |-> work[p].stage] \in WorkDir
        BY <1>1 DEF WorkDir
  <2> QED BY <1>1, <1>2, <2>1 DEF Unpacked
<1>3. ASSUME NEW s \in Stages, Advanced(p, s)
      PROVE  work' \in [Package -> WorkDir]
  <2>1. [tree |-> work[p].tree, stage |-> s] \in WorkDir
        BY <1>1, <1>3 DEF WorkDir
  <2> QED BY <1>1, <1>3, <2>1 DEF Advanced
<1> QED BY <1>2, <1>3

\* removing it in part,
LEMMA RemoveTyped ==
  ASSUME TypeOK, NEW p \in Package, RemoveInPart(p)
  PROVE  /\ work' \in [Package -> WorkDir]
         /\ gmakeIn' \subseteq Root
         /\ installed' \in [Root -> [Package -> Entry]]
         /\ receipt' \in [Root -> [Recorded -> Found]]
<1>1. work' \in [Package -> WorkDir]
  <2>1. work \in [Package -> WorkDir] /\ Absent \in WorkDir
        BY DEF TypeOK, Absent, WorkDir, Stages
  <2>2. CASE Unpacked(p, Torn)
        BY <2>2, WorkTyped
  <2>3. CASE work' = [work EXCEPT ![p] = Absent]
        BY <2>1, <2>3
  <2> QED BY <2>2, <2>3 DEF RemoveInPart
<1>2. CASE Wipe(p)
      BY <1>1, <1>2, WipeTyped
<1>3. CASE UNCHANGED <<gmakeIn, installed, receipt>>
      BY <1>1, <1>3 DEF TypeOK
<1> QED BY <1>2, <1>3 DEF RemoveInPart

\* and every write to a root.
LEMMA PutTyped ==
  ASSUME TypeOK, NEW r \in Root, NEW p \in Package
  PROVE  /\ \A e \in Entry : Put(r, p, e) => installed' \in [Root -> [Package -> Entry]]
         /\ Tear(r, p) => installed' \in [Root -> [Package -> Entry]]
<1>1. ASSUME NEW e \in Entry, Put(r, p, e)
      PROVE  installed' \in [Root -> [Package -> Entry]]
      BY <1>1 DEF TypeOK, Put
<1>2. [source |-> Torn, against |-> installed[r][p].against] \in Entry
      BY DEF TypeOK, Entry, Found
<1> QED BY <1>1, <1>2 DEF Tear

\* A step that leaves the machine alone and ends the run, whatever else.
LEMMA EndedTyped ==
  ASSUME TypeInv, NEW r \in Results, Return(r), fault' \in BOOLEAN,
         UNCHANGED <<platform, run, step, phase, cwd, found, runs>>,
         work' \in [Package -> WorkDir], gmakeIn' \subseteq Root,
         installed' \in [Root -> [Package -> Entry]],
         receipt' \in [Root -> [Recorded -> Found]]
  PROVE  TypeInv'
BY DEF TypeInv, TypeOK, StepInv, Return, Labels

\* A step that goes on to another label and leaves the rest of the run alone.
LEMMA GoneTyped ==
  ASSUME TypeInv, pc # "idle", NEW l \in Labels, l \notin {"idle", "command"}, Goto(l),
         fault' \in BOOLEAN,
         l \in {"preflight", "gmake", "cmake"} => step' = 1,
         l \in {"openReceipt", "writeReceipt"} => step' = 13,
         l \in {"prepare", "fetch", "chdir"} => step' \in 1..12,
         UNCHANGED <<platform, run, phase, cwd, found, runs>>,
         step' \in 1..13,
         work' \in [Package -> WorkDir], gmakeIn' \subseteq Root,
         installed' \in [Root -> [Package -> Entry]],
         receipt' \in [Root -> [Recorded -> Found]]
  PROVE  TypeInv'
BY PackageList DEF TypeInv, TypeOK, StepInv, Goto, Labels

\* A command that goes on to the next command of the package.
LEMMA PhaseTyped ==
  ASSUME TypeInv, pc = "command", Current # "install", NextPhase,
         fault' \in BOOLEAN, UNCHANGED <<platform, run, runs>>, cwd' \in Dir,
         found' \in [Package -> Found], work' \in [Package -> WorkDir],
         UNCHANGED <<gmakeIn, installed, receipt>>
  PROVE  TypeInv'
<1>1. package \in Package /\ phase \in DOMAIN Phases(package)
      BY LoopTyped DEF TypeInv, TypeOK
<1>2. phase + 1 \in DOMAIN Phases(package) /\ phase + 1 \in 1..4
      BY <1>1, PhaseOrder DEF Current
<1>3. Phases(package)' = Phases(package)
      BY DEF NextPhase, package, Phases
<1>4. TypeOK'
      BY <1>2, <1>3 DEF TypeInv, TypeOK, NextPhase
<1> QED BY <1>4 DEF TypeInv, StepInv, NextPhase

\* The disk as a step leaves it alone.
LEMMA DiskTyped ==
  ASSUME TypeOK, UNCHANGED disk
  PROVE  /\ work' \in [Package -> WorkDir]
         /\ gmakeIn' \subseteq Root
         /\ installed' \in [Root -> [Package -> Entry]]
         /\ receipt' \in [Root -> [Recorded -> Found]]
BY DEF TypeOK, disk

LEMMA StepTyped == TypeInv /\ [Next]_vars => TypeInv'
<1> SUFFICES ASSUME TypeInv, [Next]_vars PROVE TypeInv'
    OBVIOUS
<1>t. TypeOK
      BY DEF TypeInv
<1>b. fault \in BOOLEAN /\ TRUE \in BOOLEAN
      BY <1>t DEF TypeOK
<1>r. {"ERROR", "HOME_NOT_SET", "PATH_NOT_SET", "NETWORK", "SHA256_MISMATCH",
       "killed", "OK"} \subseteq Results
      BY DEF Results
<1>1. CASE Start
  <2>1. Nothing \in [Package -> Found]
        BY DEF Nothing, Found
  <2>2. fault' \in BOOLEAN
        BY <1>1 DEF Start
  <2>n. runs \in 0..MaxRuns /\ runs < MaxRuns /\ runs' = runs + 1
        BY <1>1, <1>t DEF Start, TypeOK
  <2>4. runs' \in 0..MaxRuns
        BY <2>n, MaxRunsAssumption
  <2>3. TypeOK'
        BY <1>1, <1>t, <2>1, <2>2, <2>4, DiskTyped, PackageList
           DEF Start, TypeOK, Labels, Results, Dir
  <2> QED BY <1>1, <2>3 DEF TypeInv, StepInv, Start
<1>2. CASE Preflight
  <2>1. CASE Goto("gmake") /\ UNCHANGED fault
        BY <1>2, <1>t, <1>b, <2>1, DiskTyped, GoneTyped, LoopTyped
           DEF Preflight, local, Labels, TypeInv, StepInv
  <2>2. ASSUME NEW r \in {"HOME_NOT_SET", "PATH_NOT_SET", "ERROR"}, Fail(r)
        PROVE  TypeInv'
        BY <1>2, <1>t, <1>b, <1>r, <2>2, DiskTyped, EndedTyped DEF Preflight, local, Fail
  <2> QED BY <1>2, <2>1, <2>2 DEF Preflight
<1>3. CASE FindGmake
  <2>1. CASE Goto("cmake") /\ UNCHANGED fault
        BY <1>3, <1>t, <1>b, <2>1, DiskTyped, GoneTyped, LoopTyped
           DEF FindGmake, local, Labels, TypeInv, StepInv
  <2>2. ASSUME NEW r \in {"PATH_NOT_SET", "ERROR"}, Fail(r)
        PROVE  TypeInv'
        BY <1>3, <1>t, <1>b, <1>r, <2>2, DiskTyped, EndedTyped DEF FindGmake, local, Fail
  <2> QED BY <1>3, <2>1, <2>2 DEF FindGmake
<1>4. CASE InstallGmake
  <2>1. /\ work' \in [Package -> WorkDir]
        /\ installed' \in [Root -> [Package -> Entry]]
        /\ receipt' \in [Root -> [Recorded -> Found]]
        /\ UNCHANGED <<platform, run, step, phase, cwd, found, runs>>
        BY <1>4, <1>t DEF InstallGmake, TypeOK, local
  <2>2. gmakeIn' \subseteq Root
        BY <1>4, <1>t, SetupDirTyped DEF InstallGmake, TypeOK
  <2>3. CASE Goto("cmake") /\ UNCHANGED fault
        BY <1>4, <1>t, <1>b, <2>1, <2>2, <2>3, GoneTyped, LoopTyped
           DEF InstallGmake, Labels, TypeInv, StepInv
  <2>4. CASE Return("SHA256_MISMATCH") /\ UNCHANGED fault
        BY <1>r, <1>b, <2>1, <2>2, <2>4, EndedTyped
  <2>5. ASSUME NEW r \in {"NETWORK", "SHA256_MISMATCH", "ERROR"}, Fail(r)
        PROVE  TypeInv'
        BY <1>r, <1>b, <2>1, <2>2, <2>5, EndedTyped DEF Fail
  <2> QED BY <1>4, <2>3, <2>4, <2>5 DEF InstallGmake
<1>5. CASE FindCmake
  <2>1. CASE Goto("prepare") /\ UNCHANGED fault
    <3>1. step = 1
          BY <1>5 DEF FindCmake, TypeInv, StepInv
    <3> QED BY <1>5, <1>t, <1>b, <2>1, <3>1, DiskTyped, GoneTyped
               DEF FindCmake, local, Labels
  <2>2. ASSUME NEW r \in {"PATH_NOT_SET", "ERROR"}, Fail(r)
        PROVE  TypeInv'
        BY <1>5, <1>t, <1>b, <1>r, <2>2, DiskTyped, EndedTyped DEF FindCmake, local, Fail
  <2> QED BY <1>5, <2>1, <2>2 DEF FindCmake
<1>6. CASE Prepare
  <2>1. package \in Package /\ step \in 1..12
        BY <1>6, <1>t, LoopTyped DEF Prepare
  <2>2. CASE /\ work' = [work EXCEPT ![package] = [tree |-> Empty, stage |-> "source"]]
             /\ Wipe(package) /\ Goto("fetch") /\ UNCHANGED fault
    <3>1. [tree |-> Empty, stage |-> "source"] \in WorkDir
          BY DEF WorkDir, Stages
    <3>2. work' \in [Package -> WorkDir]
          BY <1>t, <2>1, <2>2, <3>1 DEF TypeOK
    <3> QED BY <1>6, <1>t, <1>b, <2>1, <2>2, <3>2, WipeTyped, GoneTyped
               DEF Prepare, local, Labels
  <2>3. CASE Fail("ERROR") /\ (RemoveInPart(package) \/ UNCHANGED disk)
        BY <1>6, <1>t, <1>b, <1>r, <2>1, <2>3, RemoveTyped, DiskTyped, EndedTyped
           DEF Prepare, local, Fail
  <2> QED BY <1>6, <2>2, <2>3 DEF Prepare
<1>7. CASE Fetch
  <2>1. package \in Package /\ step \in 1..12 /\ run.cfg[package] \in Version
        BY <1>7, <1>t, LoopTyped DEF Fetch
  <2>2. Overlay(work[package].tree, run.cfg[package]) \in Version \cup {None, Torn, Empty}
        BY <2>1 DEF Overlay
  <2>3. work' \in [Package -> WorkDir]
        BY <1>7, <1>t, <2>1, <2>2, WorkTyped DEF Fetch, TypeOK
  <2>4. /\ gmakeIn' \subseteq Root
        /\ installed' \in [Root -> [Package -> Entry]]
        /\ receipt' \in [Root -> [Recorded -> Found]]
        /\ UNCHANGED <<platform, run, step, phase, cwd, found, runs>>
        BY <1>7, <1>t DEF Fetch, TypeOK, local
  <2>5. CASE Goto("chdir") /\ UNCHANGED fault
        BY <1>7, <1>b, <2>1, <2>3, <2>4, <2>5, GoneTyped DEF Fetch, Labels
  <2>6. CASE Fail("ERROR")
        BY <1>b, <1>r, <2>3, <2>4, <2>6, EndedTyped DEF Fail
  <2> QED BY <1>7, <2>5, <2>6 DEF Fetch
<1>8. CASE ChangeDir
  <2>1. package \in Package /\ step \in 1..12
        BY <1>8, <1>t, LoopTyped DEF ChangeDir
  <2>2. CASE cwd' = package /\ phase' = 1 /\ Goto("command") /\ UNCHANGED fault
    <3>1. 1 \in DOMAIN Phases(package)
          BY <2>1, PhaseOrder DEF Phases
    <3>2. UNCHANGED <<platform, run, step, found, runs, disk>>
          BY <1>8 DEF ChangeDir
    <3>3. Phases(package)' = Phases(package)
          BY <3>2 DEF Phases, package
    <3>4. cwd' \in Dir
          BY <2>1, <2>2 DEF Dir
    <3>5. TypeOK'
          BY <1>t, <1>8, <2>2, <3>1, <3>2, <3>3, <3>4, DiskTyped, PackageList
             DEF ChangeDir, TypeOK, Goto, Labels
    <3> QED BY <1>8, <2>2, <3>5 DEF TypeInv, StepInv, Goto, ChangeDir
  <2>3. CASE Fail("ERROR") /\ UNCHANGED <<cwd, phase>>
        BY <1>8, <1>t, <1>b, <1>r, <2>3, DiskTyped, EndedTyped DEF ChangeDir, Fail
  <2> QED BY <1>8, <2>2, <2>3 DEF ChangeDir
<1>9. CASE Tweak
  <2>1. CASE NextPhase /\ UNCHANGED fault
        BY <1>9, <1>t, <1>b, <2>1, PhaseTyped DEF Tweak, TypeOK, disk
  <2>2. CASE Fail("ERROR") /\ UNCHANGED <<phase, step>>
        BY <1>9, <1>t, <1>b, <1>r, <2>2, DiskTyped, EndedTyped DEF Tweak, Fail
  <2> QED BY <1>9, <2>1, <2>2 DEF Tweak
<1>10. CASE EnterLiblzma
  <2>1. CASE cwd' = "liblzma" /\ NextPhase /\ UNCHANGED fault
        BY <1>10, <1>t, <1>b, <2>1, PhaseTyped DEF EnterLiblzma, TypeOK, disk, Dir
  <2>2. CASE Fail("ERROR") /\ UNCHANGED <<cwd, phase, step>>
        BY <1>10, <1>t, <1>b, <1>r, <2>2, DiskTyped, EndedTyped DEF EnterLiblzma, Fail
  <2> QED BY <1>10, <2>1, <2>2 DEF EnterLiblzma
<1>11. CASE Configure
  <2>1. package \in Package
        BY <1>11, <1>t, LoopTyped DEF Configure
  <2>2. Visible(package) \in [Package -> Found]
        BY <1>t, <2>1, SetupDirTyped DEF Visible, TypeOK, Entry, Found
  <2>3. /\ gmakeIn' \subseteq Root
        /\ installed' \in [Root -> [Package -> Entry]]
        /\ receipt' \in [Root -> [Recorded -> Found]]
        /\ UNCHANGED <<platform, run, cwd, runs, gmakeIn, installed, receipt>>
        BY <1>11, <1>t DEF Configure, TypeOK
  <2>4. CASE /\ found' = Visible(package) /\ Advanced(package, "configured")
             /\ NextPhase /\ UNCHANGED fault
    <3>1. work' \in [Package -> WorkDir] /\ found' \in [Package -> Found]
          BY <1>t, <2>1, <2>2, <2>4, WorkTyped DEF Stages
    <3>2. pc = "command" /\ Current # "install" /\ cwd' \in Dir /\ fault' \in BOOLEAN
          BY <1>11, <1>t, <2>3, <2>4 DEF Configure, TypeOK
    <3> QED BY <2>3, <2>4, <3>1, <3>2, PhaseTyped
  <2>5. CASE /\ Return("ERROR") \/ Fail("ERROR")
             /\ UNCHANGED <<found, work, phase, step>> /\ fault' \in BOOLEAN
    <3>1. work' \in [Package -> WorkDir] /\ Return("ERROR")
          BY <1>t, <2>5 DEF TypeOK, Fail
    <3> QED BY <1>r, <2>3, <2>5, <3>1, EndedTyped
  <2> QED BY <1>11, <1>b, <2>4, <2>5 DEF Configure, Fail
<1>12. CASE Build
  <2>1. package \in Package
        BY <1>12, <1>t, LoopTyped DEF Build
  <2>2. /\ gmakeIn' \subseteq Root
        /\ installed' \in [Root -> [Package -> Entry]]
        /\ receipt' \in [Root -> [Recorded -> Found]]
        /\ UNCHANGED <<platform, run, cwd, found, runs, gmakeIn, installed, receipt>>
        BY <1>12, <1>t DEF Build, TypeOK
  <2>3. CASE Advanced(package, "built") /\ NextPhase /\ UNCHANGED fault
    <3>1. work' \in [Package -> WorkDir]
          BY <1>t, <2>1, <2>3, WorkTyped DEF Stages
    <3>2. /\ pc = "command" /\ Current # "install" /\ cwd' \in Dir
          /\ fault' \in BOOLEAN /\ found' \in [Package -> Found]
          BY <1>12, <1>t, <2>2, <2>3 DEF Build, TypeOK
    <3> QED BY <2>2, <2>3, <3>1, <3>2, PhaseTyped
  <2>4. CASE /\ Return("ERROR") \/ Fail("ERROR")
             /\ UNCHANGED <<work, phase, step>> /\ fault' \in BOOLEAN
    <3>1. work' \in [Package -> WorkDir] /\ Return("ERROR")
          BY <1>t, <2>4 DEF TypeOK, Fail
    <3> QED BY <1>r, <2>2, <2>4, <3>1, EndedTyped
  <2> QED BY <1>12, <1>b, <2>3, <2>4 DEF Build, Fail
<1>13. CASE Install
  <2>1. /\ package \in Package /\ step \in 1..12 /\ setupDir \in Root
        /\ run.cfg[package] \in Version
        BY <1>13, <1>t, LoopTyped, SetupDirTyped DEF Install
  <2>2. [source |-> run.cfg[package], against |-> found] \in Entry
        BY <1>t, <2>1 DEF Entry, Found, TypeOK
  <2>3. installed' \in [Root -> [Package -> Entry]]
        BY <1>13, <1>t, <2>1, <2>2, PutTyped DEF Install, TypeOK
  <2>4. /\ work' \in [Package -> WorkDir]
        /\ gmakeIn' \subseteq Root
        /\ receipt' \in [Root -> [Recorded -> Found]]
        /\ UNCHANGED <<platform, run, phase, cwd, found, runs>>
        BY <1>13, <1>t DEF Install, TypeOK
  <2>5. CASE NextPackage /\ UNCHANGED fault
    <3>1. CASE step < 12
      <4>1. Goto("prepare") /\ step' \in 1..12 /\ step' \in 1..13
            BY <2>1, <2>5, <3>1, PackageList DEF NextPackage
      <4> QED BY <1>13, <1>b, <2>3, <2>4, <2>5, <4>1, GoneTyped DEF Install, Labels
    <3>2. CASE step = 12
      <4>1. Goto("openReceipt") /\ step' = 13 /\ step' \in 1..13
            BY <2>1, <2>5, <3>2, PackageList DEF NextPackage
      <4> QED BY <1>13, <1>b, <2>3, <2>4, <2>5, <4>1, GoneTyped DEF Install, Labels
    <3> QED BY <2>1, <3>1, <3>2
  <2>6. CASE Fail("ERROR") /\ UNCHANGED step
        BY <1>b, <1>r, <2>3, <2>4, <2>6, EndedTyped DEF Fail
  <2> QED BY <1>13, <2>5, <2>6 DEF Install
<1>14. CASE OpenReceipt
  <2>1. /\ work' \in [Package -> WorkDir]
        /\ gmakeIn' \subseteq Root
        /\ installed' \in [Root -> [Package -> Entry]]
        /\ UNCHANGED <<platform, run, step, phase, cwd, found, runs>>
        BY <1>14, <1>t DEF OpenReceipt, TypeOK, local
  <2>2. TornReceipt \in [Recorded -> Found]
        BY DEF TornReceipt, Found
  <2>3. receipt' \in [Root -> [Recorded -> Found]]
        BY <1>14, <1>t, <2>2 DEF OpenReceipt, TypeOK
  <2>4. CASE Goto("writeReceipt") /\ UNCHANGED fault
    <3>1. step' = 13 /\ step' \in 1..13
          BY <1>14, <2>1, PackageList DEF OpenReceipt, TypeInv, StepInv
    <3> QED BY <1>14, <1>b, <2>1, <2>3, <2>4, <3>1, GoneTyped DEF OpenReceipt, Labels
  <2>5. CASE Fail("ERROR")
        BY <1>b, <1>r, <2>1, <2>3, <2>5, EndedTyped DEF Fail
  <2> QED BY <1>14, <2>4, <2>5 DEF OpenReceipt
<1>15. CASE WriteReceipt
  <2>1. /\ work' \in [Package -> WorkDir]
        /\ gmakeIn' \subseteq Root
        /\ installed' \in [Root -> [Package -> Entry]]
        /\ UNCHANGED <<platform, run, step, phase, cwd, found, runs>>
        BY <1>15, <1>t DEF WriteReceipt, TypeOK, local
  <2>2. [p \in Recorded |-> run.cfg[p]] \in [Recorded -> Found]
        BY <1>t, LoopTyped DEF Recorded, Found
  <2>3. receipt' \in [Root -> [Recorded -> Found]]
        BY <1>15, <1>t, <2>2 DEF WriteReceipt, TypeOK
  <2>4. Return("OK") /\ fault' \in BOOLEAN
        BY <1>15, <1>b DEF WriteReceipt, Fail
  <2> QED BY <1>r, <2>1, <2>3, <2>4, EndedTyped
<1>16. CASE Kill
  <2>1. UNCHANGED <<platform, run, step, phase, cwd, found, runs>>
        BY <1>16 DEF Kill, local
  <2>2. Return("killed") /\ fault' \in BOOLEAN
        BY <1>16 DEF Kill, Fail
  <2> DEFINE Typed == /\ work' \in [Package -> WorkDir]
                      /\ gmakeIn' \subseteq Root
                      /\ installed' \in [Root -> [Package -> Entry]]
                      /\ receipt' \in [Root -> [Recorded -> Found]]
  <2>3. CASE UNCHANGED disk
    <3>1. Typed
          BY <1>t, <2>3, DiskTyped
    <3> QED BY <1>r, <2>1, <2>2, <3>1, EndedTyped
  <2>4. CASE gmakeIn' = gmakeIn \ {setupDir} /\ UNCHANGED <<work, installed, receipt>>
    <3>1. Typed
          BY <1>t, <2>4 DEF TypeOK
    <3> QED BY <1>r, <2>1, <2>2, <3>1, EndedTyped
  <2>5. CASE pc = "prepare" /\ RemoveInPart(package)
    <3>1. Typed
          BY <1>t, <2>5, LoopTyped, RemoveTyped
    <3> QED BY <1>r, <2>1, <2>2, <3>1, EndedTyped
  <2>6. CASE pc = "fetch" /\ Unpacked(package, Torn) /\ UNCHANGED <<gmakeIn, installed, receipt>>
    <3>1. work' \in [Package -> WorkDir]
          BY <1>t, <2>6, LoopTyped, WorkTyped
    <3>2. Typed
          BY <1>t, <2>6, <3>1 DEF TypeOK
    <3> QED BY <1>r, <2>1, <2>2, <3>2, EndedTyped
  <2>7. CASE pc = "command" /\ Tear(setupDir, package) /\ UNCHANGED <<work, gmakeIn, receipt>>
    <3>1. installed' \in [Root -> [Package -> Entry]]
          BY <1>t, <2>7, LoopTyped, SetupDirTyped, PutTyped
    <3>2. Typed
          BY <1>t, <2>7, <3>1 DEF TypeOK
    <3> QED BY <1>r, <2>1, <2>2, <3>2, EndedTyped
  <2> QED BY <1>16, <2>3, <2>4, <2>5, <2>6, <2>7 DEF Kill
<1>17. CASE UNCHANGED vars
       BY <1>17 DEF TypeInv, TypeOK, StepInv, vars, package, Phases
<1> QED BY <1>1, <1>2, <1>3, <1>4, <1>5, <1>6, <1>7, <1>8, <1>9, <1>10, <1>11, <1>12,
           <1>13, <1>14, <1>15, <1>16, <1>17 DEF Next, Proceed

\* Every state of every sequence of runs is well typed (setup.c:593-1159).
THEOREM TypeCorrect == Spec => []TypeOK
<1>1. TypeInv => TypeOK
      BY DEF TypeInv
<1> QED BY InitTyped, StepTyped, <1>1, PTL DEF Spec

-----------------------------------------------------------------------------
(* Clean builds *)

\* A command that goes on to the next one: where the run stands then.
LEMMA NextCommand ==
  ASSUME TypeInv, pc = "command", Current # "install", NextPhase, UNCHANGED platform
  PROVE  /\ pc' = "command" /\ UNCHANGED <<step, ret>>
         /\ package' = package
         /\ Current \in {"patch", "local"} => Current' = "configure"
         /\ Current \in {"configure", "enter", "build"} =>
              Current' \in {"enter", "build", "install"}
<1>1. package \in Package /\ phase \in DOMAIN Phases(package)
      BY LoopTyped DEF TypeInv, TypeOK
<1>2. package' = package /\ Phases(package)' = Phases(package)
      BY DEF NextPhase, package, Phases
<1>3. Current' = Phases(package)[phase + 1]
      BY <1>2 DEF Current, NextPhase
<1> QED BY <1>1, <1>2, <1>3, PhaseOrder DEF Current, NextPhase

LEMMA BuildStep == TypeInv /\ BuildInv /\ [Next]_vars => BuildInv'
<1> SUFFICES ASSUME TypeInv, BuildInv, [Next]_vars PROVE BuildInv'
    OBVIOUS
<1>t. TypeOK
      BY DEF TypeInv
<1>e. ASSUME pc' \notin {"fetch", "chdir", "command"} PROVE BuildInv'
      BY <1>e DEF BuildInv
<1>1. CASE Start \/ Preflight \/ FindGmake \/ InstallGmake \/ FindCmake
      BY <1>1, <1>e DEF Start, Preflight, FindGmake, InstallGmake, FindCmake,
                        Goto, Fail, Return
<1>2. CASE Install \/ OpenReceipt \/ WriteReceipt \/ Kill
      BY <1>2, <1>e DEF Install, NextPackage, OpenReceipt, WriteReceipt, Kill,
                        Goto, Fail, Return
<1>3. CASE Prepare
  <2>1. package \in Package
        BY <1>3, <1>t, LoopTyped DEF Prepare
  <2>2. CASE /\ work' = [work EXCEPT ![package] = [tree |-> Empty, stage |-> "source"]]
             /\ Goto("fetch")
    <3>1. package' = package
          BY <1>3 DEF Prepare, local, package
    <3>2. work'[package] = [tree |-> Empty, stage |-> "source"]
          BY <1>t, <2>1, <2>2 DEF TypeOK
    <3> QED BY <2>2, <3>1, <3>2 DEF BuildInv, Goto
  <2>3. CASE Fail("ERROR")
        BY <2>3, <1>e DEF Fail, Return
  <2> QED BY <1>3, <2>2, <2>3 DEF Prepare
<1>4. CASE Fetch
  <2>1. package \in Package /\ run.cfg[package] \in Version
        BY <1>4, <1>t, LoopTyped DEF Fetch
  <2>2. CASE Unpacked(package, Overlay(work[package].tree, run.cfg[package])) /\ Goto("chdir")
    <3>1. package' = package /\ run' = run
          BY <1>4 DEF Fetch, local, package
    <3>2. work[package].tree = Empty /\ work[package].stage = "source"
          BY <1>4 DEF Fetch, BuildInv
    <3>3. work'[package] = [tree |-> run.cfg[package], stage |-> "source"]
          BY <1>t, <2>1, <2>2, <3>2 DEF TypeOK, Unpacked, Overlay
    <3> QED BY <2>2, <3>1, <3>3 DEF BuildInv, Goto
  <2>3. CASE Fail("ERROR")
        BY <2>3, <1>e DEF Fail, Return
  <2> QED BY <1>4, <2>2, <2>3 DEF Fetch
<1>5. CASE ChangeDir
  <2>1. CASE Goto("command")
    <3>1. package' = package /\ run' = run /\ work' = work
          BY <1>5 DEF ChangeDir, disk, package
    <3> QED BY <1>5, <2>1, <3>1 DEF BuildInv, ChangeDir, Goto
  <2>2. CASE Fail("ERROR")
        BY <2>2, <1>e DEF Fail, Return
  <2> QED BY <1>5, <2>1, <2>2 DEF ChangeDir
<1>6. CASE Tweak
  <2>1. CASE NextPhase
    <3>1. package' = package /\ run' = run /\ work' = work /\ pc' = "command"
          BY <1>6, <2>1 DEF Tweak, disk, package, NextPhase
    <3> QED BY <1>6, <3>1 DEF BuildInv, Tweak
  <2>2. CASE Fail("ERROR")
        BY <2>2, <1>e DEF Fail, Return
  <2> QED BY <1>6, <2>1, <2>2 DEF Tweak
<1>7. CASE EnterLiblzma \/ Configure \/ Build
  <2>1. CASE NextPhase
    <3>1. /\ pc = "command" /\ Current \in {"configure", "enter", "build"}
          /\ UNCHANGED platform
          BY <1>7 DEF EnterLiblzma, Configure, Build
    <3>2. pc' = "command" /\ Current' \in {"enter", "build", "install"}
          BY <2>1, <3>1, NextCommand
    <3> QED BY <3>2 DEF BuildInv
  <2>2. CASE Fail("ERROR") \/ Return("ERROR")
        BY <2>2, <1>e DEF Fail, Return
  <2> QED BY <1>7, <2>1, <2>2 DEF EnterLiblzma, Configure, Build
<1>8. CASE UNCHANGED vars
      BY <1>8 DEF BuildInv, vars, package, Current, Phases
<1> QED BY <1>1, <1>2, <1>3, <1>4, <1>5, <1>6, <1>7, <1>8 DEF Next, Proceed

\* Whatever earlier runs left under installing/, and whatever the prefix, each
\* configure starts from exactly the verified source of its package
\* (setup.c:469-505).
THEOREM BuildsAreClean == Spec => []CleanBuild
<1>1. Init => BuildInv
      BY DEF Init, BuildInv
<1>2. BuildInv => CleanBuild
      BY DEF BuildInv, CleanBuild
<1> QED BY InitTyped, StepTyped, BuildStep, <1>1, <1>2, PTL DEF Spec

-----------------------------------------------------------------------------
(* Success means a complete prefix *)

\* With an absolute prefix every write goes to that directory.
Absolute == PrefixKind = {"absolute"}

LEMMA AbsoluteRoot == ASSUME Absolute, TypeOK PROVE setupDir = "prefix" /\ Root = {"prefix"}
BY DEF Absolute, TypeOK, setupDir, Root

\* FillInv where neither the run nor the packages in the prefix change.
LEMMA FillFrame ==
  ASSUME TypeInv, FillInv, UNCHANGED <<run, installed>>,
         pc' # "idle" => pc # "idle" /\ step' = step,
         pc' # "command",
         ret' = "OK" => ret = "OK" \/ pc \in {"openReceipt", "writeReceipt"}
  PROVE  FillInv'
<1>1. \A p : Complete(p)' <=> Complete(p)
      BY DEF Complete
<1>2. pc' # "idle" => \A i \in 1..(step' - 1) : Complete(packages[i])'
      BY <1>1 DEF FillInv
<1>3. ASSUME ret' = "OK" PROVE \A p \in Package : Complete(p)'
  <2>1. CASE ret = "OK"
        BY <1>1, <2>1 DEF FillInv
  <2>2. CASE pc \in {"openReceipt", "writeReceipt"}
    <3>1. step - 1 = 12
          BY <2>2, PackageList DEF TypeInv, StepInv
    <3>2. \A i \in 1..12 : Complete(packages[i])
          BY <2>2, <3>1 DEF FillInv
    <3> QED BY <1>1, <3>2, PackageList
  <2> QED BY <1>3, <2>1, <2>2
<1> QED BY <1>2, <1>3 DEF FillInv

\* The prefix is not under installing/, so wiping leaves it alone.
LEMMA WipeFrame ==
  ASSUME Absolute, TypeOK, NEW p \in Package, Wipe(p) \/ RemoveInPart(p)
  PROVE  installed' = installed /\ receipt' = receipt
<1>1. "prefix" \notin Under(p)
      BY DEF Under, Package, packages
<1>2. CASE Wipe(p)
  <2>1. \A r \in Root : installed'[r] = installed[r] /\ receipt'[r] = receipt[r]
        BY <1>1, <1>2, AbsoluteRoot DEF Wipe
  <2>2. /\ installed' = [r \in Root |-> installed'[r]]
        /\ receipt' = [r \in Root |-> receipt'[r]]
        BY <1>2 DEF Wipe
  <2>3. /\ installed = [r \in Root |-> installed[r]]
        /\ receipt = [r \in Root |-> receipt[r]]
        BY DEF TypeOK
  <2> QED BY <2>1, <2>2, <2>3
<1>3. CASE UNCHANGED <<gmakeIn, installed, receipt>>
      BY <1>3
<1> QED BY <1>2, <1>3 DEF RemoveInPart

\* FillInv where a run goes from one command of a package to the next.
LEMMA FillCommand ==
  ASSUME TypeInv, FillInv, pc = "command", pc' = "command",
         UNCHANGED <<run, installed, step, ret>>,
         Current' \in {"enter", "build", "install"} =>
           \A d \in Uses[package] : found'[d] = run.cfg[d]
  PROVE  FillInv'
<1>1. \A p : Complete(p)' <=> Complete(p)
      BY DEF Complete
<1>2. package' = package
      BY DEF package
<1> QED BY <1>1, <1>2 DEF FillInv

\* FillInv where install has put the package at hand into the prefix.
LEMMA FillInstall ==
  ASSUME TypeInv, FillInv, Absolute, pc = "command", Current = "install",
         Put(setupDir, package, [source |-> run.cfg[package], against |-> found]),
         NextPackage, UNCHANGED run
  PROVE  FillInv'
<1>1. /\ step \in 1..12 /\ package \in Package /\ setupDir = "prefix" /\ Root = {"prefix"}
      /\ TypeOK /\ ret = "none" /\ ret' = "none"
      BY AbsoluteRoot, LoopTyped DEF TypeInv, StepInv, NextPackage, Goto
<1>2. installed'["prefix"] = [installed["prefix"] EXCEPT ![package] =
                                [source |-> run.cfg[package], against |-> found]]
      BY <1>1 DEF Put, TypeOK
<1>3. /\ installed'["prefix"][package] = [source |-> run.cfg[package], against |-> found]
      /\ \A p \in Package : p # package => installed'["prefix"][p] = installed["prefix"][p]
      BY <1>1, <1>2 DEF TypeOK
<1>4. ASSUME NEW i \in 1..12, i = step PROVE Complete(packages[i])'
  <2>1. package = packages[i]
        BY <1>4 DEF package
  <2>2. /\ installed'["prefix"][packages[i]].source = run.cfg[packages[i]]
        /\ \A d \in Uses[packages[i]] :
             installed'["prefix"][packages[i]].against[d] = run.cfg[d]
        BY <1>3, <2>1 DEF FillInv
  <2> QED BY <2>2 DEF Complete
<1>5. ASSUME NEW i \in 1..12, i < step PROVE Complete(packages[i])'
  <2>1. packages[i] \in Package /\ packages[i] # package
        BY <1>1, <1>5, PackageList DEF package
  <2>2. Complete(packages[i])
        BY <1>1, <1>5 DEF FillInv
  <2> QED BY <1>3, <2>1, <2>2 DEF Complete
<1>6. ASSUME NEW i \in 1..(step' - 1) PROVE Complete(packages[i])'
  <2>1. i \in 1..12 /\ (i = step \/ i < step)
        BY <1>1 DEF NextPackage
  <2> QED BY <1>4, <1>5, <2>1
<1>7. pc' # "command" /\ ret' # "OK"
      BY <1>1, PackageList DEF NextPackage, Goto
<1> QED BY <1>6, <1>7 DEF FillInv

LEMMA FillStep == Absolute /\ TypeInv /\ FillInv /\ [Next]_vars => FillInv'
<1> SUFFICES ASSUME Absolute, TypeInv, FillInv, [Next]_vars PROVE FillInv'
    OBVIOUS
<1>t. TypeOK
      BY DEF TypeInv
<1>n. pc # "idle" => ret = "none"
      BY DEF TypeInv, StepInv
<1>1. CASE Start
      BY <1>1 DEF FillInv, Start
<1>2. CASE Preflight \/ FindGmake \/ InstallGmake \/ FindCmake \/ Fetch
      BY <1>2, <1>n, FillFrame
         DEF Preflight, FindGmake, InstallGmake, FindCmake, Fetch, local, disk, Goto, Fail, Return
<1>3. CASE Prepare
  <2>1. UNCHANGED <<run, step, installed>>
        BY <1>3, <1>t, LoopTyped, WipeFrame DEF Prepare, local, disk
  <2> QED BY <1>3, <1>n, <2>1, FillFrame DEF Prepare, Goto, Fail, Return
<1>4. CASE ChangeDir
  <2>1. CASE phase' = 1 /\ Goto("command")
    <3>1. UNCHANGED <<platform, run, step, installed>>
          BY <1>4 DEF ChangeDir, disk
    <3>2. package \in Package /\ Current' = Phases(package)[1]
          BY <1>4, <1>t, <2>1, <3>1, LoopTyped DEF ChangeDir, Current, package, Phases
    <3>3. Current' \notin {"enter", "build", "install"}
          BY <3>2 DEF Phases
    <3>4. \A p : Complete(p)' <=> Complete(p)
          BY <3>1 DEF Complete
    <3> QED BY <1>4, <2>1, <3>1, <3>3, <3>4 DEF FillInv, ChangeDir, Goto
  <2>2. CASE Fail("ERROR")
        BY <1>4, <1>n, <2>2, FillFrame DEF ChangeDir, disk, Fail, Return
  <2> QED BY <1>4, <2>1, <2>2 DEF ChangeDir
<1>5. CASE Tweak
  <2>1. CASE NextPhase
        BY <1>5, <2>1, NextCommand, FillCommand DEF Tweak, disk
  <2>2. CASE Fail("ERROR")
        BY <1>5, <1>n, <2>2, FillFrame DEF Tweak, disk, Fail, Return
  <2> QED BY <1>5, <2>1, <2>2 DEF Tweak
<1>6. CASE EnterLiblzma \/ Build
  <2>1. CASE NextPhase
    <3>1. /\ pc = "command" /\ Current \in {"enter", "build"}
          /\ UNCHANGED <<platform, run, found, installed>>
          BY <1>6 DEF EnterLiblzma, Build, disk
    <3> QED BY <2>1, <3>1, NextCommand, FillCommand DEF FillInv
  <2>2. CASE Fail("ERROR") \/ Return("ERROR")
        BY <1>6, <1>n, <2>2, FillFrame DEF EnterLiblzma, Build, disk, Fail, Return
  <2> QED BY <1>6, <2>1, <2>2 DEF EnterLiblzma, Build
<1>7. CASE Configure
  <2>1. CASE found' = Visible(package) /\ NextPhase
    <3>1. step \in 1..12 /\ package \in Package /\ package = packages[step]
          BY <1>7, <1>t, LoopTyped DEF Configure, package
    <3>2. ASSUME NEW d \in Uses[package] PROVE found'[d] = run.cfg[d]
      <4>1. PICK j \in 1..(step - 1) : packages[j] = d
            BY <3>1, BuildOrder
      <4>2. Complete(d)
            BY <1>7, <4>1 DEF FillInv, Configure
      <4> QED BY <1>t, <2>1, <3>1, <4>2, UsesTyped, AbsoluteRoot DEF Visible, Complete
    <3> QED BY <1>7, <2>1, <3>2, NextCommand, FillCommand DEF Configure
  <2>2. CASE Fail("ERROR") \/ Return("ERROR")
        BY <1>7, <1>n, <2>2, FillFrame DEF Configure, Fail, Return
  <2> QED BY <1>7, <2>1, <2>2 DEF Configure
<1>8. CASE Install
  <2>1. CASE NextPackage /\ Put(setupDir, package, [source |-> run.cfg[package], against |-> found])
        BY <1>8, <2>1, FillInstall DEF Install
  <2>2. CASE Fail("ERROR")
        BY <1>8, <1>n, <2>2 DEF FillInv, Fail, Return
  <2> QED BY <1>8, <2>1, <2>2 DEF Install
<1>9. CASE OpenReceipt \/ WriteReceipt
      BY <1>9, <1>n, FillFrame DEF OpenReceipt, WriteReceipt, local, Goto, Fail, Return
<1>10. CASE Kill
       BY <1>10 DEF FillInv, Kill, Fail, Return
<1>11. CASE UNCHANGED vars
  <2>1. UNCHANGED <<platform, run, pc, step, phase, installed, found, ret>>
        BY <1>11 DEF vars
  <2>2. \A p : Complete(p)' <=> Complete(p)
        BY <2>1 DEF Complete
  <2>3. package' = package /\ Current' = Current
        BY <2>1 DEF package, Current, Phases
  <2> QED BY <2>1, <2>2, <2>3 DEF FillInv
<1> QED BY <1>1, <1>2, <1>3, <1>4, <1>5, <1>6, <1>7, <1>8, <1>9, <1>10, <1>11
        DEF Next, Proceed

LEMMA InitFilled == Init => FillInv
BY DEF Init, FillInv

\* With an absolute prefix, a run that reports success has put every package
\* of its configuration in the prefix, each built against what the run put
\* there, whatever runs and failures came before (setup.c:1098-1139).
THEOREM SuccessComplete == Absolute /\ Spec => []SuccessIsComplete
<1>1. FillInv => SuccessIsComplete
      BY DEF FillInv, SuccessIsComplete
<1>2. Absolute /\ TypeInv /\ FillInv /\ [Next]_vars => TypeInv' /\ FillInv'
      BY StepTyped, FillStep
<1>3. Absolute /\ Spec => [](TypeInv /\ FillInv)
  <2> SUFFICES ASSUME Absolute PROVE Spec => [](TypeInv /\ FillInv)
      OBVIOUS
  <2>1. TypeInv /\ FillInv /\ [Next]_vars => (TypeInv /\ FillInv)'
        BY <1>2
  <2> QED BY <2>1, InitTyped, InitFilled, PTL DEF Spec
<1> QED BY <1>1, <1>3, PTL

\* A receipt changes only after the last package of the run is in place.
LEMMA ReceiptStep ==
  Absolute /\ TypeInv /\ FillInv /\ [Next]_vars =>
    (receipt' # receipt => \A p \in Package : installed[setupDir][p].source = run.cfg[p])
<1> SUFFICES ASSUME Absolute, TypeInv, FillInv, [Next]_vars, receipt' # receipt
             PROVE  \A p \in Package : installed[setupDir][p].source = run.cfg[p]
    OBVIOUS
<1>1. pc \in {"openReceipt", "writeReceipt"}
  <2>1. CASE Prepare
        BY <2>1, LoopTyped, WipeFrame DEF Prepare, TypeInv, disk
  <2>2. CASE Kill
        BY <2>2, LoopTyped, WipeFrame DEF Kill, TypeInv, disk
  <2>3. CASE OpenReceipt \/ WriteReceipt
        BY <2>3 DEF OpenReceipt, WriteReceipt
  <2> QED BY <2>1, <2>2, <2>3 DEF Next, Proceed, Start, Preflight, FindGmake, InstallGmake,
             FindCmake, Fetch, ChangeDir, Tweak, EnterLiblzma, Configure, Build, Install,
             disk, vars
<1>2. step - 1 = 12
      BY <1>1, PackageList DEF TypeInv, StepInv
<1>3. \A i \in 1..12 : Complete(packages[i])
      BY <1>1, <1>2 DEF FillInv
<1> QED BY <1>3, PackageList, AbsoluteRoot DEF Complete, TypeInv

\* With an absolute prefix, no run that fails or dies before its last package
\* is installed touches the receipt (setup.c:1129-1135).
THEOREM ReceiptComesLast == Absolute /\ Spec => ReceiptIsLast
<1> SUFFICES ASSUME Absolute PROVE Spec => ReceiptIsLast
    OBVIOUS
<1>1. TypeInv /\ FillInv /\ [Next]_vars => (TypeInv /\ FillInv)'
      BY StepTyped, FillStep
<1>2. TypeInv /\ FillInv /\ [Next]_vars =>
        [receipt' # receipt => \A p \in Package : installed[setupDir][p].source = run.cfg[p]]_vars
      BY ReceiptStep
<1> QED BY <1>1, <1>2, InitTyped, InitFilled, PTL DEF Spec, ReceiptIsLast
=============================================================================
