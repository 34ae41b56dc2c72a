----------------------------- MODULE PrefixProofs -----------------------------
(***************************************************************************)
(* Proofs about what the runs of Setup leave in the prefix: where packages *)
(* land, that the receipt is true, that nothing but the environment stops  *)
(* a run, and that Setup implements Provision.                             *)
(***************************************************************************)
EXTENDS SetupProofs

-----------------------------------------------------------------------------
(* Where packages land, also by a relative prefix *)

LEMMA CwdStep == TypeInv /\ CwdInv /\ [Next]_vars => CwdInv'
<1> SUFFICES ASSUME TypeInv, CwdInv, [Next]_vars, pc' = "command" PROVE cwd' \in Under(package)'
    BY DEF CwdInv
<1>t. TypeOK
      BY DEF TypeInv
<1>1. CASE ChangeDir
  <2>1. cwd' = package /\ package' = package
        BY <1>1 DEF ChangeDir, Fail, Return, package
  <2> QED BY <2>1 DEF Under
<1>2. CASE Tweak \/ Configure \/ Build
      BY <1>2 DEF Tweak, Configure, Build, NextPhase, Fail, Return, CwdInv, Under, package
<1>3. CASE EnterLiblzma
  <2>1. /\ pc = "command" /\ Current = "enter" /\ cwd' = "liblzma" /\ package' = package
        BY <1>3 DEF EnterLiblzma, NextPhase, Fail, Return, package
  <2>2. package = "xz"
        BY <1>t, <2>1 DEF Current, Phases, TypeOK
  <2> QED BY <2>1, <2>2 DEF Under
<1>4. CASE UNCHANGED vars
      BY <1>4 DEF vars, CwdInv, Under, package
<1>5. CASE Start \/ Preflight \/ FindGmake \/ InstallGmake \/ FindCmake \/ Prepare \/ Fetch
      BY <1>5 DEF Start, Preflight, FindGmake, InstallGmake, FindCmake, Prepare, Fetch,
                  Goto, Fail, Return
<1>6. CASE Install \/ OpenReceipt \/ WriteReceipt \/ Kill
      BY <1>6 DEF Install, NextPackage, OpenReceipt, WriteReceipt, Kill, Goto, Fail, Return
<1> QED BY <1>1, <1>2, <1>3, <1>4, <1>5, <1>6 DEF Next, Proceed

\* An entry put where the run stands is in the prefix or in its own tree,
LEMMA PutLands ==
  ASSUME TypeOK, CwdInv, LandsInOwnTree, pc = "command",
         NEW e, Put(setupDir, package, e)
  PROVE  LandsInOwnTree'
<1>1. setupDir \in {"prefix"} \cup Under(package) /\ setupDir \in Root /\ package \in Package
      BY SetupDirTyped, LoopTyped DEF setupDir, CwdInv
<1>2. ASSUME NEW r \in Root, NEW p \in Package, r # setupDir \/ p # package
      PROVE  installed'[r][p] = installed[r][p]
      BY <1>1, <1>2 DEF Put, TypeOK
<1>3. ASSUME NEW r \in Root, NEW p \in Package, installed'[r][p].source # None
      PROVE  r \in {"prefix"} \cup Under(p)
      BY <1>1, <1>2, <1>3 DEF LandsInOwnTree
<1> QED BY <1>3 DEF LandsInOwnTree, Under

\* and wiping a build directory puts nothing anywhere.
LEMMA WipeLands ==
  ASSUME LandsInOwnTree, NEW p \in Package, Wipe(p) \/ RemoveInPart(p)
  PROVE  LandsInOwnTree'
<1>1. CASE Wipe(p)
  <2>1. ASSUME NEW r \in Root, NEW q \in Package
        PROVE  installed'[r][q].source \in {None, installed[r][q].source}
        BY <1>1 DEF Wipe, NothingInstalled
  <2> QED BY <2>1 DEF LandsInOwnTree, Under
<1>2. CASE UNCHANGED <<gmakeIn, installed, receipt>>
      BY <1>2 DEF LandsInOwnTree, Under
<1> QED BY <1>1, <1>2 DEF RemoveInPart

LEMMA LandsStep == TypeInv /\ CwdInv /\ LandsInOwnTree /\ [Next]_vars => LandsInOwnTree'
<1> SUFFICES ASSUME TypeInv, CwdInv, LandsInOwnTree, [Next]_vars PROVE LandsInOwnTree'
    OBVIOUS
<1>t. TypeOK
      BY DEF TypeInv
<1>1. CASE installed' = installed
      BY <1>1 DEF LandsInOwnTree, Under
<1>2. CASE Prepare
      BY <1>1, <1>2, <1>t, LoopTyped, WipeLands DEF Prepare, disk
<1>3. CASE Install
      BY <1>1, <1>3, <1>t, PutLands DEF Install, Tear
<1>4. CASE Kill
      BY <1>1, <1>4, <1>t, LoopTyped, WipeLands, PutLands DEF Kill, Tear, disk
<1> QED BY <1>1, <1>2, <1>3, <1>4 DEF Next, Proceed, Start, Preflight, FindGmake, InstallGmake,
           FindCmake, Fetch, ChangeDir, Tweak, EnterLiblzma, Configure, Build, OpenReceipt,
           WriteReceipt, disk, vars

\* Whatever the prefix, relative or absolute, and after any sequence of runs
\* and failures, no package is ever in the build tree of another one.
THEOREM LandsRight == Spec => []LandsInOwnTree
<1>1. Init => CwdInv /\ LandsInOwnTree
      BY DEF Init, CwdInv, LandsInOwnTree, NothingInstalled
<1> QED BY InitTyped, StepTyped, CwdStep, LandsStep, <1>1, PTL DEF Spec

-----------------------------------------------------------------------------
(* What a success says, with an absolute prefix *)

\* After the loop every package is in place.
LEMMA AllComplete ==
  ASSUME TypeInv, FillInv, pc \in {"openReceipt", "writeReceipt"}
  PROVE  \A p \in Package : Complete(p)
<1>1. step - 1 = 12
      BY PackageList DEF TypeInv, StepInv
<1>2. \A i \in 1..12 : Complete(packages[i])
      BY <1>1 DEF FillInv
<1> QED BY <1>2, PackageList

\* Only WriteReceipt reports success.
LEMMA OnlyWriteSucceeds ==
  ASSUME TypeInv, [Next]_vars, pc' = "idle", ret' = "OK"
  PROVE  WriteReceipt \/ UNCHANGED vars
<1>1. pc # "idle" => ret = "none"
      BY DEF TypeInv, StepInv
<1>2. CASE Start \/ Preflight \/ FindGmake \/ InstallGmake \/ FindCmake
      BY <1>2 DEF Start, Preflight, FindGmake, InstallGmake, FindCmake, Goto, Fail, Return
<1>3. CASE Prepare \/ Fetch \/ ChangeDir \/ Tweak \/ EnterLiblzma
      BY <1>3, <1>1 DEF Prepare, Fetch, ChangeDir, Tweak, EnterLiblzma, NextPhase,
                        Goto, Fail, Return
<1>4. CASE Configure \/ Build
      BY <1>4, <1>1 DEF Configure, Build, NextPhase, Goto, Fail, Return
<1>5. CASE Install \/ OpenReceipt \/ Kill
      BY <1>5, <1>1 DEF Install, OpenReceipt, Kill, NextPackage, Goto, Fail, Return
<1> QED BY <1>2, <1>3, <1>4, <1>5 DEF Next, Proceed

LEMMA ReceiptTrueStep ==
  Absolute /\ TypeInv /\ FillInv /\ ReceiptIsTrue /\ [Next]_vars => ReceiptIsTrue'
<1> SUFFICES ASSUME Absolute, TypeInv, FillInv, ReceiptIsTrue, [Next]_vars,
                    pc' = "idle", ret' = "OK", ~fault',
                    NEW p \in Recorded
             PROVE  receipt'["prefix"][p] = installed'["prefix"][p].source
    BY DEF ReceiptIsTrue
<1>1. CASE UNCHANGED vars
      BY <1>1 DEF ReceiptIsTrue, vars
<1>2. CASE WriteReceipt
  <2>1. /\ setupDir = "prefix" /\ receipt \in [{"prefix"} -> [Recorded -> Found]]
        /\ p \in Package
        BY AbsoluteRoot DEF TypeInv, TypeOK, Recorded
  <2>2. /\ receipt' = [receipt EXCEPT ![setupDir] = [q \in Recorded |-> run.cfg[q]]]
        /\ installed' = installed /\ pc = "writeReceipt"
        BY <1>2 DEF WriteReceipt, Fail
  <2>3. installed["prefix"][p].source = run.cfg[p]
        BY <2>1, <2>2, AllComplete DEF Complete
  <2> QED BY <2>1, <2>2, <2>3
<1> QED BY <1>1, <1>2, OnlyWriteSucceeds

\* With an absolute prefix, whatever runs came before, the receipt of a run
\* that succeeded and could write it names the releases the prefix holds
\* (setup.c:179-237).
THEOREM ReceiptTrue == Absolute /\ Spec => []ReceiptIsTrue
<1> SUFFICES ASSUME Absolute PROVE Spec => []ReceiptIsTrue
    OBVIOUS
<1> DEFINE I == TypeInv /\ FillInv /\ ReceiptIsTrue
<1>1. Init => I
      BY InitTyped, InitFilled DEF Init, ReceiptIsTrue
<1>2. I /\ [Next]_vars => I'
      BY StepTyped, FillStep, ReceiptTrueStep
<1> QED BY <1>1, <1>2, PTL DEF Spec

-----------------------------------------------------------------------------
(* Nothing but the environment stops a run *)

LEMMA GmakeStep ==
  Absolute /\ SumsRight /\ TypeInv /\ GmakeInv /\ [Next]_vars => GmakeInv'
<1> SUFFICES ASSUME Absolute, SumsRight, TypeInv, GmakeInv, [Next]_vars,
                    pc' \notin {"idle", "preflight", "gmake"}, platform' \in binUrlGmake
             PROVE  "prefix" \in gmakeIn'
    BY DEF GmakeInv
<1>t. TypeOK
      BY DEF TypeInv
<1>1. CASE Start \/ Preflight \/ Kill
      BY <1>1 DEF Start, Preflight, Kill, Goto, Fail, Return
<1>2. CASE FindGmake
      BY <1>2 DEF FindGmake, local
<1>3. CASE InstallGmake
      BY <1>3, <1>t, AbsoluteRoot DEF InstallGmake, Fail, Return
<1>4. CASE Prepare
  <2>1. package \in Package
        BY <1>4, <1>t, LoopTyped DEF Prepare
  <2>2. "prefix" \notin Under(package)
        BY <2>1 DEF Under, Package, packages
  <2> QED BY <1>4, <2>2 DEF Prepare, Wipe, GmakeInv, local, Fail, Return
<1>5. CASE FindCmake \/ Fetch \/ ChangeDir \/ Tweak \/ EnterLiblzma
      BY <1>5 DEF FindCmake, Fetch, ChangeDir, Tweak, EnterLiblzma, GmakeInv, local, disk
<1>6. CASE Configure \/ Build \/ Install \/ OpenReceipt \/ WriteReceipt \/ UNCHANGED vars
      BY <1>6 DEF Configure, Build, Install, OpenReceipt, WriteReceipt, GmakeInv, local, vars
<1> QED BY <1>1, <1>2, <1>3, <1>4, <1>5, <1>6 DEF Next, Proceed

\* The packages a configure asks for are in the prefix.
LEMMA UsedAreVisible ==
  ASSUME Absolute, TypeInv, FillInv, pc \in {"prepare", "fetch", "chdir", "command"},
         NEW d \in Uses[package]
  PROVE  /\ Visible(package)[d] = run.cfg[d]
         /\ run.cfg[d] \in Version
<1>1. /\ step \in 1..12 /\ package \in Package /\ package = packages[step]
      /\ run.cfg \in [Package -> Version] /\ setupDir = "prefix"
      BY LoopTyped, AbsoluteRoot DEF package, TypeInv
<1>2. PICK j \in 1..(step - 1) : packages[j] = d
      BY <1>1, BuildOrder
<1>3. Complete(d)
      BY <1>2 DEF FillInv
<1> QED BY <1>1, <1>3, UsesTyped DEF Visible, Complete

LEMMA NoFaultStep ==
  Absolute /\ SumsRight /\ TypeInv /\ FillInv /\ GmakeInv /\ NoFaultMeansSuccess /\ [Next]_vars
    => NoFaultMeansSuccess'
<1> SUFFICES ASSUME Absolute, SumsRight, TypeInv, FillInv, GmakeInv, NoFaultMeansSuccess,
                    [Next]_vars, pc' = "idle", ret' # "none", ~fault'
             PROVE  ret' = "OK"
    BY DEF NoFaultMeansSuccess, Ended
<1>t. TypeOK /\ (pc # "idle" => ret = "none")
      BY DEF TypeInv, StepInv
<1>1. CASE InstallGmake
  <2>1. binShaGmake[platform] = platform
        BY <1>1, <1>t DEF InstallGmake, SumsRight, TypeOK
  <2> QED BY <1>1, <2>1 DEF InstallGmake, Fail, Goto
<1>2. CASE Configure
  <2>1. \A d \in Uses[package] : Visible(package)[d] \in Version
        BY <1>2, UsedAreVisible DEF Configure
  <2> QED BY <1>2, <2>1 DEF Configure, Fail, NextPhase
<1>3. CASE Build
  <2>1. ~ExecFails
        BY <1>3, <1>t, AbsoluteRoot DEF ExecFails, GmakeRuns, GmakeInv, Build
  <2> QED BY <1>3, <2>1 DEF Build, Fail, NextPhase
<1>4. CASE Start \/ Preflight \/ FindGmake \/ FindCmake \/ Prepare \/ Fetch \/ ChangeDir
      BY <1>4 DEF Start, Preflight, FindGmake, FindCmake, Prepare, Fetch, ChangeDir, Goto, Fail
<1>5. CASE Tweak \/ EnterLiblzma \/ Install \/ OpenReceipt
      BY <1>5, <1>t DEF Tweak, EnterLiblzma, Install, OpenReceipt, NextPhase, NextPackage,
                        Goto, Fail
<1>6. CASE WriteReceipt \/ Kill
      BY <1>6 DEF WriteReceipt, Kill, Fail, Return
<1>7. CASE UNCHANGED vars
      BY <1>7 DEF vars, NoFaultMeansSuccess, Ended
<1> QED BY <1>1, <1>2, <1>3, <1>4, <1>5, <1>6, <1>7 DEF Next, Proceed

\* With an absolute prefix, and where the source demands the sum of the gmake
\* it downloads, a run that the environment does not fail succeeds, whatever
\* earlier runs left on disk (setup.c:593-1159).
THEOREM OnlyFaultsStop == Absolute /\ SumsRight /\ Spec => []NoFaultMeansSuccess
<1> SUFFICES ASSUME Absolute, SumsRight PROVE Spec => []NoFaultMeansSuccess
    OBVIOUS
<1> DEFINE I == TypeInv /\ FillInv /\ GmakeInv /\ NoFaultMeansSuccess
<1>1. Init => I
      BY InitTyped, InitFilled DEF Init, GmakeInv, NoFaultMeansSuccess, Ended
<1>2. I /\ [Next]_vars => I'
      BY StepTyped, FillStep, GmakeStep, NoFaultStep
<1> QED BY <1>1, <1>2, PTL DEF Spec

-----------------------------------------------------------------------------
(* Setup implements Provision *)

Fresh == IF pc = "idle" THEN {} ELSE {packages[i] : i \in 1..(step - 1)}

\* What Provision sees of a step.
Seen == <<RunState, run.cfg, Fresh, installed["prefix"], receipt["prefix"]>>

LEMMA FoundStep == Absolute /\ TypeInv /\ FoundInv /\ [Next]_vars => FoundInv'
<1> SUFFICES ASSUME Absolute, TypeInv, FoundInv, [Next]_vars,
                    pc' = "command", Current' \in {"enter", "build", "install"}
             PROVE  found' = Visible(package)'
    BY DEF FoundInv
<1>t. TypeOK
      BY DEF TypeInv
<1>1. ASSUME package' = package, installed' = installed, run' = run
      PROVE  Visible(package)' = Visible(package)
  <2>1. setupDir' = "prefix" /\ setupDir = "prefix"
        BY <1>1, <1>t, AbsoluteRoot DEF setupDir, Absolute, TypeOK
  <2> QED BY <1>1, <2>1 DEF Visible
<1>2. CASE Start \/ Preflight \/ FindGmake \/ InstallGmake \/ FindCmake \/ Prepare \/ Fetch
      BY <1>2 DEF Start, Preflight, FindGmake, InstallGmake, FindCmake, Prepare, Fetch,
                  Goto, Fail, Return
<1>3. CASE ChangeDir
  <2>1. package \in Package /\ Phases(package)' = Phases(package) /\ package' = package
        BY <1>3, <1>t, LoopTyped DEF ChangeDir, package, Phases
  <2>2. phase' = 1
        BY <1>3 DEF ChangeDir, Fail, Return
  <2> QED BY <2>1, <2>2 DEF Current, Phases
<1>4. CASE Tweak
  <2>1. NextPhase /\ pc = "command" /\ Current \in {"patch", "local"} /\ platform' = platform
        BY <1>4 DEF Tweak, Fail, Return
  <2> QED BY <2>1, NextCommand
<1>5. CASE EnterLiblzma \/ Build
  <2>1. /\ pc = "command" /\ Current \in {"enter", "build"}
        /\ package' = package /\ installed' = installed /\ run' = run /\ found' = found
        BY <1>5 DEF EnterLiblzma, Build, disk, NextPhase, Fail, Return, package
  <2> QED BY <1>1, <2>1 DEF FoundInv
<1>6. CASE Configure
  <2>1. /\ found' = Visible(package) /\ package' = package
        /\ installed' = installed /\ run' = run
        BY <1>6 DEF Configure, NextPhase, Fail, Return, package
  <2> QED BY <1>1, <2>1
<1>7. CASE Install \/ OpenReceipt \/ WriteReceipt \/ Kill
      BY <1>7 DEF Install, NextPackage, OpenReceipt, WriteReceipt, Kill, Goto, Fail, Return
<1>8. CASE UNCHANGED vars
  <2>1. /\ pc = "command" /\ Current \in {"enter", "build", "install"} /\ found' = found
        /\ package' = package /\ installed' = installed /\ run' = run
        BY <1>8 DEF vars, package, Current, Phases
  <2> QED BY <1>1, <2>1 DEF FoundInv
<1> QED BY <1>2, <1>3, <1>4, <1>5, <1>6, <1>7, <1>8 DEF Next, Proceed

LEMMA TornStep == Absolute /\ TypeInv /\ TornInv /\ [Next]_vars => TornInv'
<1> SUFFICES ASSUME Absolute, TypeInv, TornInv, [Next]_vars, pc' = "writeReceipt"
             PROVE  receipt'["prefix"] = TornReceipt
    BY DEF TornInv
<1>1. CASE OpenReceipt
  <2>1. receipt' = [receipt EXCEPT ![setupDir] = TornReceipt]
        BY <1>1 DEF OpenReceipt, Fail, Return
  <2> QED BY <2>1, AbsoluteRoot DEF TypeInv, TypeOK
<1>2. CASE Start \/ Preflight \/ FindGmake \/ InstallGmake \/ FindCmake \/ Prepare \/ Fetch
      BY <1>2 DEF Start, Preflight, FindGmake, InstallGmake, FindCmake, Prepare, Fetch,
                  Goto, Fail, Return
<1>3. CASE ChangeDir \/ Tweak \/ EnterLiblzma \/ Configure \/ Build
      BY <1>3 DEF ChangeDir, Tweak, EnterLiblzma, Configure, Build, NextPhase, Goto, Fail, Return
<1>4. CASE Install \/ WriteReceipt \/ Kill
      BY <1>4, PackageList DEF Install, NextPackage, WriteReceipt, Kill, Goto, Fail, Return
<1>5. CASE UNCHANGED vars
      BY <1>5 DEF TornInv, vars
<1> QED BY <1>1, <1>2, <1>3, <1>4, <1>5 DEF Next, Proceed

\* Before the package at hand come the packages it uses, and not itself.
LEMMA FreshBefore ==
  ASSUME TypeOK, pc \in {"prepare", "fetch", "chdir", "command"}
  PROVE  /\ package \in Package \ Fresh
         /\ Uses[package] \subseteq Fresh
         /\ Fresh \cup {package} = {packages[i] : i \in 1..step}
<1>1. step \in 1..12 /\ package = packages[step] /\ package \in Package
      BY LoopTyped DEF package
<1>2. Fresh = {packages[i] : i \in 1..(step - 1)}
      BY DEF Fresh
<1>3. package \notin Fresh
      BY <1>1, <1>2, PackageList
<1>4. ASSUME NEW d \in Uses[package] PROVE d \in Fresh
  <2>1. PICK j \in 1..(step - 1) : packages[j] = d
        BY <1>1, BuildOrder
  <2> QED BY <1>2, <2>1
<1>5. 1..step = 1..(step - 1) \cup {step}
      BY <1>1
<1>6. Fresh \cup {package} = {packages[i] : i \in 1..step}
      BY <1>1, <1>2, <1>5
<1> QED BY <1>1, <1>3, <1>4, <1>6

\* After the loop all of them are fresh.
LEMMA FreshAfter ==
  ASSUME TypeInv, pc \in {"openReceipt", "writeReceipt"}
  PROVE  Fresh = Package
BY PackageList DEF TypeInv, StepInv, Fresh

\* A step inside a run that leaves the loop, the prefix and the receipt alone.
LEMMA InnerSeen ==
  ASSUME pc # "idle", pc' # "idle", UNCHANGED <<run, step, installed, receipt>>
  PROVE  UNCHANGED Seen
BY DEF Seen, RunState, Fresh

\* A run that ends without success, with the prefix and the receipt as they were
LEMMA StopSeen ==
  ASSUME TypeInv, pc # "idle", pc' = "idle", ret' \notin {"none", "OK"},
         UNCHANGED <<run, receipt>>,
         \/ UNCHANGED installed
         \/ Absolute /\ pc = "command" /\ Tear(setupDir, package)
  PROVE  Promise!Stop
<1>1. RunState = "running" /\ RunState' = "stopped" /\ Fresh' = {}
      BY DEF RunState, Fresh
<1>2. CASE UNCHANGED installed
      BY <1>1, <1>2 DEF Promise!Stop, Fresh
<1>3. CASE Absolute /\ pc = "command" /\ Tear(setupDir, package)
  <2>1. /\ package \in Package \ Fresh /\ Uses[package] \subseteq Fresh
        /\ setupDir = "prefix" /\ installed \in [{"prefix"} -> [Package -> Entry]]
        BY <1>3, FreshBefore, AbsoluteRoot DEF TypeInv, TypeOK
  <2>2. [installed["prefix"][package] EXCEPT !.source = Torn] =
          [source |-> Torn, against |-> installed["prefix"][package].against]
        BY <2>1 DEF Entry
  <2>3. installed'["prefix"] = [installed["prefix"] EXCEPT ![package] =
          [source |-> Torn, against |-> installed["prefix"][package].against]]
        BY <1>3, <2>1 DEF Tear, Put
  <2>4. installed'["prefix"] = [installed["prefix"] EXCEPT ![package].source = Promise!Torn]
        BY <2>2, <2>3 DEF Torn, Promise!Torn
  <2> QED BY <1>1, <2>1, <2>4 DEF Promise!Stop, Fresh
<1> QED BY <1>2, <1>3

\* An install puts the package at hand next to the ones it was built against.
LEMMA InstallSeen ==
  ASSUME Absolute, TypeInv, FillInv, FoundInv, Install, NextPackage,
         Put(setupDir, package, [source |-> run.cfg[package], against |-> found])
  PROVE  Promise!Next
<1>1. /\ pc = "command" /\ Current = "install" /\ UNCHANGED <<run, receipt>>
      /\ setupDir = "prefix" /\ installed \in [{"prefix"} -> [Package -> Entry]]
      /\ step \in 1..12 /\ ret = "none"
      BY AbsoluteRoot, LoopTyped DEF Install, TypeInv, TypeOK, StepInv
<1>2. /\ package \in Package \ Fresh /\ Uses[package] \subseteq Fresh
      /\ Fresh \cup {package} = {packages[i] : i \in 1..step}
      BY <1>1, FreshBefore DEF TypeInv
<1>3. found = Promise!Against(package)
      BY <1>1 DEF FoundInv, Visible, Promise!Against, None, Promise!None
<1>4. installed'["prefix"] = [installed["prefix"] EXCEPT ![package] =
        [source |-> run.cfg[package], against |-> Promise!Against(package)]]
      BY <1>1, <1>2, <1>3 DEF Put
<1>5. pc' # "idle" /\ step' = step + 1 /\ ret' = ret
      BY DEF NextPackage, Goto
<1>6. Fresh' = Fresh \cup {package}
      BY <1>1, <1>2, <1>5 DEF Fresh
<1>7. RunState = "running" /\ RunState' = "running"
      BY <1>1, <1>5 DEF RunState
<1> QED BY <1>1, <1>2, <1>4, <1>6, <1>7 DEF Promise!Next, Promise!Provide, Fresh

\* Each step of Setup is a step of Provision, or one it does not see.
LEMMA PromiseStep ==
  Absolute /\ TypeInv /\ FillInv /\ FoundInv /\ TornInv /\ [Next]_vars =>
    Promise!Next \/ UNCHANGED Seen
<1> SUFFICES ASSUME Absolute, TypeInv, FillInv, FoundInv, TornInv, [Next]_vars
             PROVE  Promise!Next \/ UNCHANGED Seen
    OBVIOUS
<1>t. TypeOK /\ (pc # "idle" => ret = "none")
      BY DEF TypeInv, StepInv
<1>s. Promise!Stop => Promise!Next
      BY DEF Promise!Next
<1>1. CASE Start
  <2>1. RunState # "running" /\ RunState' = "running"
        BY <1>1 DEF Start, RunState
  <2>2. Fresh' = {}
        BY <1>1 DEF Start, Fresh
  <2>3. run'.cfg \in Config /\ UNCHANGED <<installed, receipt>>
        BY <1>1 DEF Start, disk
  <2> QED BY <2>1, <2>2, <2>3 DEF Promise!Next, Promise!Begin, Fresh
<1>2. CASE Preflight \/ FindGmake \/ InstallGmake \/ FindCmake \/ Fetch
  <2>1. /\ pc # "idle" /\ UNCHANGED <<run, step, installed, receipt>>
        /\ pc' # "idle" \/ (pc' = "idle" /\ ret' \notin {"none", "OK"})
        BY <1>2 DEF Preflight, FindGmake, InstallGmake, FindCmake, Fetch, local, disk,
                    Goto, Fail, Return
  <2> QED BY <1>s, <2>1, InnerSeen, StopSeen
<1>3. CASE Prepare
  <2>1. UNCHANGED <<installed, receipt>>
        BY <1>3, <1>t, LoopTyped, WipeFrame DEF Prepare, disk
  <2>2. /\ pc # "idle" /\ UNCHANGED <<run, step>>
        /\ pc' # "idle" \/ (pc' = "idle" /\ ret' \notin {"none", "OK"})
        BY <1>3 DEF Prepare, local, Goto, Fail, Return
  <2> QED BY <1>s, <2>1, <2>2, InnerSeen, StopSeen
<1>4. CASE ChangeDir \/ Tweak \/ EnterLiblzma \/ Configure \/ Build
  <2>1. /\ pc # "idle" /\ UNCHANGED <<run, step, installed, receipt>>
        /\ pc' # "idle" \/ (pc' = "idle" /\ ret' \notin {"none", "OK"})
        BY <1>4 DEF ChangeDir, Tweak, EnterLiblzma, Configure, Build, NextPhase, disk,
                    Goto, Fail, Return
  <2> QED BY <1>s, <2>1, InnerSeen, StopSeen
<1>5. CASE Install
  <2>1. CASE /\ Put(setupDir, package, [source |-> run.cfg[package], against |-> found])
             /\ NextPackage
        BY <1>5, <2>1, InstallSeen
  <2>2. CASE Fail("ERROR") /\ (UNCHANGED installed \/ Tear(setupDir, package))
    <3>1. pc = "command" /\ pc' = "idle" /\ ret' = "ERROR" /\ UNCHANGED <<run, receipt>>
          BY <1>5, <2>2 DEF Install, Fail, Return
    <3> QED BY <1>s, <2>2, <3>1, StopSeen
  <2> QED BY <1>5, <2>1, <2>2 DEF Install
<1>6. CASE OpenReceipt
  <2>1. CASE receipt' = [receipt EXCEPT ![setupDir] = TornReceipt] /\ Goto("writeReceipt")
    <3>1. receipt'["prefix"] = Promise!TornReceipt
          BY <1>t, <2>1, AbsoluteRoot DEF TypeOK, TornReceipt, Promise!TornReceipt,
                                          Torn, Promise!Torn
    <3>2. /\ pc = "openReceipt" /\ pc' # "idle" /\ UNCHANGED <<run, step, installed>>
          BY <1>6, <2>1 DEF OpenReceipt, local, Goto
    <3>3. RunState = "running" /\ RunState' = "running" /\ Fresh' = Fresh /\ Fresh = Package
          BY <3>2, FreshAfter DEF RunState, Fresh
    <3> QED BY <3>1, <3>2, <3>3 DEF Promise!Next, Promise!TearReceipt, Fresh
  <2>2. CASE Fail("ERROR") /\ UNCHANGED receipt
        BY <1>6, <1>s, <2>2, StopSeen DEF OpenReceipt, local, Fail, Return
  <2> QED BY <1>6, <2>1, <2>2 DEF OpenReceipt
<1>7. CASE WriteReceipt
  <2>1. /\ pc = "writeReceipt" /\ pc' = "idle" /\ ret' = "OK"
        /\ UNCHANGED <<run, step, installed>>
        BY <1>7 DEF WriteReceipt, local, Fail, Return
  <2>2. RunState = "running" /\ RunState' = "succeeded" /\ Fresh' = {} /\ Fresh = Package
        BY <2>1, FreshAfter DEF RunState, Fresh
  <2>3. receipt'["prefix"] \in {Promise!Record(run.cfg), Promise!TornReceipt}
    <3>1. CASE receipt' = [receipt EXCEPT ![setupDir] = [p \in Recorded |-> run.cfg[p]]]
          BY <1>t, <3>1, AbsoluteRoot DEF TypeOK, Promise!Record
    <3>2. CASE UNCHANGED receipt
          BY <2>1, <3>2 DEF TornInv, TornReceipt, Promise!TornReceipt, Torn, Promise!Torn
    <3> QED BY <1>7, <3>1, <3>2 DEF WriteReceipt
  <2> QED BY <2>1, <2>2, <2>3 DEF Promise!Next, Promise!Succeed, Fresh
<1>8. CASE Kill
  <2>1. /\ pc # "idle" /\ pc' = "idle" /\ ret' = "killed" /\ UNCHANGED run
        BY <1>8 DEF Kill, local, Fail, Return
  <2>2. /\ UNCHANGED receipt
        /\ UNCHANGED installed \/ (pc = "command" /\ Tear(setupDir, package))
        BY <1>8, <1>t, LoopTyped, WipeFrame DEF Kill, disk
  <2> QED BY <1>s, <2>1, <2>2, StopSeen
<1>9. CASE UNCHANGED vars
      BY <1>9 DEF vars, Seen, RunState, Fresh
<1> QED BY <1>1, <1>2, <1>3, <1>4, <1>5, <1>6, <1>7, <1>8, <1>9 DEF Next, Proceed

LEMMA PromiseInit == Init => Promise!Init
<1> SUFFICES ASSUME Init PROVE Promise!Init
    OBVIOUS
<1>1. TypeInv /\ pc = "idle" /\ ret = "none"
      BY InitTyped DEF Init
<1>2. /\ run.cfg \in Config
      /\ installed["prefix"] \in [Package -> Entry]
      /\ receipt["prefix"] \in [Recorded -> Found]
  <2>1. TypeOK /\ "prefix" \in Root
        BY <1>1 DEF TypeInv, Root
  <2>2. /\ run \in [cfg : Config, prefix : PrefixKind]
        /\ installed \in [Root -> [Package -> Entry]]
        /\ receipt \in [Root -> [Recorded -> Found]]
        BY <2>1 DEF TypeOK
  <2> QED BY <2>1, <2>2
<1>3. Promise!Found = Found /\ Promise!Entry = Entry
      BY DEF Promise!Found, Found, Promise!Entry, Entry, Promise!None, None, Promise!Torn, Torn
<1>4. RunState = "idle"
      BY <1>1 DEF RunState
<1> QED BY <1>1, <1>2, <1>3, <1>4 DEF Promise!Init, Promise!TypeOK

\* With an absolute prefix, any sequence of runs, failures and deaths fills
\* the prefix as Provision promises: package by package, each after those it
\* builds against, at most one torn, and the receipt last (setup.c:593-1159).
THEOREM SetupImplementsProvision == Absolute /\ Spec => ImplementsProvision
<1> SUFFICES ASSUME Absolute PROVE Spec => ImplementsProvision
    OBVIOUS
<1> DEFINE I == TypeInv /\ FillInv /\ FoundInv /\ TornInv
<1>1. Init => I
      BY InitTyped, InitFilled DEF Init, FoundInv, TornInv
<1>2. I /\ [Next]_vars => I'
      BY StepTyped, FillStep, FoundStep, TornStep
<1>3. I /\ [Next]_vars => [Promise!Next]_Promise!vars
      BY PromiseStep DEF Promise!vars, Seen, Fresh
<1> QED BY <1>1, <1>2, <1>3, PromiseInit, PTL DEF Spec, ImplementsProvision, Promise!Spec
=============================================================================
