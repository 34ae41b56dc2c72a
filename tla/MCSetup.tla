------------------------------ MODULE MCSetup ------------------------------
(***************************************************************************)
(* Instances of Setup: runs with the default configuration (release "v1"   *)
(* of everything) and with ones that upgrade some or all packages, on an   *)
(* empty machine and on one where the default configuration is installed.  *)
(***************************************************************************)
EXTENDS Setup

MCVersion == {"v1", "v2"}
Default   == [p \in Package |-> "v1"]
Upgraded  == [p \in Package |-> "v2"]
\* Only what others build against moves.
Mixed     == [p \in Package |-> IF p \in {"perl", "zlib", "ncurses", "openssl"}
                                THEN "v2" ELSE "v1"]

OneConfig    == {Default}
ThreeConfigs == {Default, Upgraded, Mixed}

\* The machine after a first, successful run of the default configuration.
WarmInit ==
  /\ platform \in Platform
  /\ run = [cfg |-> Default, prefix |-> "absolute"]
  /\ pc = "idle" /\ ret = "OK" /\ fault = FALSE
  /\ step = Len(packages) + 1 /\ phase = 4
  /\ cwd = "python3"
  /\ work = [p \in Package |-> [tree |-> "v1", stage |-> "built"]]
  /\ gmakeIn = IF platform \in binUrlGmake THEN {"prefix"} ELSE {}
  /\ installed = [r \in Root |-> [p \in Package |->
                   [source  |-> "v1",
                    against |-> [d \in Package |-> IF d \in Uses[p] THEN "v1" ELSE None]]]]
  /\ found = installed["prefix"]["python3"].against
  /\ receipt = [r \in Root |-> [p \in Recorded |-> "v1"]]
  /\ runs = 0

\* FairSpec from an empty machine and from that one.
AnySpec == (Init \/ WarmInit) /\ [][Next]_vars /\ WF_vars(Proceed)

Linux   == {<<"linux", "x86_64">>}
NetBSD  == {<<"netbsd", "amd64">>}
\* With and without a prebuilt gmake, with its right sum or another's, and
\* with the patch only OpenBSD gets.
Any     == {<<"linux", "x86_64">>, <<"linux", "riscv64">>, <<"netbsd", "amd64">>,
            <<"openbsd", "amd64">>}
=============================================================================
