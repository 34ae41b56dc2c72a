------------------------------ MODULE Provision ------------------------------
(***************************************************************************)
(* What `python3-setup setup` promises about the prefix it fills, with the *)
(* downloads, build trees and working directory of setup.c left out: the   *)
(* packages of one run go in one by one, each after the packages it builds *)
(* against, the receipt is touched only when all of them are in, and a run *)
(* that stops early leaves at most one package torn. Setup.tla implements  *)
(* this module.                                                            *)
(***************************************************************************)
EXTENDS FiniteSets

CONSTANTS Package,  \* the packages of the prefix
          Uses,     \* Uses[p]: the packages p is built against
          Version,  \* the source releases a configuration can name
          Config,   \* the configurations a run can be given
          Recorded  \* the packages the receipt mentions

None == "none"
Torn == "torn"

VARIABLES state,    \* "idle", "running", "succeeded" or "stopped"
          goal,     \* the configuration of the run
          fresh,    \* the packages this run has installed
          have,     \* have[p]: the installed source and what it was built against
          receipt   \* the configuration receipt.yml records

vars == <<state, goal, fresh, have, receipt>>

Found == Version \cup {None, Torn}
Entry == [source : Found, against : [Package -> Found]]

\* What package p finds of the packages it is built against.
Against(p) == [d \in Package |-> IF d \in Uses[p] THEN have[d].source ELSE None]
Record(c)   == [p \in Recorded |-> c[p]]
TornReceipt == [p \in Recorded |-> Torn]

TypeOK ==
  /\ state   \in {"idle", "running", "succeeded", "stopped"}
  /\ goal    \in Config
  /\ fresh   \subseteq Package
  /\ have    \in [Package -> Entry]
  /\ receipt \in [Recorded -> Found]

\* No run is under way; the prefix may hold whatever earlier ones left.
Init ==
  /\ TypeOK
  /\ state # "running"
  /\ fresh = {}

Begin ==
  /\ state # "running"
  /\ goal' \in Config
  /\ state' = "running"
  /\ fresh' = {}
  /\ UNCHANGED <<have, receipt>>

\* Package p goes in, over what the prefix held of it.
Provide(p) ==
  /\ state = "running"
  /\ p \notin fresh
  /\ Uses[p] \subseteq fresh
  /\ have' = [have EXCEPT ![p] = [source |-> goal[p], against |-> Against(p)]]
  /\ fresh' = fresh \cup {p}
  /\ UNCHANGED <<state, goal, receipt>>

Stop ==
  /\ state = "running"
  /\ state' = "stopped"
  /\ fresh' = {}
  /\ \/ UNCHANGED have
     \/ \E p \in Package \ fresh :
          /\ Uses[p] \subseteq fresh
          /\ have' = [have EXCEPT ![p].source = Torn]
  /\ UNCHANGED <<goal, receipt>>

TearReceipt ==
  /\ state = "running"
  /\ fresh = Package
  /\ receipt' = TornReceipt
  /\ UNCHANGED <<state, goal, fresh, have>>

\* Success; a write of the receipt that the disk refused goes unnoticed.
Succeed ==
  /\ state = "running"
  /\ fresh = Package
  /\ receipt' \in {Record(goal), TornReceipt}
  /\ state' = "succeeded"
  /\ fresh' = {}
  /\ UNCHANGED <<goal, have>>

Next == Begin \/ (\E p \in Package : Provide(p)) \/ Stop \/ TearReceipt \/ Succeed

Spec == Init /\ [][Next]_vars
=============================================================================
