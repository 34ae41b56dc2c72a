--------------------------- MODULE VerifiedSource ---------------------------
(***************************************************************************)
(* What "download and uncompress" promises its caller: a call that reports *)
(* success leaves exactly the source tree whose SHA-256 sum was asked for, *)
(* and a call that does not may leave anything except a report of success. *)
(* How the bytes arrive (cache, network, retries) is not visible here;     *)
(* Download.tla implements this module.                                    *)
(***************************************************************************)
CONSTANTS Proc,   \* the running python3-setup processes
          Blob    \* the possible contents of a source tarball

VARIABLES want,   \* want[p]: the content named by the sha of p's call
          state,  \* state[p]: "idle", "busy", "ok" or "failed"
          tree    \* tree[p]: what p's uncompress directory holds

vars == <<want, state, tree>>

\* A directory with nothing in it, and one holding part of some tree.
Empty == "empty"
Torn  == "torn"

TypeOK ==
  /\ want  \in [Proc -> Blob]
  /\ state \in [Proc -> {"idle", "busy", "ok", "failed"}]
  /\ tree  \in [Proc -> Blob \cup {Empty, Torn}]

Init ==
  /\ want  \in [Proc -> Blob]
  /\ state = [p \in Proc |-> "idle"]
  /\ tree  = [p \in Proc |-> Empty]

\* The caller has made a fresh directory and asks for content b in it.
Call(p, b) ==
  /\ state[p] # "busy"
  /\ want'  = [want EXCEPT ![p] = b]
  /\ state' = [state EXCEPT ![p] = "busy"]
  /\ tree'  = [tree EXCEPT ![p] = Empty]

Succeed(p) ==
  /\ state[p] = "busy"
  /\ state' = [state EXCEPT ![p] = "ok"]
  /\ tree'  = [tree EXCEPT ![p] = want[p]]
  /\ UNCHANGED want

\* An error return, or the death of the process.
Fail(p) ==
  /\ state[p] = "busy"
  /\ state' = [state EXCEPT ![p] = "failed"]
  /\ tree'  \in {tree, [tree EXCEPT ![p] = Torn]}
  /\ UNCHANGED want

Next == \E p \in Proc : (\E b \in Blob : Call(p, b)) \/ Succeed(p) \/ Fail(p)

Spec == Init /\ [][Next]_vars
=============================================================================
