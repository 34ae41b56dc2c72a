----------------------------- MODULE MCDownload -----------------------------
(***************************************************************************)
(* Instances of Download. Alone: one process whose requests have two sums  *)
(* for one basename (libbz2's default URL ends in "1.0.8.tar.gz", a name   *)
(* any tag archive can have) and a file of their own. Shared: two          *)
(* processes started with the same configuration.                          *)
(***************************************************************************)
EXTENDS Download

CONSTANTS p1, p2, f1, f2, a, b

Ask(f, s) == [file |-> f, sha |-> s]

AloneRequest  == [p \in Proc |-> {Ask(f1, a), Ask(f1, b), Ask(f2, a)}]
SharedRequest == [p \in Proc |-> {Ask(f1, a)}]
=============================================================================
