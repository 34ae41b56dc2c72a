----------------------------- MODULE MCCommands -----------------------------
(***************************************************************************)
(* The lengths Commands is checked for: the arrays and the texts are       *)
(* linear in them, so a short and a long one tell.                         *)
(***************************************************************************)
EXTENDS MCSetup, Commands

ShortAndLong == {1, 255}
FewAndMany   == {1, 3, 4, 5, 10}
=============================================================================
