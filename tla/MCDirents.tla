----------------------------- MODULE MCDirents -----------------------------
(***************************************************************************)
(* Dirents with four names: of one fragment, of two, of two with a blank   *)
(* one last, and a name that DOS has written.                              *)
(***************************************************************************)
EXTENDS Dirents

MCFragments == [n \in Names |-> CASE n = "one" -> 1 [] n = "dos" -> 0 [] OTHER -> 2]
=============================================================================
