----------------------------- MODULE MCCommit -----------------------------
(* Commit with one directory and two files that are alike.                 *)
EXTENDS Commit, TLC

FilesAlike == Permutations(Files)
=============================================================================
