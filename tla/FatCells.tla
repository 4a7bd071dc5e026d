------------------------------ MODULE FatCells ------------------------------
(***************************************************************************)
(* What the FAT is to the rest of fatdisk: one number for each cluster,    *)
(* each of which can be set without a trace on the others.  It is the      *)
(* variable fat of FatTable; FatEntry implements it in bytes.              *)
(***************************************************************************)
EXTENDS Integers

VARIABLE cells   \* the entries, and none before the FAT is read

Init == cells = <<>>

Read ==
  /\ cells = <<>>
  /\ cells' \in [DOMAIN cells' -> Nat]

Set(c) ==
  /\ c \in DOMAIN cells
  /\ cells'[c] \in Nat
  /\ cells' = [cells EXCEPT ![c] = cells'[c]]

Next == Read \/ \E c \in DOMAIN cells : Set(c)

Spec == Init /\ [][Next]_cells
=============================================================================
