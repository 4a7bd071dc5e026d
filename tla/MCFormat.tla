------------------------------ MODULE MCFormat ------------------------------
(* Format on disks of 26 and 40 sectors of 16 bytes with three partitions. *)
EXTENDS Format, TLC

A(n, os, loader, zero) ==
  [used |-> TRUE, size |-> n * 16, os |-> os, loader |-> loader, zero |-> zero]

MCAsks ==
  { [A(0, 32, 0, FALSE) EXCEPT !.used = FALSE],
    A(0, 32, 0, FALSE), A(0, 12, 1, FALSE), A(10, 32, 0, TRUE), A(10, 32, 3, FALSE),
    A(16, 12, 0, FALSE), A(19, 16, 0, TRUE), A(24, 12, 1, FALSE), A(6, NotFat, 0, FALSE) }

MCTotals == {26 * 16 + 8, 40 * 16}
MCSteps  == (NotFat :> {}) @@ (12 :> {}) @@ (16 :> {18 * 16}) @@ (32 :> {12 * 16})
MCSpc    == [os \in {NotFat, 12, 16, 32} |->
               [k \in 0 .. Cardinality(MCSteps[os]) |-> 2 ^ k]]

\* The numbers of the code, and `format size 3M fat12`.
Fat12Asks == {[used |-> TRUE, size |-> 3145728, os |-> 12, loader |-> 0, zero |-> FALSE]}
Fat12Totals == {3145728}
Fat12Spc ==
  LET least == (NotFat :> 8) @@ (12 :> 1) @@ (16 :> 4) @@ (32 :> 8)
  IN  [os \in {NotFat, 12, 16, 32} |->
         [k \in 0 .. Cardinality(MCSteps[os]) |-> least[os] * 2 ^ k]]
=============================================================================
