CONSTANTS
  Nodes = {1, 2, 3, 4, 5, 6, 7, 8, 9, 10}
SPECIFICATION FairSpec
INVARIANTS FindsWhatIsThere RedBlack AssertionsHold
PROPERTIES SweepRemovesAll OperationEnds
