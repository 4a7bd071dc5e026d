CONSTANTS
  Names = {"one", "two", "blank", "dos"}
  Trailing = {"blank"}
  Fragments <- MCFragments
  ClusterSlots = 5
  MaxSlots = 5
SPECIFICATION FairSpec
INVARIANTS ListsWhatIsThere SlotsComeBack
PROPERTIES NothingElseLost AddEnds
