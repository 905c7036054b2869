SPECIFICATION FairCycleSpec
CONSTANTS
  Names = 3
  Text = {1, 2, 3, 4}
  Invalid <- Nothing
  Known <- LastOne
  OwnerFiles <- SameTextTwice
  Children <- TwoChildren
  Answers <- SomeAnswers
  Threshold = 2
  BatchSize = 3
  Perils = {"half"}
  MaxPuts = 2
  MaxTrouble = 0
INVARIANTS
  Justified
PROPERTIES
  NothingLost
  Reviewed
CHECK_DEADLOCK FALSE
