SPECIFICATION FairSpec
CONSTANTS
  Configs <- AnyPorts
  Programs = {"P1b", "P1c", "P2"}
  PageSize = 4
  IntMod = 32
  Answers <- SomeAnswers
  MaxRequests = 2
CHECK_DEADLOCK FALSE
INVARIANTS TypeOK RolesDiffer FramesMatch SameRegion
PROPERTIES PairUp OrphanEnds
