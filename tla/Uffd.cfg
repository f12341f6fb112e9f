SPECIFICATION FairSpec
CONSTANTS
  Sizes = {0, 1, 2, 3, 4, 5}
  Steps = 2
  Letters = 3
  IntMax = 8
  At = At
  Hat = Hat
CHECK_DEADLOCK FALSE
INVARIANTS TypeOK LettersShown FaultOncePerPage
PROPERTIES Exits
