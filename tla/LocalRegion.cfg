SPECIFICATION FairSpec
CONSTANTS
  NumPages = 3
  Msgs = {m1, m2}
  Zero = Zero
  Absent = Absent
CHECK_DEADLOCK FALSE
INVARIANTS TypeOK
PROPERTIES LocalMemory CommandsEnd
