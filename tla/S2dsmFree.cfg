SPECIFICATION Spec
CONSTANTS
  a = a
  NumPages = 1
  Msgs = {Zero}
  Zero = Zero
  Absent = Absent
  SockCap = 1
CHECK_DEADLOCK FALSE
INVARIANTS TypeOK FetchMatches FaultsAccounted
