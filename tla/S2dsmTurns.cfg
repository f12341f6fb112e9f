SPECIFICATION TurnsFairSpec
CONSTANTS
  a = a
  NumPages = 2
  Msgs = {a}
  Zero = Zero
  Absent = Absent
  SockCap = 2
CHECK_DEADLOCK FALSE
INVARIANTS MsiAgreement CopiesAgree ResidencyAgrees
PROPERTIES MemorySpec CommandsComplete ExitPropagates
