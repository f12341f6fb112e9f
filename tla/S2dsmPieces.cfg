SPECIFICATION PiecesSpec
CONSTANTS
  a = a
  b = b
  z = z
  NumPages = 1
  NumPieces = 3
  Msgs <- Typable
  Zero <- ZeroText
  Absent = Absent
  SockCap = 1
CHECK_DEADLOCK FALSE
PROPERTIES WholePages OneMemory
