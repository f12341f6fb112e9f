SPECIFICATION KdsSpec
CONSTANTS
  Texts <- AllTexts
  Space = Space
  Plus = Plus
  Minus = Minus
  Newline = Newline
  Junk = Junk
  LongMax = 63
  IntMax = 31
  Buckets = 2
  MaxNums = 3
  MaxBits = 12
  BitmapBits = 16
  Shortages = 1
  Longest = 4
  Some = {0, 1, 3}
CHECK_DEADLOCK FALSE
INVARIANTS EntriesFreed
