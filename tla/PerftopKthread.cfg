SPECIFICATION Spec
CONSTANTS
  Cpus = {c1}
  Users = {u1, u2}
  Kthreads = {k}
  Other = Other
  Null = Null
  Retry = Retry
  MaxActive = 2
  Odd = {"sleep"}
  Fresh = {"zero"}
  TopCount = 2
  MaxTsc = 4
  MaxTotal = 4
CHECK_DEADLOCK FALSE
INVARIANTS NeverOvercounts
