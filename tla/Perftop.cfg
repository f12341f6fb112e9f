SPECIFICATION Spec
CONSTANTS
  Cpus = {c1, c2}
  Users = {u1, u2}
  Kthreads = {k}
  Other = Other
  Null = Null
  Retry = Retry
  MaxActive = 2
  Odd = {"sleep", "class"}
  Fresh = {"zero", "garbage"}
  TopCount = 2
  MaxTsc = 2
  MaxTotal = 2
CHECK_DEADLOCK FALSE
SYMMETRY Symmetric
INVARIANTS TypeOK NodesMatch Snapshot TotalIsTime
