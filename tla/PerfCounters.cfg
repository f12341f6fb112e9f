SPECIFICATION Spec
CONSTANTS
  Cpus = {c1, c2, c3}
  Users = {u1, u2, u3}
  Kthreads = {k}
  Other = Other
  Null = Null
  Retry = Retry
  MaxActive = 2
  Odd = {"sleep", "class"}
  MaxCalls = 3
SYMMETRY Symmetric
CHECK_DEADLOCK FALSE
INVARIANTS TypeOK CountsBalanced
