SPECIFICATION HomeworkSpec
CONSTANTS
  Clients = {c1, c2, c3}
  Nobody = Nobody
  QueueSize = 1
  Readers = {r1}
  Msg <- Bytes
  MaxCount = 4
  MaxGot = 6
  Failures = 1
CHECK_DEADLOCK FALSE
INVARIANTS Answered TypeOK Released MessageSize
PROPERTIES AllEnd ReadsEnd
