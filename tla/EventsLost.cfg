SPECIFICATION CallsSpec
CONSTANTS
  Type = {"x", "y", "heartbeat", "hello"}
  MaxConns = 2
  Streams <- MCStreams
  OutCap = 1
  MaxData = 1
  NoName = NoName
  Intervals = {0}
  RetryBudget = 3
  MaxPolls = 0
  NoResponse = NoResponse
  MaxReply = 1
  MaxLines = 1
  k1 = k1
  k2 = k2
  k3 = k3
  Callback = {k1}
  Successful = {k1}
  NoCallback = NoCallback
CHECK_DEADLOCK FALSE
INVARIANT CompleteEventsArrive
