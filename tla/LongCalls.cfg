SPECIFICATION CallsSpec
CONSTANTS
  Type = {"x", "y", "heartbeat", "hello"}
  MaxConns = 2
  Streams <- MCStreams
  OutCap = 1
  MaxData = 1
  NoName = NoName
  Intervals = {0, 2}
  RetryBudget = 2
  MaxPolls = 4
  NoResponse = NoResponse
  MaxReply = 2
  MaxLines = 4
  k1 = k1
  k2 = k2
  k3 = k3
  Callback = {k1, k2, k3}
  Successful = {k1, k2}
  NoCallback = NoCallback
CHECK_DEADLOCK FALSE
INVARIANTS
  EventsInOrder
  PollsAsTold
  SentOnceAndTold
  WholeRepliesOnly
  OneCallbackWins
PROPERTIES
  EveryCallEnds
