SPECIFICATION Spec
CONSTANTS
  client1 = client1
  client2 = client2
  stream1 = stream1
  stream2 = stream2
  capture1 = capture1
  NoCapture = NoCapture
  Client <- Clients
  Publisher <- Everybody
  Stream <- TwoStreams
  Capture <- OneCapture
  Buffer = 1
  MaxRuns = 2
  Benchmarks = 1
  MaxCalls = 1
  MaxRestarts = 0
INVARIANT NoSendOnClosed
CHECK_DEADLOCK FALSE
