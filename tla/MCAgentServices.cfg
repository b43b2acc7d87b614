SPECIFICATION FairSpec
CONSTANTS
  client1 = client1
  client2 = client2
  stream1 = stream1
  stream2 = stream2
  capture1 = capture1
  NoCapture = NoCapture
  Client <- Clients
  Publisher <- Everybody
  Stream <- OneStream
  Capture <- OneCapture
  Buffer = 1
  MaxRuns = 2
  Benchmarks = 1
  MaxCalls = 2
  MaxRestarts = 1
INVARIANTS
  TypeOK
  OneProfilerRun
  ProfilerEventsInOrder
  StartedHasDownload
PROPERTIES
  SettledForGood
  CancelledRunEnds
  CallsEnd
CHECK_DEADLOCK FALSE
