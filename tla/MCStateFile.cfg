SPECIFICATION Spec
CONSTANTS
  job1 = job1
  client1 = client1
  client2 = client2
  Job <- OneJob
  Client <- TwoClients
  MaxCalls = 2
  MaxRestarts = 0
  StoreFails = FALSE
  StreamsLeave = FALSE
SYMMETRY Interchangeable
INVARIANTS
  StateFileCatchesUp
CHECK_DEADLOCK FALSE
