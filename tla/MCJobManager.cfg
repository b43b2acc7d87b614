SPECIFICATION FairSpec
CONSTANTS
  job1 = job1
  client1 = client1
  client2 = client2
  Job <- OneJob
  Client <- TwoClients
  MaxCalls = 2
  MaxRestarts = 1
  StoreFails = TRUE
  StreamsLeave = TRUE
INVARIANTS
  TypeOK
  OneEngine
  SlotsMatchRuns
  RunningIsReal
PROPERTIES
  OnlyRestartForgets
  StopEndsTheRun
CHECK_DEADLOCK FALSE
