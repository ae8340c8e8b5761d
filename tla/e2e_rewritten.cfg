\* A second call for the same task rewrites the request file.
SPECIFICATION EndToEndSpec
CONSTANTS
  Nil = ""
  TaskIds = {"a", "b"}
  FileNames = {"A", "B", "task"}
  NameOf <- MCName
  NameRank <- MCRank
  ClockId <- MCClock
  RawPaths = {"", "in_a", "in_b", "out_a", "out_b"}
  Paths = {"in_a", "in_b", "out_a", "out_b"}
  NormalForm <- MCNormalForm
  DefaultResult <- MCResult
  Ips = {"h1"}
  Ports = {1}
  MaxClock = 2
  MaxFaults = 0
  Calls = {1, 2}
  Config <- SameTask
  DefaultRequest <- MCRequest
  ClientResult <- MCResult
  Foreign = {}
  Retries = 1
  AcceptedTimeout = 1
  DoneTimeout = 1
  MaxCallFaults = 0
  Submits <- MCSubmits
  Workers = {w1}
  MaxReceiverCrashes = 0
  MaxWorkerCrashes = 0
CHECK_DEADLOCK FALSE
INVARIANTS
  FailedHasCause
