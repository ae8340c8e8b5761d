\* The queue is worked off, under fairness, though a worker is killed.
SPECIFICATION FairSpec
CONSTANTS
  Nil = ""
  TaskIds = {"a"}
  FileNames = {"A", "task"}
  NameOf <- OwnName
  NameRank <- MCRank
  ClockId <- NoClockIds
  RawPaths = {"", "./in", "out_a"}
  Paths = {"in", "out_a"}
  NormalForm <- MCNormalForm
  DefaultResult <- MCDefault
  Ips = {"h1"}
  Ports = {1}
  Submits <- SubmitA
  Workers = {w1, w2}
  MaxClock = 2
  MaxFaults = 0
  MaxReceiverCrashes = 0
  MaxWorkerCrashes = 1
CHECK_DEADLOCK FALSE
PROPERTIES
  JobsDrain
