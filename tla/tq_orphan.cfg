\* The receiver is killed between the state file and the job file.
SPECIFICATION Spec
CONSTANTS
  Nil = ""
  TaskIds = {"a"}
  FileNames = {"A", "task"}
  NameOf <- OwnName
  NameRank <- MCRank
  ClockId <- NoClockIds
  RawPaths = {"", "./in", "out_a"}
  Paths = {"in", "out_a"}
  NormalForm <- MCNormalForm
  DefaultResult <- MCDefault
  Ips = {"h1"}
  Ports = {1}
  Submits <- SubmitA
  Workers = {w1}
  MaxClock = 2
  MaxFaults = 0
  MaxReceiverCrashes = 1
  MaxWorkerCrashes = 0
CHECK_DEADLOCK FALSE
INVARIANTS
  AcceptedIsQueued
