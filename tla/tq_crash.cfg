\* One task, two workers; kills of either process and failing file operations.
SPECIFICATION Spec
CONSTANTS
  Nil = ""
  TaskIds = {"a"}
  FileNames = {"A", "task"}
  NameOf <- OwnName
  NameRank <- MCRank
  ClockId <- NoClockIds
  RawPaths = {"", "./in", "out_a"}
  Paths = {"in", "out_a"}
  NormalForm <- MCNormalForm
  DefaultResult <- MCDefault
  Ips = {"h1"}
  Ports = {1}
  Submits <- SubmitA
  Workers = {w1, w2}
  MaxClock = 2
  MaxFaults = 1
  MaxReceiverCrashes = 1
  MaxWorkerCrashes = 1
SYMMETRY AllWorkers
CHECK_DEADLOCK FALSE
INVARIANTS
  TypeOK
  OneOwner
  SuccessEarned
  StrandedBound
  QuiescentStatus
  SuccessHasResult
PROPERTIES
  ResultKept
  LeaseSpec
