\* Datagrams without id, result path or reply address, or with a path that is refused;
\* a kill of the receiver and two failing file operations.
SPECIFICATION Spec
CONSTANTS
  Nil = ""
  TaskIds = {"a", "1", "2", "3"}
  FileNames = {"A", "1", "2", "3", "task"}
  NameOf <- OwnName
  NameRank <- MCRank
  ClockId <- ClockIds
  RawPaths = {"", "./in", "../up", "out_a"}
  Paths = {"in", "out_a"}
  NormalForm <- MCNormalForm
  DefaultResult <- MCDefault
  Ips = {"h1", "h2"}
  Ports = {1, 2}
  Submits <- SubmitOdd
  Workers = {w1}
  MaxClock = 3
  MaxFaults = 2
  MaxReceiverCrashes = 1
  MaxWorkerCrashes = 0
CHECK_DEADLOCK FALSE
INVARIANTS
  UnqueuedBound
  ReplyNamesItsTask
  QuiescentStatus
