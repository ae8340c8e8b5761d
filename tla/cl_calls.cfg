\* Replies of every kind, any number of them, at any time.
SPECIFICATION FairClientSpec
CONSTANTS
  Nil = ""
  TaskIds = {"a", "b"}
  FileNames = {"A", "B"}
  NameOf <- MCName
  NameRank <- MCRank
  ClockId <- MCClock
  RawPaths = {"", "../up", "p"}
  Paths = {"p", "q"}
  NormalForm <- MCNormalForm
  DefaultResult <- MCResult
  Ips = {"h1"}
  Ports = {1}
  MaxClock = 0
  MaxFaults = 0
  Calls = {1, 2}
  Config <- MCConfig
  DefaultRequest <- MCRequest
  ClientResult <- MCResult
  Foreign <- MCForeign
  Retries = 2
  AcceptedTimeout = 2
  DoneTimeout = 3
  MaxCallFaults = 2
CHECK_DEADLOCK FALSE
INVARIANTS
  ClientTypeOK
  CallBound
PROPERTIES
  CallsEnd
