------------------------------ MODULE QueueDir ------------------------------
(***************************************************************************)
(* The directory tree through which the UDP receiver and the inference     *)
(* workers exchange tasks (src/udp_service.cpp, src/service_protocol.cpp): *)
(*                                                                         *)
(*   pending/ working/ done/ failed/   one file per job, moved by rename   *)
(*   state/<task>.json                 the status of a task                *)
(*   <shared root>/<result path>       the results                         *)
(*                                                                         *)
(* A file is written by opening it, which empties it, and closing it, which*)
(* puts the buffered text in it: two steps, that other processes may come  *)
(* between.  A move (rename) is one step.                                  *)
(***************************************************************************)
EXTENDS Integers, FiniteSets

CONSTANTS
  Nil,            \* the empty string: a field that is not there
  TaskIds,        \* task ids, those sent by clients and those made from the clock
  FileNames,      \* what is left of a task id once it is made a file name
  NameOf,         \* SanitizeFileName: task id, or Nil, to file name
  NameRank,       \* the order of file names, as std::sort has it
  ClockId,        \* the task id made from a reading of the clock
  RawPaths,       \* paths as they come in a request
  Paths,          \* paths below the shared root
  NormalForm,     \* NormalizeRelativePath: raw path to path, or Nil when refused
  DefaultResult,  \* the result path given to a task that names none
  Ips, Ports,     \* the hosts of clients, and the ports replies go to
  MaxClock,       \* bound: readings of the clock
  MaxFaults       \* bound: file operations that fail

Ticks == 1 .. MaxClock

ASSUME NameAssumption ==
  /\ Nil \notin TaskIds
  /\ NameOf \in [TaskIds \cup {Nil} -> FileNames]
  /\ NameRank \in [FileNames -> Int]

ASSUME ClockAssumption ==
  /\ MaxClock \in Nat
  /\ MaxFaults \in Nat
  /\ ClockId \in [Ticks -> TaskIds]

ASSUME PathAssumption ==
  /\ Nil \notin Paths
  /\ NormalForm \in [RawPaths -> Paths \cup {Nil}]
  /\ DefaultResult \in [FileNames -> Paths]

ASSUME TextAssumption == {"absent", "empty"} \cap TaskIds = {}

ASSUME AddressAssumption == Nil \notin Ips /\ Ports \subseteq Nat \ {0}

VARIABLES
  clock,    \* the last reading of the clock; no two readings are equal
  dir,      \* the directory each job file is in
  job,      \* the text of each job file, as ParseSubmitRequest sees it
  state,    \* the state files
  result,   \* the result files: the task whose result they hold
  sent,     \* the replies handed to the network
  faults    \* file operations that have failed so far

shared == <<clock, dir, job, state, result, sent, faults>>

-----------------------------------------------------------------------------
(* What the files hold.                                                    *)

(* A job file is <name of the task>_<clock>.json.                          *)
Jobs == [name : FileNames, at : Ticks]

NoJob == [name |-> Nil, at |-> 0]

Dirs == {"none", "pending", "working", "done", "failed"}

(* Where replies go; 0 stands for every port that is not positive.         *)
Addresses == [ip : Ips, port : Ports]

NoAddress == [ip |-> Nil, port |-> 0]

(* A request as the receiver queues it, and what an empty file parses to.  *)
Requests == [task : TaskIds, input : Paths, result : Paths, client : Addresses]

NoRequest == [task |-> Nil, input |-> Nil, result |-> Nil, client |-> NoAddress]

Statuses == {"accepted", "pending", "working", "success", "failed"}

TaskStates == [req : Requests \cup {NoRequest}, status : Statuses]

Absent == [req |-> NoRequest, status |-> "absent"]

Empty == [req |-> NoRequest, status |-> "empty"]

(* What a result file holds: the task that wrote it.                       *)
ResultTexts == TaskIds \cup {"absent", "empty"}

Replies == [to : Addresses, task : TaskIds \cup {Nil}, result : Paths \cup {Nil},
            status : {"accepted", "success", "failed"}]

QueueTypeOK ==
  /\ clock \in 0 .. MaxClock
  /\ dir \in [Jobs -> Dirs]
  /\ job \in [Jobs -> Requests \cup {NoRequest}]
  /\ state \in [FileNames -> TaskStates \cup {Absent, Empty}]
  /\ result \in [Paths -> ResultTexts]
  /\ sent \subseteq Replies
  /\ faults \in 0 .. MaxFaults

QueueInit ==
  /\ clock = 0
  /\ dir = [j \in Jobs |-> "none"]
  /\ job = [j \in Jobs |-> NoRequest]
  /\ state = [n \in FileNames |-> Absent]
  /\ result = [p \in Paths |-> "absent"]
  /\ sent = {}
  /\ faults = 0

-----------------------------------------------------------------------------
(* The operations both processes are built from.                           *)

(* A file operation works, or fails as MaxFaults allows.                   *)
Works == faults' = faults

Fails == faults < MaxFaults /\ faults' = faults + 1

StateFile(task) == NameOf[task]

(* ReadTaskState finds a state: the file has text and the text a task id.  *)
ReadTaskState(task) == state[StateFile(task)].req.task # Nil

(* WriteTaskState, first step: the file is opened, and so emptied.         *)
OpenStateFile(task) == state' = [state EXCEPT ![StateFile(task)] = Empty]

(* WriteTaskState, second step: the file is closed, and so filled.  Of two *)
(* writers the last to close wins: its text starts the file, and the       *)
(* parser takes the first of two equal keys.                               *)
CloseStateFile(st) ==
  state' = [state EXCEPT ![StateFile(st.req.task)] = st]

(* BuildTaskReplyJson and SendUdpMessage; without an address nothing goes. *)
Send(reply) == sent' = IF reply.to = NoAddress THEN sent ELSE sent \cup {reply}

Terminal(status) == status \in {"success", "failed"}

In(d) == {j \in Jobs : dir[j] = d}

=============================================================================
