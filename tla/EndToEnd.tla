------------------------------ MODULE EndToEnd ------------------------------
(***************************************************************************)
(* Clients and service together: the calls of CallerClient, the network,   *)
(* and the receiver and the workers of TaskQueue.  What the service is     *)
(* sent is what calls have submitted, what a call may hear is what the     *)
(* service has sent, and a worker finds in the request file what a call    *)
(* has put there.                                                          *)
(***************************************************************************)
EXTENDS TaskQueue, CallerClient

ASSUME DatagramAssumption ==
  \A c \in Calls : RequestPath(c) # Nil /\ ResultPath(c) # Nil => Datagram(c) \in Submits

allVars == <<vars, callVars>>

EndToEndInit == Init /\ CallInit

-----------------------------------------------------------------------------
(* The receiver gets a datagram that was submitted, once or often.         *)
ReceiveSubmitted == \E m \in submitted : Reject(m) \/ Answer(m) \/ Begin(m)

(* ProcessTask reads the request file when it begins.                      *)
Readable(w) == wk[w].req.input # Nil /\ request[wk[w].req.input] = "good"

(* A request that can be read is processed, unless the result file cannot  *)
(* be opened; any other fails.                                             *)
Process(w) ==
  wk[w].pc = "process" =>
    IF Readable(w) THEN wk'[w].pc = "closeResult" \/ MaxFaults > 0
                   ELSE wk'[w].pc = "archive"

ServiceNext ==
  \/ (ReceiveSubmitted \/ Handle \/ RxCrash) /\ UNCHANGED wkVars
  \/ (\E w \in Workers : (Step(w) /\ Process(w)) \/ WorkerCrash(w)) /\ UNCHANGED rxVars

EndToEndNext ==
  \/ ServiceNext /\ UNCHANGED callVars
  \/ CallNext /\ UNCHANGED vars

EndToEndSpec == EndToEndInit /\ [][EndToEndNext]_allVars

-----------------------------------------------------------------------------
(* What a call reports is about its own task.                              *)

(* A call that returns a result returns that of its own task, whatever     *)
(* replies earlier calls left on their way to the same port, and however   *)
(* often the task was submitted.  It takes result paths of their own.      *)
OkIsOwn == \A c \in Calls : call[c].outcome = "ok" => call[c].read = Task(c)

(* A call that is told "success" had a job of its own task done, or seen   *)
(* through and left where it was because its file could not be moved.      *)
OkWasDone ==
  \A c \in Calls : call[c].status = "success" =>
    \E j \in Jobs : /\ job[j].task = Task(c)
                    /\ dir[j] = "done" \/ (dir[j] = "working" /\ faults > 0)

(* Where no file operation fails a call that is told "failed" gave the     *)
(* service a request that it could not process, though workers are killed. *)
FailedHasCause ==
  \A c \in Calls : call[c].outcome = "failed" => Config[c].template = "bad"

(* Calls and service together are the remote calls of RemoteCall.  What was*)
(* seen through stays so; a result of another task's is no verdict there.  *)
AskedTasks == {m.task : m \in submitted}

Verdict(c) ==
  CASE call[c].outcome = "none" -> "none"
    [] call[c].outcome = "ok" -> IF call[c].read = Task(c) THEN "result" ELSE "wrong"
    [] OTHER -> "error"

Remote == INSTANCE RemoteCall WITH
  TaskOf  <- [c \in Calls |-> Task(c)],
  asked   <- AskedTasks,
  seen    <- EarnedTasks,
  verdict <- [c \in Calls |-> Verdict(c)]

RemoteSpec == Remote!Spec

-----------------------------------------------------------------------------
(* What carries the invariants of both sides through the composition.      *)

(* Nothing is submitted that the receiver does not know how to take.       *)
SubmittedKnown == submitted \subseteq Submits

EndToEndInv == TypeInv /\ ClientInv /\ SubmittedKnown

-----------------------------------------------------------------------------
(* What carries OkIsOwn and OkWasDone.                                     *)

(* Nobody else answers for the tasks of the calls.                         *)
ForeignApart ==
  \A r \in Foreign, c \in Calls : r.to = Config[c].at => r.task \notin {Nil, Task(c)}

(* No two tasks share a result path: each path has the task it is owned by.*)
ResultsApart(owner) ==
  /\ \A q \in AskedBy(MaxClock) : owner[q.result] = q.task
  /\ \A c \in Calls : ResultPath(c) # Nil => owner[ResultPath(c)] = Task(c)

(* Results are where their owner's are, and that is where calls look.      *)
ResultsOwned(owner) ==
  /\ \A p \in Paths : result[p] \in TaskIds => result[p] = owner[p]
  /\ \A c \in Calls : call[c].path # Nil => owner[call[c].path] = Task(c)
  /\ OkIsOwn

CallsEarned == \A c \in Calls : call[c].status = "success" => Task(c) \in EarnedTasks

(* What carries RemoteSpec: no request the service has in hand or in a file*)
(* is for a task that no call has submitted, and a call ends once.         *)
Carried ==
  {rx.req} \cup {job[j] : j \in Jobs} \cup {state[n].req : n \in FileNames}
    \cup {wk[w].req : w \in Workers} \cup {wk[w].st.req : w \in Workers}

CarriedAsked == \A q \in Carried : q # NoRequest => q.task \in AskedTasks

OutcomeAtEnd == \A c \in Calls : call[c].outcome = "none" <=> call[c].pc # "over"

-----------------------------------------------------------------------------
(* What carries FailedHasCause.                                            *)

(* No two calls are about one task or write one request file.              *)
CallsApart ==
  \A c, d \in Calls : c # d =>
    Task(c) # Task(d) /\ (RequestPath(c) # Nil => RequestPath(c) # RequestPath(d))

(* The service takes the clients' paths as they are.                       *)
RequestsNormal ==
  \A c \in Calls : RequestPath(c) # Nil => NormalForm[RequestPath(c)] = RequestPath(c)

GoodTasks == {Task(c) : c \in {d \in Calls : Config[d].template = "good"}}

CallsUnharmed == callFaults = 0

(* What was submitted some call submitted, and that call has put its       *)
(* request where the datagram says, as it has while it has its socket.     *)
RequestsThere ==
  /\ \A m \in submitted : \E c \in Calls : m = Datagram(c)
  /\ \A c \in Calls :
       Datagram(c) \in submitted => call[c].pc \in Sockets \cup {"conclude", "over"}
  /\ CallsUnharmed =>
       \A c \in Calls :
         call[c].pc \in Sockets \cup {"bind"} \/ Datagram(c) \in submitted =>
           /\ RequestPath(c) # Nil
           /\ request[RequestPath(c)] = Config[c].template

(* The requests the service has were submitted, input path and all.        *)
CarriedSubmitted ==
  \A q \in Carried : q # NoRequest =>
    \E m \in submitted : q.task = m.task /\ q.input = NormalForm[m.input]

(* Wherever "failed" is said, it is not said of a request that is good.    *)
FailuresDeserved ==
  CallsUnharmed =>
    /\ rx.status # "failed" /\ (rx.pc = "reply" => rx.status = "pending")
    /\ \A w \in Workers : wk[w].st.status = "failed" => wk[w].st.req.task \notin GoodTasks
    /\ \A n \in FileNames : state[n].status = "failed" => state[n].req.task \notin GoodTasks
    /\ \A r \in sent : r.status = "failed" => r.task \notin GoodTasks
    /\ \A c \in Calls : call[c].status = "failed" => Task(c) \notin GoodTasks
    /\ FailedHasCause

-----------------------------------------------------------------------------
(* What the documents say and the code does not do.                        *)

(* A call that is told "success" finds the result.                         *)
SuccessIsReadable == \A c \in Calls : call[c].outcome # "noResult"

=============================================================================
