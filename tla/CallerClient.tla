---------------------------- MODULE CallerClient ----------------------------
(***************************************************************************)
(* The client library (caller_client_cpp, RunClient).  A call writes its   *)
(* request below the shared root, binds the port replies go to, submits    *)
(* its task, again when no reply comes, waits for "accepted" and then for  *)
(* the end of the task, and reads the result.  Every wait has a deadline;  *)
(* time passes in units that the timeouts are multiples of.                *)
(***************************************************************************)
EXTENDS QueueDir

CONSTANTS
  Calls,            \* the calls made, of any number of programs
  Config,           \* ClientConfig: what each call is told
  DefaultRequest,   \* BuildRequestRelPath: file name to path
  ClientResult,     \* BuildResultRelPath: file name to path
  Foreign,          \* datagrams that others may send to the reply ports
  Retries,          \* submit_retry_count, or 0 where it is negative
  AcceptedTimeout,  \* accepted_timeout_ms, or 0 where it is negative
  DoneTimeout,      \* done_timeout_ms, likewise
  MaxCallFaults     \* bound: calls killed, and system calls of theirs that fail

Templates == {"none", "good", "bad"}

ASSUME CallAssumption ==
  /\ Config \in [Calls -> [task : TaskIds, request : RawPaths, result : RawPaths,
                           template : Templates, at : Addresses]]
  /\ DefaultRequest \in [FileNames -> Paths]
  /\ ClientResult \in [FileNames -> Paths]
  /\ Nil \in RawPaths
  /\ MaxCallFaults \in Nat

ASSUME TimeoutAssumption == {Retries, AcceptedTimeout, DoneTimeout} \subseteq Nat

ASSUME ForeignAssumption ==
  Foreign \subseteq [to : Addresses, task : TaskIds \cup {Nil},
                     result : Paths \cup {Nil},
                     status : {"accepted", "success", "failed", "other"}]

VARIABLES
  call,       \* the calls: where each is, and its local variables
  request,    \* the request files
  submitted,  \* the datagrams handed to the network
  callFaults

callVars == <<call, request, submitted, callFaults>>

Sockets == {"send", "waitReply", "waitDone"}

Outcomes == {"none", "invalid", "write", "bind", "sendto", "noReply", "noDone",
             "failed", "unexpected", "noResult", "ok", "killed"}

(* waited is the time spent in waits, which no variable of the code holds. *)
Fresh == [pc |-> "start", attempt |-> 0, left |-> 0, waited |-> 0, path |-> Nil,
          status |-> "none", read |-> "absent", outcome |-> "none"]

RequestTexts == {"absent", "empty", "good", "bad"}

CallStates ==
  [pc : Sockets \cup {"start", "openRequest", "closeRequest", "bind", "conclude", "over"},
   attempt : 0 .. Retries + 1, left : Nat, waited : Nat, path : Paths \cup {Nil},
   status : {"none", "accepted", "success", "failed", "other"},
   read : ResultTexts, outcome : Outcomes]

CallTypeOK ==
  /\ call \in [Calls -> CallStates]
  /\ request \in [Paths -> RequestTexts]
  /\ submitted \subseteq [task : TaskIds, input : Paths, result : Paths,
                          reply : Addresses, peer : Addresses]
  /\ callFaults \in 0 .. MaxCallFaults

CallInit ==
  /\ call = [c \in Calls |-> Fresh]
  /\ request = [p \in Paths |-> "absent"]
  /\ submitted = {}
  /\ callFaults = 0

-----------------------------------------------------------------------------
(* What a call makes of its configuration.                                 *)
Task(c) == Config[c].task

RequestPath(c) ==
  IF Config[c].request = Nil THEN DefaultRequest[NameOf[Task(c)]]
                             ELSE NormalForm[Config[c].request]

ResultPath(c) ==
  IF Config[c].result = Nil THEN ClientResult[NameOf[Task(c)]]
                            ELSE NormalForm[Config[c].result]

Datagram(c) ==
  [task |-> Task(c), input |-> RequestPath(c), result |-> ResultPath(c),
   reply |-> Config[c].at, peer |-> Config[c].at]

(* A system call of the client works, or fails as MaxCallFaults allows.    *)
CallWorks == callFaults' = callFaults

CallFails == callFaults < MaxCallFaults /\ callFaults' = callFaults + 1

Become(c, value) == call' = [call EXCEPT ![c] = value]

CallGoto(c, pc) == Become(c, [call[c] EXCEPT !.pc = pc])

End(c, outcome) == Become(c, [call[c] EXCEPT !.pc = "over", !.outcome = outcome])

-----------------------------------------------------------------------------
(* The request file and the socket.                                        *)

Refuse(c) ==
  /\ call[c].pc = "start"
  /\ RequestPath(c) = Nil \/ ResultPath(c) = Nil \/ Config[c].template = "none"
  /\ End(c, "invalid")
  /\ UNCHANGED <<request, submitted, callFaults>>

Start(c) ==
  /\ call[c].pc = "start"
  /\ RequestPath(c) # Nil /\ ResultPath(c) # Nil /\ Config[c].template # "none"
  /\ Become(c, [call[c] EXCEPT !.pc = "openRequest", !.path = ResultPath(c)])
  /\ UNCHANGED <<request, submitted, callFaults>>

(* As on the other side, a file is empty from its opening to its closing,  *)
(* and a loss at the close may go unreported.                              *)
OpenRequest(c) ==
  /\ call[c].pc = "openRequest"
  /\ \/ /\ CallWorks
        /\ request' = [request EXCEPT ![RequestPath(c)] = "empty"]
        /\ CallGoto(c, "closeRequest")
     \/ CallFails /\ End(c, "write") /\ UNCHANGED request
  /\ UNCHANGED submitted

CloseRequest(c) ==
  /\ call[c].pc = "closeRequest"
  /\ \/ /\ CallWorks
        /\ request' = [request EXCEPT ![RequestPath(c)] = Config[c].template]
        /\ CallGoto(c, "bind")
     \/ CallFails /\ (End(c, "write") \/ CallGoto(c, "bind")) /\ UNCHANGED request
  /\ UNCHANGED submitted

(* The port is given to one socket of a host at a time.                    *)
Bound(at) == \E c \in Calls : call[c].pc \in Sockets /\ Config[c].at = at

Bind(c) ==
  /\ call[c].pc = "bind"
  /\ \/ CallWorks /\ ~Bound(Config[c].at) /\ CallGoto(c, "send")
     \/ CallWorks /\ Bound(Config[c].at) /\ End(c, "bind")
     \/ CallFails /\ End(c, "bind")
  /\ UNCHANGED <<request, submitted>>

SendAll(c) ==
  /\ call[c].pc = "send"
  /\ \/ /\ CallWorks
        /\ submitted' = submitted \cup {Datagram(c)}
        /\ Become(c, [call[c] EXCEPT !.pc = "waitReply", !.attempt = call[c].attempt + 1,
                                     !.left = AcceptedTimeout])
     \/ CallFails /\ End(c, "sendto") /\ UNCHANGED submitted
  /\ UNCHANGED request

-----------------------------------------------------------------------------
(* The waits.  A datagram sent to a port may arrive whenever the port is   *)
(* bound, again and again, or never.                                       *)

(* Variant: whoever it is meant for, a reply is a reply.                   *)
HeardAny(c) == {r \in sent \cup Foreign : call[c].left > 0 /\ r.to = Config[c].at}

(* WaitForReply skips replies that name another task; one that names none  *)
(* is taken.  After the deadline nothing is.                               *)
Heard(c) ==
  {r \in sent \cup Foreign :
     call[c].left > 0 /\ r.to = Config[c].at /\ r.task \in {Nil, Task(c)}}

Waiting(c) == call[c].pc \in {"waitReply", "waitDone"}

Pass(c) ==
  /\ Waiting(c)
  /\ call[c].left > 0
  /\ Become(c, [call[c] EXCEPT !.left = call[c].left - 1, !.waited = call[c].waited + 1])
  /\ UNCHANGED <<request, submitted, callFaults>>

(* Variant: one attempt too many.                                          *)
RetryOnceMore(c, path) ==
  Become(c, [call[c] EXCEPT !.path = path, !.left = 0,
               !.pc = IF call[c].attempt <= Retries + 1 THEN "send" ELSE "over",
               !.outcome = IF call[c].attempt <= Retries + 1 THEN "none" ELSE "noReply"])

(* Another attempt, if there is one left.                                  *)
Retry(c, path) ==
  Become(c, [call[c] EXCEPT !.path = path, !.left = 0,
               !.pc = IF call[c].attempt <= Retries THEN "send" ELSE "over",
               !.outcome = IF call[c].attempt <= Retries THEN "none" ELSE "noReply"])

(* The path in a reply replaces the one asked for.                         *)
PathOf(c, r) == IF r.result = Nil THEN call[c].path ELSE r.result

(* A reply while the submission waits: "accepted" starts the wait for the  *)
(* end, a final status ends the waits, anything else submits again.        *)
TakeReply(c) ==
  /\ call[c].pc = "waitReply"
  /\ \E r \in Heard(c) :
       \/ /\ r.status = "accepted"
          /\ Become(c, [call[c] EXCEPT !.pc = "waitDone", !.left = DoneTimeout,
                                       !.path = PathOf(c, r)])
       \/ /\ Terminal(r.status)
          /\ Become(c, [call[c] EXCEPT !.pc = "conclude", !.left = 0,
                                       !.path = PathOf(c, r), !.status = r.status])
       \/ r.status = "other" /\ Retry(c, PathOf(c, r))
  /\ UNCHANGED <<request, submitted, callFaults>>

(* Variant: the wait has no deadline of its own.                           *)
WaitEndsOnFailure(c) == call[c].left > 0 /\ CallFails

(* The deadline, or select or recvfrom failing before it.                  *)
WaitEnds(c) ==
  \/ call[c].left = 0 /\ CallWorks
  \/ call[c].left > 0 /\ CallFails

ReplyTimeout(c) ==
  /\ call[c].pc = "waitReply"
  /\ WaitEnds(c)
  /\ Retry(c, call[c].path)
  /\ UNCHANGED <<request, submitted>>

(* Variant: every "accepted" starts the wait for the end once more.        *)
TakeDoneRestart(c) ==
  /\ call[c].pc = "waitDone"
  /\ \E r \in Heard(c) :
       \/ /\ r.status = "accepted"
          /\ Become(c, [call[c] EXCEPT !.left = DoneTimeout])
       \/ /\ r.status # "accepted"
          /\ Become(c, [call[c] EXCEPT !.pc = "conclude", !.left = 0,
                                       !.path = PathOf(c, r), !.status = r.status])
  /\ UNCHANGED <<request, submitted, callFaults>>

(* WaitForDone: "accepted" is skipped, and does not move the deadline.     *)
TakeDone(c) ==
  /\ call[c].pc = "waitDone"
  /\ \E r \in Heard(c) :
       /\ r.status # "accepted"
       /\ Become(c, [call[c] EXCEPT !.pc = "conclude", !.left = 0,
                                    !.path = PathOf(c, r), !.status = r.status])
  /\ UNCHANGED <<request, submitted, callFaults>>

(* Variant: when the wait is over a result that is there is good enough.   *)
DoneTimedOutReads(c) ==
  /\ call[c].pc = "waitDone"
  /\ WaitEnds(c)
  /\ LET text == result[call[c].path]
     IN  Become(c, [call[c] EXCEPT !.pc = "over", !.left = 0, !.read = text,
                      !.outcome = IF text \in TaskIds THEN "ok" ELSE "noDone"])
  /\ UNCHANGED <<request, submitted>>

DoneTimedOut(c) ==
  /\ call[c].pc = "waitDone"
  /\ WaitEnds(c)
  /\ Become(c, [call[c] EXCEPT !.pc = "over", !.left = 0, !.outcome = "noDone"])
  /\ UNCHANGED <<request, submitted>>

-----------------------------------------------------------------------------
(* The socket is closed; what the reply said, and the result file, decide. *)

ReadResult(c) ==
  LET text == result[call[c].path]
  IN  Become(c, [call[c] EXCEPT !.pc = "over", !.read = text,
                   !.outcome = IF text \in TaskIds THEN "ok" ELSE "noResult"])

Conclude(c) ==
  /\ call[c].pc = "conclude"
  /\ \/ call[c].status = "failed" /\ End(c, "failed")
     \/ call[c].status \notin {"failed", "success"} /\ End(c, "unexpected")
     \/ call[c].status = "success" /\ ReadResult(c)
  /\ UNCHANGED <<request, submitted, callFaults>>

(* The program that makes the call is killed.                              *)
Kill(c) ==
  /\ call[c].pc \notin {"start", "over"}
  /\ CallFails
  /\ Become(c, [call[c] EXCEPT !.pc = "over", !.left = 0, !.outcome = "killed"])
  /\ UNCHANGED <<request, submitted>>

-----------------------------------------------------------------------------
CallStep(c) ==
  \/ Refuse(c) \/ Start(c) \/ OpenRequest(c) \/ CloseRequest(c) \/ Bind(c)
  \/ SendAll(c) \/ Pass(c) \/ TakeReply(c) \/ ReplyTimeout(c)
  \/ TakeDone(c) \/ DoneTimedOut(c) \/ Conclude(c)

CallNext == \E c \in Calls : CallStep(c) \/ Kill(c)

(* The client with any service: results come and go as they may, and the   *)
(* replies are those of Foreign.                                           *)
Elsewhere ==
  /\ \E p \in Paths, t \in ResultTexts : result' = [result EXCEPT ![p] = t]
  /\ UNCHANGED <<clock, dir, job, state, sent, faults, callVars>>

InitAnywhere == QueueInit /\ CallInit

ClientSpec ==
  /\ InitAnywhere
  /\ [][(CallNext /\ UNCHANGED shared) \/ Elsewhere]_<<shared, callVars>>

(* A call that was made goes on; that one is made is not assumed.          *)
CallFairness ==
  \A c \in Calls :
    WF_<<shared, callVars>>(call[c].pc # "start" /\ CallStep(c) /\ UNCHANGED shared)

FairClientSpec == ClientSpec /\ CallFairness

-----------------------------------------------------------------------------
(* The types of the client's variables, and of what it reads.              *)
ClientTypeOK ==
  result \in [Paths -> ResultTexts] /\ sent \subseteq Replies /\ CallTypeOK

Budget == (Retries + 1) * AcceptedTimeout + DoneTimeout

(* However many replies come, of whatever task and status, the waits of a  *)
(* call take no longer than its attempts and the wait for the end allow.   *)
CallBound == \A c \in Calls : call[c].waited + call[c].left <= Budget

(* A call that was made comes to an end: a flood of replies to others, or  *)
(* of "accepted", does not keep it.                                        *)
CallsEnd == \A c \in Calls : call[c].pc = "openRequest" ~> call[c].pc = "over"

-----------------------------------------------------------------------------
(* What is true of every state and carries CallBound from one to the next. *)

(* The time the first n attempts may wait.                                 *)
Allowance(n) == n * AcceptedTimeout

(* What a call has waited and may still wait, for where it is.             *)
Accounted(k) ==
  /\ k.pc \in {"start", "openRequest", "closeRequest", "bind"}
       => k.attempt = 0 /\ k.left = 0 /\ k.waited = 0
  /\ k.pc = "send"
       => k.attempt <= Retries /\ k.left = 0 /\ k.waited <= Allowance(k.attempt)
  /\ k.pc = "waitReply"
       => k.waited + k.left <= Allowance(k.attempt)
  /\ k.pc = "waitDone"
       => k.waited + k.left <= Allowance(k.attempt) + DoneTimeout
  /\ k.pc \in {"conclude", "over"}
       => k.left = 0 /\ k.waited <= Allowance(k.attempt) + DoneTimeout

(* A call that has gone past Start has passed its checks: it has paths to  *)
(* write to and to read from, and a text to write.                         *)
Validated(c, k) ==
  k.pc \in Sockets \cup {"openRequest", "closeRequest", "bind", "conclude"}
    => /\ RequestPath(c) \in Paths /\ ResultPath(c) \in Paths /\ k.path \in Paths
       /\ Config[c].template # "none"

ClientInv ==
  ClientTypeOK /\ \A c \in Calls : Accounted(call[c]) /\ Validated(c, call[c])

=============================================================================
