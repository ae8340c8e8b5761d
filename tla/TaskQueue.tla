----------------------------- MODULE TaskQueue ------------------------------
(***************************************************************************)
(* The service: one receiver and the workers around one queue directory.   *)
(***************************************************************************)
EXTENDS Receiver, Worker

vars == <<shared, rxVars, wkVars>>

Init == QueueInit /\ RxInit /\ WkInit

Next ==
  \/ ReceiverNext /\ UNCHANGED wkVars
  \/ WorkerNext /\ UNCHANGED rxVars

Spec == Init /\ [][Next]_vars

(* systemd restarts a process that ended, and the operating system lets    *)
(* each run: the receiver ends what it began, each worker goes on.  That a *)
(* datagram comes, or that a process is killed, is never assumed.          *)
Fairness ==
  /\ WF_vars(Handle /\ UNCHANGED wkVars)
  /\ \A w \in Workers : WF_vars(Step(w) /\ UNCHANGED rxVars)

FairSpec == Spec /\ Fairness

-----------------------------------------------------------------------------
(* Words the properties are said in.                                       *)

Owns(w, j) == wk[w].pc \in Owning /\ wk[w].job = j

Leases(w, j) == wk[w].pc \in Leasing /\ wk[w].job = j

(* A job file left in working/ that no process will ever look at again.    *)
Stranded(j) == dir[j] = "working" /\ \A w \in Workers : ~Leases(w, j)

Posted(j) == dir[j] # "none"

HasJob(name) == \E j \in Jobs : j.name = name /\ Posted(j)

HasText(name) == \E j \in Jobs : j.name = name /\ job[j] # NoRequest

ToldAccepted(name) == \E r \in sent : r.status = "accepted" /\ NameOf[r.task] = name

(* The result file has its text, or is about to get it.                    *)
Kept(p) ==
  \/ result[p] \in TaskIds
  \/ \E w \in Workers : wk[w].pc = "closeResult" /\ wk[w].req.result = p

(* Nothing is being done and nothing waits.                                *)
Quiet ==
  /\ rx.pc = "recv"
  /\ \A w \in Workers : wk[w].pc = "glob"
  /\ In("pending") = {}

(* A state file that says nothing to rest on.                              *)
Unsettled(n) == state[n].status \in {"empty", "accepted", "working"}

Calm == rxCrashes + wkCrashes + faults = 0

WorkersCalm == wkCrashes + faults = 0

Losses == rxCrashes + wkCrashes + faults

(* A datagram asked that the end of this task be told to this address, if  *)
(* the clock has been read now times.                                      *)
AskedFor(task, to, now) ==
  \E m \in Submits :
    /\ to = ReplyAddress(m)
    /\ task \in IF m.task = Nil THEN {ClockId[i] : i \in 1 .. now} ELSE {m.task}

DoneReplies == {r \in sent : Terminal(r.status)}

-----------------------------------------------------------------------------
(* Every variable holds a value of its kind.                               *)
TypeOK == QueueTypeOK /\ RxTypeOK /\ WkTypeOK

(* Two workers never process the same job, whatever the lists they took    *)
(* from pending/ and however old these are: the rename of RunWorkerLoop    *)
(* lets one of them through.                                               *)
OneOwner ==
  \A v, w \in Workers : v # w => \A j \in Jobs : ~(Owns(v, j) /\ Owns(w, j))

(* A result that was written is emptied again only for another job with    *)
(* the same result path: the job that wrote it is not run once more, not   *)
(* even when its worker was killed before the file was moved away.         *)
ResultKept ==
  [][\A p \in Paths : result[p] \in TaskIds /\ result'[p] \notin TaskIds =>
       \E j, k \in Jobs : j # k /\ job[j].result = p /\ job[k].result = p]_vars

(* A client told "success" was told so after a worker saw a job of that    *)
(* very task through: its file is in done/, or the move there failed.  It  *)
(* takes names that tell tasks apart.                                      *)
SuccessEarned ==
  \A r \in sent : r.status = "success" =>
    \E j \in Jobs :
      /\ job[j].task = r.task
      /\ dir[j] = "done" \/ (dir[j] = "working" /\ faults > 0)

(* Nothing recovers working/ at a start, so jobs are stranded there; but   *)
(* each costs the kill of a worker or a failed move.                       *)
StrandedBound ==
  Cardinality({j \in Jobs : Stranded(j)}) <= wkCrashes + faults

(* At rest the status of a task is the receiver's "pending" or a final     *)
(* one: a file that is empty, "accepted" or "working" costs a kill or a    *)
(* failed file operation.                                                  *)
QuiescentStatus ==
  Quiet => Cardinality({n \in FileNames : Unsettled(n)}) <= Losses

(* A task the service has accepted, at first or again, has a job file with *)
(* its text.  That there is no file costs the kill of the receiver or two  *)
(* failed file operations: of one the reply, or the state file, tells.     *)
(* That the file is empty costs a kill or one failure: that of the close   *)
(* of the job file, of which nothing need tell.                            *)
UnqueuedBound ==
  Cardinality({n \in FileNames : ToldAccepted(n) /\ ~HasJob(n)})
    + Cardinality({n \in FileNames : ToldAccepted(n) /\ ~HasText(n)})
    <= 2 * rxCrashes + faults

(* The result a client was told of is there, unless it is just now being   *)
(* written once more; it takes the kill of a worker, or a failed write, to *)
(* lose it.                                                                *)
SuccessHasResult ==
  WorkersCalm => \A r \in sent : r.status = "success" => Kept(r.result)

(* A reply goes to an address that submitted the very task it names, under *)
(* its id or, without one, under an id made from the clock: the worker     *)
(* takes the id from the job file and the address from the state file.     *)
ReplyNamesItsTask == \A r \in sent : AskedFor(r.task, r.to, clock)

(* A job that waits is dealt with: it ends in done/ or failed/, or is left *)
(* in working/ by a worker that was killed or could not move it.           *)
JobsDrain ==
  \A j \in Jobs :
    dir[j] = "pending" ~> (dir[j] \in {"done", "failed"} \/ Stranded(j))

(* The queue of directories is the lease of WorkLease.                     *)
LeaseOf(w) == IF wk[w].pc \in Leasing THEN wk[w].job ELSE NoJob

Lease == INSTANCE WorkLease WITH
  None     <- NoJob,
  waiting  <- In("pending"),
  lease    <- [w \in Workers |-> LeaseOf(w)],
  finished <- In("done") \cup In("failed"),
  stranded <- {j \in Jobs : Stranded(j)}

LeaseSpec == Lease!Spec

-----------------------------------------------------------------------------
(* What is true of every state and carries OneOwner and LeaseSpec from one *)
(* state to the next.                                                      *)

(* A job that is to get a name still finds a reading of the clock.         *)
ClockRoom ==
  \/ rx.pc = "openJob"
  \/ rx.pc \in {"openState", "closeState"} /\ rx.status = "accepted"
  => clock < MaxClock

(* A worker that is past ProcessTask has its outcome.                      *)
OutcomeKnown ==
  \A w \in Workers :
    wk[w].pc \in {"archive", "openFinal", "closeFinal", "reply"} => Terminal(wk[w].st.status)

(* The next reading of the clock makes the name of no job there is.        *)
FreshNames == \A j \in Jobs : Posted(j) => j.at <= clock

(* The job of a worker was taken out of pending/, and until it is archived *)
(* it is in working/.                                                      *)
OwnedTaken ==
  \A w \in Workers :
    /\ wk[w].pc \in Owning => wk[w].job \in Jobs /\ dir[wk[w].job] \notin {"none", "pending"}
    /\ wk[w].pc \in Leasing => dir[wk[w].job] = "working"

TypeInv == TypeOK /\ ClockRoom /\ OutcomeKnown

Inv == TypeInv /\ FreshNames /\ OwnedTaken /\ OneOwner

-----------------------------------------------------------------------------
(* What carries StrandedBound, ReplyNamesItsTask and SuccessEarned.  The   *)
(* last two need names that tell tasks apart.                              *)

NamesApart ==
  \A s, t \in TaskIds \cup {Nil} : NameOf[s] = NameOf[t] => s = t

(* The requests that the datagrams become.                                 *)
AskedBy(now) ==
  UNION {{Completed(m, i) : i \in IF m.task = Nil THEN 1 .. now ELSE {0}} : m \in Submits}

Asked(req) == req \in AskedBy(clock)

RequestsAsked ==
  /\ rx.req # NoRequest => Asked(rx.req)
  /\ \A j \in Jobs : job[j] # NoRequest => Asked(job[j])
  /\ \A n \in FileNames : state[n].req # NoRequest => Asked(state[n].req)
  /\ \A w \in Workers :
       /\ wk[w].req # NoRequest => Asked(wk[w].req)
       /\ wk[w].st.req # NoRequest => Asked(wk[w].st.req)

(* A reply is made of two requests for one task: the address is that of the*)
(* one, the result path that of the other.                                 *)
ReplyAsked(r, now) ==
  \E p, q \in AskedBy(now) :
    p.client = r.to /\ p.task = r.task /\ q.task = r.task /\ q.result = r.result

RepliesAsked == \A r \in sent : ReplyAsked(r, clock)

(* A state file is about the task of its name, and the state a worker goes *)
(* on with about the task of its job.                                      *)
StatesInPlace ==
  /\ \A n \in FileNames : state[n].req # NoRequest => NameOf[state[n].req.task] = n
  /\ \A w \in Workers :
       wk[w].pc \in Owning \ {"load"} => wk[w].st.req.task = wk[w].req.task

(* A job file is filled once, and a worker that read it filled has what it *)
(* still holds.                                                            *)
JobsKept ==
  /\ \A j \in Jobs : ~Posted(j) => job[j] = NoRequest
  /\ rx.pc = "closeJob" => rx.job \in Jobs /\ Posted(rx.job) /\ job[rx.job] = NoRequest
  /\ \A w \in Workers :
       wk[w].pc \in Owning /\ wk[w].req # NoRequest => job[wk[w].job] = wk[w].req

(* The tasks a job of which was seen through; nobody can undo that.        *)
EarnedTasks ==
  {t \in TaskIds : \E j \in Jobs :
     job[j].task = t /\ (dir[j] = "done" \/ (Stranded(j) /\ faults > 0))}

(* Only a request that was read succeeds, and "success" is in no worker    *)
(* past the archive, state file or reply unless it was earned.             *)
SuccessKnown ==
  /\ \A w \in Workers :
       /\ wk[w].pc = "closeResult" => wk[w].req # NoRequest
       /\ wk[w].st.status = "success" =>
            /\ wk[w].req # NoRequest
            /\ wk[w].pc = "archive" \/ (wk[w].pc \in Owning \ Leasing
                                        /\ wk[w].req.task \in EarnedTasks)
  /\ \A n \in FileNames : state[n].status = "success" => state[n].req.task \in EarnedTasks
  /\ \A r \in sent : r.status = "success" => r.task \in EarnedTasks

(* A worker that still has the result of its job to write.                 *)
Unwritten == {"load", "openWorking", "closeWorking", "process", "closeResult"}

ToWrite(w, j) == wk[w].pc \in Unwritten /\ wk[w].job = j

(* A result is the work of a job that nobody will run again.               *)
WrittenBy(j, p) ==
  /\ job[j].result = p
  /\ dir[j] \notin {"none", "pending"}
  /\ \A w \in Workers : ~ToWrite(w, j)

ResultsWritten ==
  /\ \A p \in Paths : result[p] \in TaskIds => \E j \in Jobs : WrittenBy(j, p)
  /\ \A w \in Workers : wk[w].pc = "closeResult" => wk[w].req # NoRequest

(* A job is filed under the name of its task, and the receiver queues no   *)
(* empty request.                                                          *)
JobNames ==
  /\ \A j \in Jobs : job[j] # NoRequest => NameOf[job[j].task] = j.name
  /\ rx.pc = "closeJob" => rx.job.name = NameOf[rx.req.task]
  /\ rx.pc # "recv" => rx.req # NoRequest

(* The receiver is still to make the job of this name, or to mark its      *)
(* state, for it could not be made.                                        *)
RxQueues(name) ==
  /\ name = NameOf[rx.req.task]
  /\ \/ rx.pc \in {"openJob", "closeJob"}
     \/ rx.pc \in {"openState", "closeState"} /\ rx.status = "failed"

(* A name without a text that "accepted" was said of, or will be: by the   *)
(* receiver, that saw nothing wrong, or because of what the state file says*)
(* and nobody is to change.                                                *)
Unqueued(name) ==
  /\ ~HasText(name)
  /\ \/ ToldAccepted(name)
     \/ name = NameOf[rx.req.task] /\ rx.status = "pending"
     \/ state[name].req # NoRequest /\ state[name].status # "failed" /\ ~RxQueues(name)

(* A failure that was seen and that the state file is still to tell of.    *)
Untold == IF rx.pc \in {"openState", "closeState"} /\ rx.status = "failed" THEN 1 ELSE 0

QueuedBound ==
  Cardinality({n \in FileNames : Unqueued(n) /\ ~HasJob(n)})
    + Cardinality({n \in FileNames : Unqueued(n)}) + Untold
    <= 2 * rxCrashes + faults

(* No task is asked for with two result paths.                             *)
OnePathEach ==
  \A p, q \in AskedBy(MaxClock) : p.task = q.task => p.result = q.result

(* Wherever "success" is said, the result is kept.                         *)
SuccessReady ==
  WorkersCalm =>
    /\ \A w \in Workers : wk[w].st.status = "success" => Kept(wk[w].req.result)
    /\ \A n \in FileNames : state[n].status = "success" => Kept(state[n].req.result)
    /\ \A r \in sent : r.status = "success" => Kept(r.result)

AskedInv == RequestsAsked /\ StatesInPlace /\ RepliesAsked

EarnedInv == JobsKept /\ SuccessKnown

-----------------------------------------------------------------------------
(* What carries QuiescentStatus.                                           *)

(* The receiver is to write this file once more, unless it is killed or    *)
(* one of its file operations fails, and then with a status that may stay. *)
RxSettles(n) ==
  /\ n = StateFile(rx.req.task)
  /\ \/ rx.pc \in {"closeState", "openJob", "closeJob"}
     \/ rx.pc = "openState" /\ rx.status # "accepted"

(* Likewise a worker, from the time it opens the file for "working".       *)
WkSettles(w, n) ==
  /\ n = StateFile(wk[w].st.req.task)
  /\ wk[w].pc \in {"closeWorking", "process", "closeResult", "archive", "openFinal", "closeFinal"}

(* A status that tells nothing final, and nobody is about to change that.  *)
Neglected(n) ==
  /\ Unsettled(n)
  /\ ~RxSettles(n)
  /\ \A w \in Workers : ~WkSettles(w, n)

NeglectedBound == Cardinality({n \in FileNames : Neglected(n)}) <= Losses

-----------------------------------------------------------------------------
(* What the documents say and the code does not do.                        *)

(* A task whose result was announced keeps a final status.                 *)
DoneIsFinal ==
  Quiet => \A r \in DoneReplies : Terminal(state[NameOf[r.task]].status)

(* "accepted" is sent once the task is in the queue.                       *)
AcceptedIsQueued ==
  \A r \in sent : r.status = "accepted" => HasJob(NameOf[r.task])

(* A client told "accepted" is told of the end.                            *)
AcceptedGetsDone ==
  \A c \in Addresses, t \in TaskIds :
    (\E r \in sent : r.to = c /\ r.task = t /\ r.status = "accepted")
      ~> (\E r \in DoneReplies : r.to = c /\ r.task = t)

=============================================================================
