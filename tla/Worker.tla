------------------------------- MODULE Worker -------------------------------
(***************************************************************************)
(* The inference workers (RunWorkerLoop, ProcessTask).  Each lists the     *)
(* pending jobs, and takes them one after the other in the order of their  *)
(* names: it claims a job by moving its file, marks the task "working",    *)
(* runs the inference and writes the result, moves the job file to done/   *)
(* or failed/, writes the final status, and replies.                       *)
(***************************************************************************)
EXTENDS QueueDir

CONSTANTS
  Workers,
  MaxWorkerCrashes  \* bound: times a worker is killed and restarted

ASSUME WorkerAssumption == MaxWorkerCrashes \in Nat

VARIABLES
  wk,         \* the workers: where each is, its list, its job, request and state
  wkCrashes

wkVars == <<wk, wkCrashes>>

WkIdle == [pc |-> "glob", todo |-> {}, job |-> NoJob, req |-> NoRequest,
           st |-> Absent]

(* Where a worker is while it owns its job, and while the job is not yet   *)
(* archived.                                                               *)
Leasing == {"load", "openWorking", "closeWorking", "process", "closeResult", "archive"}

Owning == Leasing \cup {"openFinal", "closeFinal", "reply"}

WkStates == [pc : Owning \cup {"glob", "claim"}, todo : SUBSET Jobs,
             job : Jobs \cup {NoJob}, req : Requests \cup {NoRequest},
             st : TaskStates \cup {Absent}]

WkTypeOK ==
  /\ wk \in [Workers -> WkStates]
  /\ wkCrashes \in 0 .. MaxWorkerCrashes

WkInit == wk = [w \in Workers |-> WkIdle] /\ wkCrashes = 0

-----------------------------------------------------------------------------
Goto(w, pc) == wk' = [wk EXCEPT ![w].pc = pc]

(* Variant: an empty list is not renewed.                                  *)
NextJobForever(w, todo) ==
  wk' = [wk EXCEPT ![w] = [WkIdle EXCEPT !.todo = todo, !.pc = "claim"]]

(* The rest of the list, or a new one.                                     *)
NextJob(w, todo) ==
  wk' = [wk EXCEPT ![w] = [WkIdle EXCEPT !.todo = todo,
                             !.pc = IF todo = {} THEN "glob" ELSE "claim"]]

Before(j, k) ==
  \/ NameRank[j.name] < NameRank[k.name]
  \/ NameRank[j.name] = NameRank[k.name] /\ j.at < k.at

First(todo) == {j \in todo : \A k \in todo : ~Before(k, j)}

(* The list is what pending/ holds now; it is not looked at again until    *)
(* all of it has been tried.  With nothing there the worker sleeps.        *)
Glob(w) ==
  /\ wk[w].pc = "glob"
  /\ In("pending") # {}
  /\ wk' = [wk EXCEPT ![w] = [wk[w] EXCEPT !.pc = "claim", !.todo = In("pending")]]
  /\ UNCHANGED <<shared, wkCrashes>>

(* Variant: the job is copied out of pending/ or working/, wherever it is. *)
ClaimCopy(w) ==
  /\ wk[w].pc = "claim"
  /\ \E j \in First(wk[w].todo) :
       /\ dir[j] \in {"pending", "working"}
       /\ dir' = [dir EXCEPT ![j] = "working"]
       /\ wk' = [wk EXCEPT ![w] = [wk[w] EXCEPT !.pc = "load", !.todo = wk[w].todo \ {j},
                                          !.job = j, !.req = job[j]]]
  /\ UNCHANGED <<clock, job, state, result, sent, faults, wkCrashes>>

(* The rename, and the reading of the file it gave the worker.             *)
Claim(w) ==
  /\ wk[w].pc = "claim"
  /\ \E j \in First(wk[w].todo) :
       /\ dir[j] = "pending"
       /\ dir' = [dir EXCEPT ![j] = "working"]
       /\ wk' = [wk EXCEPT ![w] = [wk[w] EXCEPT !.pc = "load", !.todo = wk[w].todo \ {j},
                                          !.job = j, !.req = job[j]]]
  /\ UNCHANGED <<clock, job, state, result, sent, faults, wkCrashes>>

(* The rename fails: another worker was first, or the file system refuses. *)
SkipJob(w) ==
  /\ wk[w].pc = "claim"
  /\ \E j \in First(wk[w].todo) :
       /\ (dir[j] # "pending" /\ Works) \/ (dir[j] = "pending" /\ Fails)
       /\ NextJob(w, wk[w].todo \ {j})
  /\ UNCHANGED <<clock, dir, job, state, result, sent, wkCrashes>>

(* The state the worker goes on with is the one in the file if it can be   *)
(* read, else one made from the request.                                   *)
LoadState(w) ==
  /\ wk[w].pc = "load"
  /\ LET req   == wk[w].req
         known == IF ReadTaskState(req.task) THEN state[StateFile(req.task)].req ELSE req
     IN  wk' = [wk EXCEPT ![w] = [wk[w] EXCEPT !.pc = "openWorking",
                                         !.st = [req |-> known, status |-> "working"]]]
  /\ UNCHANGED <<shared, wkCrashes>>

(* Nothing looks at whether a state file was written.                      *)
OpenState(w, from, to, skip) ==
  /\ wk[w].pc = from
  /\ \/ Works /\ OpenStateFile(wk[w].st.req.task) /\ Goto(w, to)
     \/ Fails /\ Goto(w, skip) /\ UNCHANGED state

CloseState(w, from) ==
  /\ wk[w].pc = from
  /\ (Works /\ CloseStateFile(wk[w].st)) \/ (Fails /\ UNCHANGED state)

OpenWorking(w) ==
  /\ OpenState(w, "openWorking", "closeWorking", "process")
  /\ UNCHANGED <<clock, dir, job, result, sent, wkCrashes>>

CloseWorking(w) ==
  /\ CloseState(w, "closeWorking")
  /\ Goto(w, "process")
  /\ UNCHANGED <<clock, dir, job, result, sent, wkCrashes>>

-----------------------------------------------------------------------------
(* Variant: a failure leaves the status as it is.                          *)
ProcessedUnmarked(w, ok) ==
  wk' = [wk EXCEPT ![w] = [wk[w] EXCEPT !.pc = "archive",
                                    !.st.status = IF ok THEN "success" ELSE "working"]]

(* What ProcessTask found is the status to write.                          *)
Processed(w, ok) ==
  wk' = [wk EXCEPT ![w] = [wk[w] EXCEPT !.pc = "archive",
                                    !.st.status = IF ok THEN "success" ELSE "failed"]]

(* Variant: the result of ProcessTask is not looked at.                    *)
ProcessFailUnseen(w) ==
  /\ wk[w].pc = "process"
  /\ Processed(w, TRUE)
  /\ UNCHANGED <<shared, wkCrashes>>

(* No readable input, no image in it, or no result file to be opened.      *)
ProcessFail(w) ==
  /\ wk[w].pc = "process"
  /\ Processed(w, FALSE)
  /\ UNCHANGED <<shared, wkCrashes>>

OpenResult(w) ==
  /\ wk[w].pc = "process"
  /\ wk[w].req.input # Nil
  /\ result' = [result EXCEPT ![wk[w].req.result] = "empty"]
  /\ Goto(w, "closeResult")
  /\ UNCHANGED <<clock, dir, job, state, sent, faults, wkCrashes>>

(* As for the state files, a loss at the close may go unreported.          *)
CloseResult(w) ==
  /\ wk[w].pc = "closeResult"
  /\ \/ /\ Works
        /\ result' = [result EXCEPT ![wk[w].req.result] = wk[w].req.task]
        /\ Processed(w, TRUE)
     \/ Fails /\ (\E ok \in BOOLEAN : Processed(w, ok)) /\ UNCHANGED result
  /\ UNCHANGED <<clock, dir, job, state, sent, wkCrashes>>

(* Variants: the directory is named after the status; the two directories  *)
(* are mixed up; a job that failed is not moved.                           *)
ArchiveByStatus(w) ==
  /\ wk[w].pc = "archive"
  /\ Works
  /\ dir' = [dir EXCEPT ![wk[w].job] = wk[w].st.status]
  /\ Goto(w, "openFinal")
  /\ UNCHANGED <<clock, job, state, result, sent, wkCrashes>>

ArchiveSwapped(w) ==
  /\ wk[w].pc = "archive"
  /\ Works
  /\ dir' = [dir EXCEPT ![wk[w].job] =
               IF wk[w].st.status = "success" THEN "failed" ELSE "done"]
  /\ Goto(w, "openFinal")
  /\ UNCHANGED <<clock, job, state, result, sent, wkCrashes>>

ArchiveDoneOnly(w) ==
  /\ wk[w].pc = "archive"
  /\ Works
  /\ dir' = IF wk[w].st.status = "success"
            THEN [dir EXCEPT ![wk[w].job] = "done"] ELSE dir
  /\ Goto(w, "openFinal")
  /\ UNCHANGED <<clock, job, state, result, sent, wkCrashes>>

(* Nothing looks at whether the job file was moved.                        *)
Archive(w) ==
  /\ wk[w].pc = "archive"
  /\ \/ /\ Works
        /\ dir' = [dir EXCEPT ![wk[w].job] =
                     IF wk[w].st.status = "success" THEN "done" ELSE "failed"]
     \/ Fails /\ UNCHANGED dir
  /\ Goto(w, "openFinal")
  /\ UNCHANGED <<clock, job, state, result, sent, wkCrashes>>

OpenFinal(w) ==
  /\ OpenState(w, "openFinal", "closeFinal", "reply")
  /\ UNCHANGED <<clock, dir, job, result, sent, wkCrashes>>

CloseFinal(w) ==
  /\ CloseState(w, "closeFinal")
  /\ Goto(w, "reply")
  /\ UNCHANGED <<clock, dir, job, result, sent, wkCrashes>>

(* The task and the result path come from the job, the address from the    *)
(* state.                                                                  *)
Reply(w) ==
  /\ wk[w].pc = "reply"
  /\ Send([to |-> wk[w].st.req.client, task |-> wk[w].req.task,
           result |-> wk[w].req.result, status |-> wk[w].st.status])
  /\ NextJob(w, wk[w].todo)
  /\ UNCHANGED <<clock, dir, job, state, result, faults, wkCrashes>>

(* Variant: at its start a worker puts the job it had back into pending/.  *)
WorkerCrashRequeue(w) ==
  /\ wk[w].pc # "glob"
  /\ wkCrashes < MaxWorkerCrashes
  /\ wkCrashes' = wkCrashes + 1
  /\ wk' = [wk EXCEPT ![w] = WkIdle]
  /\ dir' = IF wk[w].pc \in Leasing THEN [dir EXCEPT ![wk[w].job] = "pending"] ELSE dir
  /\ UNCHANGED <<clock, job, state, result, sent, faults>>

(* The process is killed, or ends on an error of the inference, and is     *)
(* started again.                                                          *)
WorkerCrash(w) ==
  /\ wk[w].pc # "glob"
  /\ wkCrashes < MaxWorkerCrashes
  /\ wkCrashes' = wkCrashes + 1
  /\ wk' = [wk EXCEPT ![w] = WkIdle]
  /\ UNCHANGED shared

-----------------------------------------------------------------------------
Step(w) ==
  \/ Glob(w) \/ Claim(w) \/ SkipJob(w) \/ LoadState(w)
  \/ OpenWorking(w) \/ CloseWorking(w)
  \/ ProcessFail(w) \/ OpenResult(w) \/ CloseResult(w)
  \/ Archive(w) \/ OpenFinal(w) \/ CloseFinal(w) \/ Reply(w)

WorkerNext == \E w \in Workers : Step(w) \/ WorkerCrash(w)

=============================================================================
