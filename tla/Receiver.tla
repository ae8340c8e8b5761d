------------------------------ MODULE Receiver ------------------------------
(***************************************************************************)
(* The receiver process (RunUdpReceiver): one datagram after the other it  *)
(* answers, refuses or queues.  Queueing writes the state file, the job    *)
(* file and the state file again, and replies; each write is two steps.    *)
(* A datagram of Submits may come any number of times, at any moment, in   *)
(* any order, or never: the network loses, repeats and reorders.           *)
(***************************************************************************)
EXTENDS QueueDir

CONSTANTS
  Submits,            \* the datagrams clients may send
  MaxReceiverCrashes  \* bound: times the receiver is killed and restarted

ASSUME SubmitAssumption ==
  /\ Submits \subseteq [task : TaskIds \cup {Nil}, input : RawPaths,
                        result : RawPaths,
                        reply : [ip : Ips \cup {Nil}, port : Ports \cup {0}],
                        peer : Addresses]
  /\ MaxReceiverCrashes \in Nat

VARIABLES
  rx,         \* the receiver: where it is, the request, the state to write, the job
  rxCrashes

rxVars == <<rx, rxCrashes>>

RxIdle == [pc |-> "recv", req |-> NoRequest, status |-> "accepted", job |-> NoJob]

RxTypeOK ==
  /\ rx \in [pc : {"recv", "openState", "closeState", "openJob", "closeJob", "reply"},
             req : Requests \cup {NoRequest},
             status : {"accepted", "pending", "failed"},
             job : Jobs \cup {NoJob}]
  /\ rxCrashes \in 0 .. MaxReceiverCrashes

RxInit == rx = RxIdle /\ rxCrashes = 0

-----------------------------------------------------------------------------
(* Host and port of the reply are each the sender's where none is given.   *)
ReplyAddress(m) ==
  [ip   |-> IF m.reply.ip = Nil THEN m.peer.ip ELSE m.reply.ip,
   port |-> IF m.reply.port = 0 THEN m.peer.port ELSE m.reply.port]

(* Variant: the reply goes to where the datagram came from.                *)
CompletedForPeer(m, now) ==
  LET id  == IF m.task = Nil THEN ClockId[now] ELSE m.task
      out == NormalForm[m.result]
  IN  [task   |-> id,
       input  |-> NormalForm[m.input],
       result |-> IF out = Nil THEN DefaultResult[NameOf[id]] ELSE out,
       client |-> m.peer]

(* The request a datagram becomes: absent fields get their defaults, paths *)
(* are normalised, and a path that is refused becomes Nil.                  *)
Completed(m, now) ==
  LET id  == IF m.task = Nil THEN ClockId[now] ELSE m.task
      out == NormalForm[m.result]
  IN  [task   |-> id,
       input  |-> NormalForm[m.input],
       result |-> IF out = Nil THEN DefaultResult[NameOf[id]] ELSE out,
       client |-> ReplyAddress(m)]

(* A task without an id takes a reading of the clock for one.              *)
TakesReading(m) ==
  /\ clock' = IF m.task = Nil THEN clock + 1 ELSE clock
  /\ clock' <= MaxClock

Received(m) == Completed(m, clock + 1)

ReplyTo(req, status) ==
  [to |-> req.client, task |-> req.task, result |-> req.result, status |-> status]

(* Variant: whatever is not a success has failed.                          *)
ReplyForStateStrict(st, client) ==
  [to     |-> client, task |-> st.req.task, result |-> st.req.result,
   status |-> IF st.status = "success" THEN "success" ELSE "failed"]

(* BuildReplyForState: the task named is the one in the state file, and    *)
(* whatever is not final is "accepted".                                    *)
ReplyForState(st, client) ==
  [to     |-> client, task |-> st.req.task, result |-> st.req.result,
   status |-> IF Terminal(st.status) THEN st.status ELSE "accepted"]

Reject(m) ==
  /\ rx.pc = "recv"
  /\ TakesReading(m)
  /\ Received(m).input = Nil
  /\ Send(ReplyTo(Received(m), "failed"))
  /\ UNCHANGED <<dir, job, state, result, faults, rxVars>>

Answer(m) ==
  /\ rx.pc = "recv"
  /\ TakesReading(m)
  /\ Received(m).input # Nil
  /\ ReadTaskState(Received(m).task)
  /\ LET req == Received(m)
     IN  Send(ReplyForState(state[StateFile(req.task)], req.client))
  /\ UNCHANGED <<dir, job, state, result, faults, rxVars>>

(* The bound leaves a reading of the clock for the name of the job file.   *)
Begin(m) ==
  /\ rx.pc = "recv"
  /\ TakesReading(m)
  /\ clock' < MaxClock
  /\ Received(m).input # Nil
  /\ ~ReadTaskState(Received(m).task)
  /\ rx' = [RxIdle EXCEPT !.pc = "openState", !.req = Received(m)]
  /\ UNCHANGED <<dir, job, state, result, sent, faults, rxCrashes>>

-----------------------------------------------------------------------------
(* After a state was written: "accepted" goes on to the job file if the    *)
(* write is known to have worked; the result of the other two is not read. *)
RxStateWritten(ok) ==
  rx' = [rx EXCEPT !.pc = IF rx.status = "accepted" /\ ok THEN "openJob" ELSE "reply"]

RxOpenState ==
  /\ rx.pc = "openState"
  /\ \/ /\ Works
        /\ OpenStateFile(rx.req.task)
        /\ rx' = [rx EXCEPT !.pc = "closeState"]
     \/ Fails /\ RxStateWritten(FALSE) /\ UNCHANGED state
  /\ UNCHANGED <<clock, dir, job, result, sent, rxCrashes>>

(* A text shorter than the stream's buffer reaches the file when the       *)
(* stream is closed, after WriteTextFile took its result: the loss of it   *)
(* may be reported or not.                                                 *)
RxCloseState ==
  /\ rx.pc = "closeState"
  /\ \/ /\ Works
        /\ CloseStateFile([req |-> rx.req, status |-> rx.status])
        /\ RxStateWritten(TRUE)
     \/ Fails /\ (\E ok \in BOOLEAN : RxStateWritten(ok)) /\ UNCHANGED state
  /\ UNCHANGED <<clock, dir, job, result, sent, rxCrashes>>

(* Variant: that the job file could not be written goes unnoticed.         *)
RxJobWrittenUnseen(ok, j) ==
  rx' = [rx EXCEPT !.pc = "openState", !.job = j, !.status = "pending"]

(* Back to the state file, to write what became of the job file.           *)
RxJobWritten(ok, j) ==
  rx' = [rx EXCEPT !.pc = "openState", !.job = j,
                   !.status = IF ok THEN "pending" ELSE "failed"]

(* Variant: the name of the job file has no time in it.                    *)
RxOpenJobUntimed ==
  /\ rx.pc = "openJob"
  /\ clock' = clock + 1
  /\ LET j == [name |-> NameOf[rx.req.task], at |-> 1]
     IN  /\ Works
         /\ dir' = [dir EXCEPT ![j] = "pending"]
         /\ rx' = [rx EXCEPT !.pc = "closeJob", !.job = j]
  /\ UNCHANGED <<job, state, result, sent, rxCrashes>>

(* Once the job file is opened a worker can see it, and it is empty.       *)
RxOpenJob ==
  /\ rx.pc = "openJob"
  /\ clock' = clock + 1
  /\ LET j == [name |-> NameOf[rx.req.task], at |-> clock + 1]
     IN  \/ /\ Works
            /\ dir' = [dir EXCEPT ![j] = "pending"]
            /\ rx' = [rx EXCEPT !.pc = "closeJob", !.job = j]
         \/ Fails /\ RxJobWritten(FALSE, NoJob) /\ UNCHANGED dir
  /\ UNCHANGED <<job, state, result, sent, rxCrashes>>

(* The text goes to the file wherever it has been moved by now.            *)
RxCloseJob ==
  /\ rx.pc = "closeJob"
  /\ \/ Works /\ job' = [job EXCEPT ![rx.job] = rx.req] /\ RxJobWritten(TRUE, NoJob)
     \/ Fails /\ (\E ok \in BOOLEAN : RxJobWritten(ok, NoJob)) /\ UNCHANGED job
  /\ UNCHANGED <<clock, dir, state, result, sent, rxCrashes>>

(* The last state written, or that could not be, decides the reply.        *)
RxReply ==
  /\ rx.pc = "reply"
  /\ Send(ReplyTo(rx.req, IF rx.status = "pending" THEN "accepted" ELSE "failed"))
  /\ rx' = RxIdle
  /\ UNCHANGED <<clock, dir, job, state, result, faults, rxCrashes>>

(* The process is killed and started again; what it had buffered is lost.  *)
RxCrash ==
  /\ rx.pc # "recv"
  /\ rxCrashes < MaxReceiverCrashes
  /\ rxCrashes' = rxCrashes + 1
  /\ rx' = RxIdle
  /\ UNCHANGED shared

-----------------------------------------------------------------------------
Receive == \E m \in Submits : Reject(m) \/ Answer(m) \/ Begin(m)

Handle == RxOpenState \/ RxCloseState \/ RxOpenJob \/ RxCloseJob \/ RxReply

ReceiverNext == Receive \/ Handle \/ RxCrash

=============================================================================
