-------------------------- MODULE EndToEndOutcomes ---------------------------
(***************************************************************************)
(* What a call that is told of its end may rely on, for any calls, any     *)
(* number of workers, and whatever fails or is killed on either side; and  *)
(* that calls and service together are the calls of RemoteCall.            *)
(***************************************************************************)
EXTENDS EndToEndProofs, TaskQueueOutcomes

-----------------------------------------------------------------------------
(* The invariants of the service hold among its clients.                   *)
ServiceInv == EndToEndInv /\ Inv /\ AskedInv /\ EarnedInv

LEMMA ServiceInvStep ==
  ASSUME NamesApart PROVE ServiceInv /\ [EndToEndNext]_allVars => ServiceInv'
<1> SUFFICES ASSUME ServiceInv, [EndToEndNext]_allVars PROVE ServiceInv'
  OBVIOUS
<1>1. [Next]_vars
  BY ServiceStep DEF ServiceInv, EndToEndInv
<1>2. EndToEndInv'
  BY EndToEndInvStep DEF ServiceInv
<1>3. TypeInv /\ OwnInv /\ TypeInv' /\ OwnInv'
  BY <1>1, TypeInvStep, OwnInvStep DEF ServiceInv, Inv, OwnInv
<1>4. Inv'
  BY <1>3 DEF Inv, OwnInv
<1>5. AskedInv' /\ EarnedInv'
  BY <1>1, <1>3, AskedStep, EarnedStep DEF ServiceInv
<1> QED
  BY <1>2, <1>4, <1>5 DEF ServiceInv

LEMMA ServiceStarts == EndToEndInit => ServiceInv
BY EndToEndStart, InitTypeInv, InitOwnInv, InitAsked, InitEarned
DEF ServiceInv, EndToEndInit, Inv, OwnInv

LEMMA ServiceInvariance ==
  ASSUME NamesApart PROVE EndToEndSpec => []ServiceInv
BY ServiceInvStep, ServiceStarts, PTL DEF EndToEndSpec

-----------------------------------------------------------------------------
(* What a call makes of a reply.                                           *)

(* A reply of the service to a call is about the task of the call.         *)
LEMMA HeardIsOwn ==
  ASSUME ServiceInv, ForeignApart, NEW c \in Calls, NEW r \in Heard(c)
  PROVE  r \in sent /\ r.task = Task(c)
<1>1. r \in sent \cup Foreign /\ r.to = Config[c].at /\ r.task \in {Nil, Task(c)}
  BY DEF Heard
<1>2. r \in sent
  BY <1>1 DEF ForeignApart
<1>3. PICK p \in AskedBy(clock) : p.task = r.task
  BY <1>2 DEF ServiceInv, AskedInv, RepliesAsked, ReplyAsked
<1>4. clock \in 0 .. MaxClock
  BY DEF ServiceInv, EndToEndInv, TypeInv, TypeOK, QueueTypeOK
<1>5. r.task \in TaskIds
  BY <1>3, <1>4, AskedFacts
<1> QED
  BY <1>1, <1>2, <1>5, NameAssumption

(* What a step of a call may change of its status, path and outcome.       *)
StatusHeard(c, k) == k.status = call[c].status \/ \E r \in Heard(c) : k.status = r.status

PathHeard(c, k) ==
  \/ k.path \in {call[c].path, ResultPath(c)}
  \/ \E r \in Heard(c) : r.result # Nil /\ k.path = r.result

OkRead(c, k) ==
  k.outcome = "ok" =>
    \/ call[c].outcome = "ok" /\ k.read = call[c].read
    \/ /\ call[c].pc = "conclude" /\ call[c].status = "success"
       /\ k.read = result[call[c].path] /\ k.read \in TaskIds

Follows(c, k) == StatusHeard(c, k) /\ PathHeard(c, k) /\ OkRead(c, k)

LEMMA CallFollows ==
  ASSUME ClientInv, NEW c \in Calls, CallStep(c) \/ Kill(c)
  PROVE  \E k : call' = [call EXCEPT ![c] = k] /\ Follows(c, k)
<1>t. call[c] \in CallStates
  BY DEF ClientInv, ClientTypeOK, CallTypeOK
<1> USE DEF Follows, StatusHeard, PathHeard, OkRead
<1>1. ASSUME NEW k, Become(c, k), Follows(c, k)
      PROVE  \E x : call' = [call EXCEPT ![c] = x] /\ Follows(c, x)
  BY <1>1 DEF Become
<1>2. ASSUME NEW outcome, End(c, outcome), outcome # "ok"
      PROVE  \E k : Become(c, k) /\ Follows(c, k)
  <2> DEFINE k == [call[c] EXCEPT !.pc = "over", !.outcome = outcome]
  <2>1. Become(c, k) /\ Follows(c, k)
    BY <1>2, <1>t DEF End, CallStates
  <2> HIDE DEF k, Follows
  <2> QED
    BY <2>1
<1>3. ASSUME NEW pc, CallGoto(c, pc)
      PROVE  \E k : Become(c, k) /\ Follows(c, k)
  BY <1>3, <1>t DEF CallGoto, CallStates
<1>4. ASSUME NEW path, path = call[c].path \/ \E r \in Heard(c) : r.result # Nil /\ path = r.result,
             Retry(c, path)
      PROVE  \E k : Become(c, k) /\ Follows(c, k)
  <2> DEFINE more == call[c].attempt <= Retries
             k == [call[c] EXCEPT !.path = path, !.left = 0,
                     !.pc = IF more THEN "send" ELSE "over",
                     !.outcome = IF more THEN "none" ELSE "noReply"]
  <2>1. Become(c, k)
    BY <1>4 DEF Retry
  <2>2. k.status = call[c].status /\ k.path = path /\ k.outcome # "ok"
    BY <1>t DEF CallStates
  <2>3. Follows(c, k)
    BY <1>4, <2>2
  <2> HIDE DEF k, Follows
  <2> QED
    BY <2>1, <2>3
<1>5. CASE Refuse(c) \/ OpenRequest(c) \/ CloseRequest(c) \/ Bind(c)
  BY <1>1, <1>2, <1>3, <1>5 DEF Refuse, OpenRequest, CloseRequest, Bind
<1>6. CASE Start(c)
  <2> DEFINE k == [call[c] EXCEPT !.pc = "openRequest", !.path = ResultPath(c)]
  <2>1. Become(c, k) /\ Follows(c, k)
    BY <1>6, <1>t DEF Start, CallStates
  <2> HIDE DEF k, Follows
  <2> QED
    BY <1>1, <2>1
<1>7. CASE SendAll(c)
  <2> DEFINE k == [call[c] EXCEPT !.pc = "waitReply", !.attempt = call[c].attempt + 1,
                                  !.left = AcceptedTimeout]
  <2>1. Follows(c, k)
    BY <1>t DEF CallStates
  <2>2. Become(c, k) \/ End(c, "sendto")
    BY <1>7 DEF SendAll
  <2> HIDE DEF k, Follows
  <2> QED
    BY <1>1, <1>2, <2>1, <2>2
<1>8. CASE Pass(c)
  <2> DEFINE k == [call[c] EXCEPT !.left = call[c].left - 1, !.waited = call[c].waited + 1]
  <2>1. Become(c, k) /\ Follows(c, k)
    BY <1>8, <1>t DEF Pass, CallStates
  <2> HIDE DEF k, Follows
  <2> QED
    BY <1>1, <2>1
<1>9. CASE TakeReply(c)
  <2> PICK r \in Heard(c) :
        \/ Become(c, [call[c] EXCEPT !.pc = "waitDone", !.left = DoneTimeout,
                                     !.path = PathOf(c, r)])
        \/ Become(c, [call[c] EXCEPT !.pc = "conclude", !.left = 0,
                                     !.path = PathOf(c, r), !.status = r.status])
        \/ Retry(c, PathOf(c, r))
    BY <1>9 DEF TakeReply
  <2> DEFINE wait == [call[c] EXCEPT !.pc = "waitDone", !.left = DoneTimeout,
                                     !.path = PathOf(c, r)]
             stop == [call[c] EXCEPT !.pc = "conclude", !.left = 0,
                                     !.path = PathOf(c, r), !.status = r.status]
  <2>1. PathOf(c, r) = call[c].path \/ (r.result # Nil /\ PathOf(c, r) = r.result)
    BY DEF PathOf
  <2>2. Follows(c, wait) /\ Follows(c, stop)
    BY <1>t, <2>1 DEF CallStates
  <2>3. Become(c, wait) \/ Become(c, stop) \/ Retry(c, PathOf(c, r))
    OBVIOUS
  <2> HIDE DEF wait, stop, Follows
  <2> QED
    BY <1>1, <1>4, <2>1, <2>2, <2>3
<1>10. CASE ReplyTimeout(c)
  BY <1>1, <1>4, <1>10 DEF ReplyTimeout
<1>11. CASE TakeDone(c)
  <2> PICK r \in Heard(c) :
        Become(c, [call[c] EXCEPT !.pc = "conclude", !.left = 0,
                                  !.path = PathOf(c, r), !.status = r.status])
    BY <1>11 DEF TakeDone
  <2> DEFINE stop == [call[c] EXCEPT !.pc = "conclude", !.left = 0,
                                     !.path = PathOf(c, r), !.status = r.status]
  <2>1. PathOf(c, r) = call[c].path \/ (r.result # Nil /\ PathOf(c, r) = r.result)
    BY DEF PathOf
  <2>2. Follows(c, stop)
    BY <1>t, <2>1 DEF CallStates
  <2>3. Become(c, stop)
    OBVIOUS
  <2> HIDE DEF stop, Follows
  <2> QED
    BY <1>1, <2>2, <2>3
<1>12. CASE DoneTimedOut(c)
  <2> DEFINE k == [call[c] EXCEPT !.pc = "over", !.left = 0, !.outcome = "noDone"]
  <2>1. Become(c, k) /\ Follows(c, k)
    BY <1>12, <1>t DEF DoneTimedOut, CallStates
  <2> HIDE DEF k, Follows
  <2> QED
    BY <1>1, <2>1
<1>13. CASE Conclude(c)
  <2> DEFINE text == result[call[c].path]
             k == [call[c] EXCEPT !.pc = "over", !.read = text,
                     !.outcome = IF text \in TaskIds THEN "ok" ELSE "noResult"]
  <2>1. CASE call[c].status = "success" /\ ReadResult(c)
    <3>1. Become(c, k)
      BY <2>1 DEF ReadResult
    <3>2. k.status = call[c].status /\ k.path = call[c].path /\ k.read = text
          /\ (k.outcome = "ok" => text \in TaskIds)
      BY <1>t DEF CallStates
    <3>3. call[c].pc = "conclude"
      BY <1>13 DEF Conclude
    <3>4. Follows(c, k)
      BY <2>1, <3>2, <3>3
    <3> HIDE DEF k, Follows
    <3> QED
      BY <1>1, <3>1, <3>4
  <2>2. CASE End(c, "failed") \/ End(c, "unexpected")
    BY <1>1, <1>2, <2>2
  <2> QED
    BY <1>13, <2>1, <2>2 DEF Conclude
<1>14. CASE Kill(c)
  <2> DEFINE k == [call[c] EXCEPT !.pc = "over", !.left = 0, !.outcome = "killed"]
  <2>1. Become(c, k) /\ Follows(c, k)
    BY <1>14, <1>t DEF Kill, CallStates
  <2> HIDE DEF k, Follows
  <2> QED
    BY <1>1, <2>1
<1> QED
  BY <1>5, <1>6, <1>7, <1>8, <1>9, <1>10, <1>11, <1>12, <1>13, <1>14 DEF CallStep

(* The calls after a step of one of them.                                  *)
LEMMA CallsFollow ==
  ASSUME ClientInv, CallNext
  PROVE  \E c \in Calls : /\ Follows(c, call'[c])
                         /\ \A d \in Calls \ {c} : call'[d] = call[d]
<1>1. PICK c \in Calls : CallStep(c) \/ Kill(c)
  BY DEF CallNext
<1>2. PICK k : call' = [call EXCEPT ![c] = k] /\ Follows(c, k)
  BY <1>1, CallFollows
<1>3. call'[c] = k /\ \A d \in Calls \ {c} : call'[d] = call[d]
  BY <1>2 DEF ClientInv, ClientTypeOK, CallTypeOK
<1> QED
  BY <1>2, <1>3

-----------------------------------------------------------------------------
(* "success".                                                              *)

LEMMA CallsEarnedStep ==
  ASSUME ForeignApart, ServiceInv, CallsEarned, [EndToEndNext]_allVars
  PROVE  CallsEarned'
<1>1. CASE UNCHANGED callVars
  <2>1. EarnedTasks \subseteq EarnedTasks'
    BY ServiceStep, EarnedGrows DEF ServiceInv, EndToEndInv, Inv, OwnInv, EarnedInv
  <2> QED
    BY <1>1, <2>1 DEF CallsEarned, callVars, Task
<1>2. CASE CallNext /\ UNCHANGED vars
  <2>1. EarnedTasks' = EarnedTasks
    BY <1>2 DEF EarnedTasks, Stranded, Leases, vars, shared, wkVars
  <2>2. PICK c \in Calls : /\ Follows(c, call'[c])
                         /\ \A d \in Calls \ {c} : call'[d] = call[d]
    BY <1>2, CallsFollow DEF ServiceInv, EndToEndInv
  <2>3. ASSUME call'[c].status = "success" PROVE Task(c) \in EarnedTasks
    <3>1. CASE call[c].status = "success"
      BY <3>1 DEF CallsEarned
    <3>2. CASE \E r \in Heard(c) : r.status = "success"
      BY <3>2, HeardIsOwn DEF ServiceInv, EarnedInv, SuccessKnown
    <3> QED
      BY <2>2, <2>3, <3>1, <3>2 DEF Follows, StatusHeard
  <2> QED
    BY <2>1, <2>2, <2>3 DEF CallsEarned, Task
<1> QED
  BY <1>1, <1>2 DEF EndToEndNext, allVars

(* A client that is told "success" was told so of a job of its own task    *)
(* that was seen through: where names tell tasks apart and nobody else     *)
(* answers for its tasks, no loss, delay, duplicate, kill or failed file   *)
(* operation on either side makes it wrong.                                *)
THEOREM SuccessIsTrue ==
  ASSUME NamesApart, ForeignApart PROVE EndToEndSpec => []OkWasDone
<1>1. EndToEndInit => CallsEarned
  BY DEF EndToEndInit, CallInit, Fresh, CallsEarned
<1>2. ServiceInv /\ CallsEarned /\ [EndToEndNext]_allVars => CallsEarned'
  BY CallsEarnedStep
<1>3. CallsEarned => OkWasDone
  BY DEF CallsEarned, OkWasDone, EarnedTasks, Stranded
<1> QED
  BY <1>1, <1>2, <1>3, ServiceInvariance, PTL DEF EndToEndSpec

-----------------------------------------------------------------------------
(* The result.                                                             *)

(* A result file is emptied or gets the result of a task that asked for it.*)
LEMMA ResultFollows ==
  ASSUME TypeInv, SuccessKnown, RequestsAsked, [Next]_vars, NEW p \in Paths
  PROVE  \/ result'[p] \in {result[p], "empty"}
         \/ \E q \in AskedBy(clock) : q.result = p /\ result'[p] = q.task
<1>t. result \in [Paths -> ResultTexts]
  BY DEF TypeInv, TypeOK, QueueTypeOK
<1>1. CASE UNCHANGED result
  BY <1>1
<1>2. ASSUME NEW w \in Workers, OpenResult(w)
      PROVE  result'[p] \in {result[p], "empty"}
  BY <1>2, <1>t DEF OpenResult
<1>3. ASSUME NEW w \in Workers, CloseResult(w), ~UNCHANGED result
      PROVE  \/ result'[p] = result[p]
             \/ \E q \in AskedBy(clock) : q.result = p /\ result'[p] = q.task
  <2>1. result' = [result EXCEPT ![wk[w].req.result] = wk[w].req.task]
    BY <1>3 DEF CloseResult
  <2>2. wk[w].req \in AskedBy(clock)
    BY <1>3 DEF CloseResult, SuccessKnown, RequestsAsked, Asked
  <2> QED
    BY <2>1, <2>2, <1>t
<1>4. UNCHANGED result \/ \E w \in Workers : OpenResult(w) \/ CloseResult(w)
  BY DEF Next, vars, shared, ReceiverNext, Receive, Reject, Answer, Begin, Handle, RxOpenState,
         RxCloseState, RxReply, RxOpenJob, RxCloseJob, RxCrash, WorkerNext, Step,
         Glob, Claim, SkipJob, LoadState, OpenWorking, CloseWorking, ProcessFail,
         Archive, OpenFinal, CloseFinal, Reply, WorkerCrash
<1> QED
  BY <1>1, <1>2, <1>3, <1>4

LEMMA OwnedAsked ==
  ASSUME NEW owner, ResultsApart(owner), TypeInv, NEW q \in AskedBy(clock)
  PROVE  owner[q.result] = q.task
<1>1. clock \in Nat /\ MaxClock \in Nat /\ clock <= MaxClock
  BY ClockAssumption DEF TypeInv, TypeOK, QueueTypeOK
<1>2. q \in AskedBy(MaxClock)
  BY <1>1, AskedStays
<1> QED
  BY <1>2 DEF ResultsApart

LEMMA ResultsOwnedStep ==
  ASSUME NEW owner, ForeignApart, ResultsApart(owner),
         ServiceInv, ResultsOwned(owner), [EndToEndNext]_allVars
  PROVE  ResultsOwned(owner)'
<1>i. TypeInv /\ ClientInv /\ RequestsAsked /\ RepliesAsked /\ SuccessKnown
  BY DEF ServiceInv, EndToEndInv, AskedInv, EarnedInv
<1>1. CASE ServiceNext /\ UNCHANGED callVars
  <2>1. [Next]_vars
    BY ServiceStep DEF ServiceInv, EndToEndInv
  <2>2. ASSUME NEW p \in Paths, result'[p] \in TaskIds PROVE result'[p] = owner[p]
    <3>1. CASE result'[p] = result[p]
      BY <2>2, <3>1 DEF ResultsOwned
    <3>2. CASE \E q \in AskedBy(clock) : q.result = p /\ result'[p] = q.task
      BY <3>2, <1>i, OwnedAsked
    <3>3. CASE result'[p] = "empty"
      BY <2>2, <3>3, TextAssumption
    <3> QED
      BY <2>1, <3>1, <3>2, <3>3, <1>i, ResultFollows
  <2> QED
    BY <1>1, <2>2 DEF ResultsOwned, OkIsOwn, Task, callVars
<1>2. CASE CallNext /\ UNCHANGED vars
  <2>1. PICK c \in Calls : /\ Follows(c, call'[c])
                         /\ \A d \in Calls \ {c} : call'[d] = call[d]
    BY <1>2, <1>i, CallsFollow
  <2>2. ASSUME call'[c].path # Nil PROVE owner[call'[c].path] = Task(c)
    <3>1. CASE call'[c].path = call[c].path
      BY <2>2, <3>1 DEF ResultsOwned
    <3>2. CASE call'[c].path = ResultPath(c)
      BY <2>2, <3>2 DEF ResultsApart
    <3>3. CASE \E r \in Heard(c) : r.result # Nil /\ call'[c].path = r.result
      <4>1. PICK r \in Heard(c) : call'[c].path = r.result
        BY <3>3
      <4>2. r \in sent /\ r.task = Task(c)
        BY HeardIsOwn
      <4>3. PICK q \in AskedBy(clock) : q.task = r.task /\ q.result = r.result
        BY <1>i, <4>2 DEF RepliesAsked, ReplyAsked
      <4> QED
        BY <1>i, <4>1, <4>2, <4>3, OwnedAsked
    <3> QED
      BY <2>1, <3>1, <3>2, <3>3 DEF Follows, PathHeard
  <2>3. ASSUME call'[c].outcome = "ok" PROVE call'[c].read = Task(c)
    <3>1. CASE call[c].outcome = "ok" /\ call'[c].read = call[c].read
      BY <3>1 DEF ResultsOwned, OkIsOwn
    <3>2. CASE call[c].pc = "conclude" /\ call'[c].read = result[call[c].path] /\ call'[c].read \in TaskIds
      <4>1. call[c].path \in Paths
        BY <1>i, <3>2 DEF ClientInv, Validated
      <4>2. call[c].path # Nil
        BY <4>1, PathAssumption
      <4> QED
        BY <3>2, <4>1, <4>2 DEF ResultsOwned
    <3> QED
      BY <2>1, <2>3, <3>1, <3>2 DEF Follows, OkRead
  <2>4. result' = result
    BY <1>2 DEF vars, shared
  <2> QED
    BY <2>1, <2>2, <2>3, <2>4 DEF ResultsOwned, OkIsOwn, Task
<1>3. CASE UNCHANGED allVars
  BY <1>3 DEF ResultsOwned, OkIsOwn, Task, allVars, vars, shared, callVars
<1> QED
  BY <1>1, <1>2, <1>3 DEF EndToEndNext

(* A call that returns a result returns its own: it takes names that tell  *)
(* tasks apart, a result path for each task, and nobody else that answers; *)
(* replies that come late, twice or to the next call at a port do no harm, *)
(* nor does anything that is killed or fails.                              *)
THEOREM ResultsAreOwn ==
  ASSUME NEW owner, NamesApart, ForeignApart, ResultsApart(owner)
  PROVE  EndToEndSpec => []OkIsOwn
<1>1. EndToEndInit => ResultsOwned(owner)
  BY TextAssumption DEF EndToEndInit, Init, QueueInit, CallInit, Fresh, ResultsOwned, OkIsOwn
<1>2. ServiceInv /\ ResultsOwned(owner) /\ [EndToEndNext]_allVars => ResultsOwned(owner)'
  BY ResultsOwnedStep
<1>3. ResultsOwned(owner) => OkIsOwn
  BY DEF ResultsOwned
<1> QED
  BY <1>1, <1>2, <1>3, ServiceInvariance, PTL DEF EndToEndSpec


-----------------------------------------------------------------------------
(* Where the requests of the next state come from.                         *)

LEMMA RxSources ==
  ASSUME TypeInv, ReceiveSubmitted \/ Handle \/ RxCrash
  PROVE  /\ rx'.req \in {rx.req, NoRequest} \cup {Received(m) : m \in submitted}
         /\ \A j \in Jobs : job'[j] \in {job[j], rx.req}
         /\ \A n \in FileNames : state'[n].req \in {state[n].req, NoRequest, rx.req}
<1>t. /\ state \in [FileNames -> TaskStates \cup {Absent, Empty}]
      /\ job \in [Jobs -> Requests \cup {NoRequest}]
      /\ rx \in [pc : {"recv", "openState", "closeState", "openJob", "closeJob", "reply"},
                 req : Requests \cup {NoRequest},
                 status : {"accepted", "pending", "failed"}, job : Jobs \cup {NoJob}]
  BY DEF TypeInv, TypeOK, QueueTypeOK, RxTypeOK
<1>1. CASE ReceiveSubmitted
  <2>1. PICK m \in submitted : Reject(m) \/ Answer(m) \/ Begin(m)
    BY <1>1 DEF ReceiveSubmitted
  <2>2. rx' = rx \/ rx'.req = Received(m)
    BY <2>1 DEF Reject, Answer, Begin, RxIdle, rxVars
  <2>3. UNCHANGED <<job, state>>
    BY <2>1 DEF Reject, Answer, Begin
  <2> QED
    BY <2>2, <2>3
<1>2. CASE RxOpenState
  <2>1. UNCHANGED job /\ rx'.req = rx.req
    BY <1>2, <1>t DEF RxOpenState, RxStateWritten
  <2>2. UNCHANGED state \/ OpenStateFile(rx.req.task)
    BY <1>2 DEF RxOpenState
  <2> QED
    BY <2>1, <2>2, <1>t DEF OpenStateFile, Empty
<1>3. CASE RxCloseState
  <2>1. UNCHANGED job /\ rx'.req = rx.req
    BY <1>3, <1>t DEF RxCloseState, RxStateWritten
  <2>2. UNCHANGED state \/ CloseStateFile([req |-> rx.req, status |-> rx.status])
    BY <1>3 DEF RxCloseState
  <2> QED
    BY <2>1, <2>2, <1>t DEF CloseStateFile
<1>4. CASE RxOpenJob
  BY <1>4, <1>t DEF RxOpenJob, RxJobWritten
<1>5. CASE RxCloseJob
  BY <1>5, <1>t DEF RxCloseJob, RxJobWritten
<1>6. CASE RxReply \/ RxCrash
  BY <1>6, <1>t DEF RxReply, RxCrash, RxIdle, shared
<1> QED
  BY <1>1, <1>2, <1>3, <1>4, <1>5, <1>6 DEF Handle

LEMMA WkSources ==
  ASSUME TypeInv, NEW w \in Workers, Step(w) \/ WorkerCrash(w)
  PROVE  /\ UNCHANGED job
         /\ \A v \in Workers : wk'[v].req \in {wk[v].req, NoRequest} \cup {job[j] : j \in Jobs}
         /\ \A v \in Workers : wk'[v].st.req \in {wk[v].st.req, NoRequest, wk[v].req}
                                                   \cup {state[n].req : n \in FileNames}
         /\ \A n \in FileNames : state'[n].req \in {state[n].req, NoRequest, wk[w].st.req}
<1>t. /\ state \in [FileNames -> TaskStates \cup {Absent, Empty}]
      /\ wk \in [Workers -> WkStates]
  BY DEF TypeInv, TypeOK, QueueTypeOK, WkTypeOK
<1>1. UNCHANGED job
  BY DEF Step, Glob, Claim, SkipJob, LoadState, OpenWorking, CloseWorking, OpenState, CloseState,
         ProcessFail, OpenResult, CloseResult, Archive, OpenFinal, CloseFinal, Reply,
         WorkerCrash, shared
<1>2. UNCHANGED state \/ OpenStateFile(wk[w].st.req.task) \/ CloseStateFile(wk[w].st)
  BY DEF Step, Glob, Claim, SkipJob, LoadState, OpenWorking, CloseWorking, OpenState, CloseState,
         ProcessFail, OpenResult, CloseResult, Archive, OpenFinal, CloseFinal, Reply,
         WorkerCrash, shared
<1>3. \A n \in FileNames : state'[n].req \in {state[n].req, NoRequest, wk[w].st.req}
  BY <1>2, <1>t DEF OpenStateFile, CloseStateFile, Empty
<1>4. /\ \A v \in Workers : wk'[v].req \in {wk[v].req, NoRequest} \cup {job[j] : j \in Jobs}
      /\ \A v \in Workers : wk'[v].st.req \in {wk[v].st.req, NoRequest, wk[v].req}
                                                \cup {state[n].req : n \in FileNames}
  <2>1. CASE Claim(w)
    <3>1. PICK j \in First(wk[w].todo) :
            wk' = [wk EXCEPT ![w] = [wk[w] EXCEPT !.pc = "load", !.todo = wk[w].todo \ {j},
                                            !.job = j, !.req = job[j]]]
      BY <2>1 DEF Claim
    <3>2. j \in Jobs
      BY <1>t DEF First, WkStates
    <3> QED
      BY <3>1, <3>2, <1>t DEF WkStates
  <2>2. CASE LoadState(w)
    <3> DEFINE req   == wk[w].req
               known == IF ReadTaskState(req.task) THEN state[StateFile(req.task)].req ELSE req
    <3>1. wk' = [wk EXCEPT ![w] = [wk[w] EXCEPT !.pc = "openWorking",
                                          !.st = [req |-> known, status |-> "working"]]]
      BY <2>2 DEF LoadState
    <3>2. StateFile(req.task) \in FileNames
      BY <1>t, StateFileType DEF WkStates
    <3>3. known \in {wk[w].req} \cup {state[n].req : n \in FileNames}
      BY <3>2
    <3> HIDE DEF known
    <3>4. /\ \A v \in Workers \ {w} : wk'[v] = wk[v]
          /\ wk'[w].req = wk[w].req /\ wk'[w].st.req = known
      BY <3>1, <1>t DEF WkStates
    <3> HIDE DEF req
    <3> QED
      BY <3>3, <3>4
  <2>3. CASE SkipJob(w) \/ Reply(w) \/ WorkerCrash(w)
    <3>1. (\E todo : NextJob(w, todo)) \/ WorkerCrash(w)
      BY <2>3 DEF SkipJob, Reply
    <3>2. ASSUME NEW todo, NextJob(w, todo)
          PROVE  /\ \A v \in Workers \ {w} : wk'[v] = wk[v]
                 /\ wk'[w].req = NoRequest /\ wk'[w].st.req = NoRequest
      BY <3>2, <1>t DEF NextJob, WkIdle, Absent
    <3>3. ASSUME WorkerCrash(w)
          PROVE  /\ \A v \in Workers \ {w} : wk'[v] = wk[v]
                 /\ wk'[w].req = NoRequest /\ wk'[w].st.req = NoRequest
      BY <3>3, <1>t DEF WorkerCrash, WkIdle, Absent
    <3> QED
      BY <3>1, <3>2, <3>3
  <2>4. CASE Glob(w)
    BY <2>4, <1>t DEF Glob, WkStates
  <2>5. CASE OpenWorking(w) \/ CloseWorking(w) \/ OpenFinal(w) \/ CloseFinal(w)
             \/ Archive(w) \/ OpenResult(w)
    BY <2>5, <1>t DEF OpenWorking, CloseWorking, OpenFinal, CloseFinal, Archive, OpenResult,
                      OpenState, CloseState, Goto, WkStates
  <2>6. CASE ProcessFail(w) \/ CloseResult(w)
    <3>1. \E ok \in BOOLEAN : Processed(w, ok)
      BY <2>6 DEF ProcessFail, CloseResult
    <3>2. /\ \A v \in Workers \ {w} : wk'[v] = wk[v]
          /\ wk'[w].req = wk[w].req /\ wk'[w].st.req = wk[w].st.req
      BY <3>1, <1>t DEF Processed, WkStates, TaskStates, Absent
    <3> QED
      BY <3>2
  <2> QED
    BY <2>1, <2>2, <2>3, <2>4, <2>5, <2>6 DEF Step
<1> QED
  BY <1>1, <1>3, <1>4

-----------------------------------------------------------------------------
(* Nothing is worked on that was not asked for.                            *)

LEMMA ReceivedTask ==
  ASSUME CallTypeOK, NEW m \in submitted
  PROVE  Received(m).task \in AskedTasks
<1>1. m.task \in TaskIds
  BY DEF CallTypeOK
<1> QED
  BY <1>1, NameAssumption DEF AskedTasks, Received, Completed

(* What the service holds it held before, or it was submitted.             *)
LEMMA CarriedSources ==
  ASSUME TypeInv, ServiceNext, NEW q \in Carried'
  PROVE  q \in Carried \cup {NoRequest} \cup {Received(m) : m \in submitted}
<1>1. CASE (ReceiveSubmitted \/ Handle \/ RxCrash) /\ UNCHANGED wkVars
  <2>1. /\ rx'.req \in {rx.req, NoRequest} \cup {Received(m) : m \in submitted}
        /\ \A j \in Jobs : job'[j] \in {job[j], rx.req}
        /\ \A n \in FileNames : state'[n].req \in {state[n].req, NoRequest, rx.req}
        /\ UNCHANGED wk
    BY <1>1, RxSources DEF wkVars
  <2> QED
    BY <2>1 DEF Carried
<1>2. CASE (\E w \in Workers : (Step(w) /\ Process(w)) \/ WorkerCrash(w)) /\ UNCHANGED rxVars
  <2>1. PICK w \in Workers : Step(w) \/ WorkerCrash(w)
    BY <1>2
  <2>2. /\ UNCHANGED <<job, rx>>
        /\ \A v \in Workers : wk'[v].req \in {wk[v].req, NoRequest} \cup {job[j] : j \in Jobs}
        /\ \A v \in Workers : wk'[v].st.req \in {wk[v].st.req, NoRequest, wk[v].req}
                                                  \cup {state[n].req : n \in FileNames}
        /\ \A n \in FileNames : state'[n].req \in {state[n].req, NoRequest, wk[w].st.req}
    BY <1>2, <2>1, WkSources DEF rxVars
  <2> QED
    BY <2>2 DEF Carried
<1> QED
  BY <1>1, <1>2 DEF ServiceNext

LEMMA CarriedStays ==
  ASSUME TypeInv, CallTypeOK, CarriedAsked, ServiceNext, UNCHANGED submitted
  PROVE  CarriedAsked'
<1>1. AskedTasks' = AskedTasks
  BY DEF AskedTasks
<1>2. ASSUME NEW q \in Carried', q # NoRequest PROVE q.task \in AskedTasks
  BY <1>2, CarriedSources, ReceivedTask DEF CarriedAsked
<1> QED
  BY <1>1, <1>2 DEF CarriedAsked

-----------------------------------------------------------------------------
(* A step of a call submits its own task or nothing, and ends the call at  *)
(* most.                                                                   *)

EndsOnce(k) == k.outcome = "none" <=> k.pc # "over"

LEMMA CallEndsOnce ==
  ASSUME ClientInv, OutcomeAtEnd, NEW c \in Calls, CallStep(c) \/ Kill(c)
  PROVE  call[c].outcome = "none" /\ EndsOnce(call'[c])
<1>t. call \in [Calls -> CallStates] /\ call[c] \in CallStates
  BY DEF ClientInv, ClientTypeOK, CallTypeOK
<1>0. call[c].pc # "over" /\ call[c].outcome = "none"
  <2>1. call[c].pc # "over"
    BY DEF CallStep, Refuse, Start, OpenRequest, CloseRequest, Bind, SendAll, Pass, Waiting,
           TakeReply, ReplyTimeout, TakeDone, DoneTimedOut, Conclude, Kill
  <2> QED
    BY <2>1 DEF OutcomeAtEnd
<1> SUFFICES EndsOnce(call'[c])
  BY <1>0
<1>1. ASSUME NEW k, Become(c, k), EndsOnce(k) PROVE EndsOnce(call'[c])
  BY <1>1, <1>t DEF Become
<1>2. ASSUME NEW outcome, outcome # "none", End(c, outcome) PROVE EndsOnce(call'[c])
  BY <1>2, <1>t DEF End, Become, EndsOnce, CallStates
<1>3. ASSUME NEW pc, pc # "over", CallGoto(c, pc) PROVE EndsOnce(call'[c])
  BY <1>3, <1>0, <1>t DEF CallGoto, Become, EndsOnce, CallStates
<1>4. ASSUME NEW path, Retry(c, path) PROVE EndsOnce(call'[c])
  BY <1>4, <1>t DEF Retry, Become, EndsOnce, CallStates
<1>5. CASE Refuse(c) \/ OpenRequest(c) \/ CloseRequest(c) \/ Bind(c)
  BY <1>2, <1>3, <1>5 DEF Refuse, OpenRequest, CloseRequest, Bind
<1>6. CASE Start(c)
  BY <1>6, <1>0, <1>t DEF Start, Become, EndsOnce, CallStates
<1>7. CASE SendAll(c)
  <2> DEFINE k == [call[c] EXCEPT !.pc = "waitReply", !.attempt = call[c].attempt + 1,
                                  !.left = AcceptedTimeout]
  <2>1. EndsOnce(k)
    BY <1>0, <1>t DEF EndsOnce, CallStates
  <2>2. Become(c, k) \/ End(c, "sendto")
    BY <1>7 DEF SendAll
  <2> QED
    BY <1>1, <1>2, <2>1, <2>2
<1>8. CASE Pass(c)
  BY <1>8, <1>0, <1>t DEF Pass, Become, EndsOnce, CallStates
<1>9. CASE TakeReply(c)
  <2> PICK r \in Heard(c) :
        \/ Become(c, [call[c] EXCEPT !.pc = "waitDone", !.left = DoneTimeout,
                                     !.path = PathOf(c, r)])
        \/ Become(c, [call[c] EXCEPT !.pc = "conclude", !.left = 0,
                                     !.path = PathOf(c, r), !.status = r.status])
        \/ Retry(c, PathOf(c, r))
    BY <1>9 DEF TakeReply
  <2> DEFINE wait == [call[c] EXCEPT !.pc = "waitDone", !.left = DoneTimeout,
                                     !.path = PathOf(c, r)]
             stop == [call[c] EXCEPT !.pc = "conclude", !.left = 0,
                                     !.path = PathOf(c, r), !.status = r.status]
  <2>1. EndsOnce(wait) /\ EndsOnce(stop)
    BY <1>0, <1>t DEF EndsOnce, CallStates
  <2>2. Become(c, wait) \/ Become(c, stop) \/ Retry(c, PathOf(c, r))
    OBVIOUS
  <2> HIDE DEF wait, stop
  <2> QED
    BY <1>1, <1>4, <2>1, <2>2
<1>10. CASE ReplyTimeout(c)
  BY <1>4, <1>10 DEF ReplyTimeout
<1>11. CASE TakeDone(c)
  <2> PICK r \in Heard(c) :
        Become(c, [call[c] EXCEPT !.pc = "conclude", !.left = 0,
                                  !.path = PathOf(c, r), !.status = r.status])
    BY <1>11 DEF TakeDone
  <2> QED
    BY <1>0, <1>t DEF Become, EndsOnce, CallStates
<1>12. CASE DoneTimedOut(c)
  BY <1>12, <1>t DEF DoneTimedOut, Become, EndsOnce, CallStates
<1>13. CASE Conclude(c)
  <2>1. CASE ReadResult(c)
    BY <2>1, <1>t DEF ReadResult, Become, EndsOnce, CallStates
  <2>2. CASE End(c, "failed") \/ End(c, "unexpected")
    BY <1>2, <2>2
  <2> QED
    BY <1>13, <2>1, <2>2 DEF Conclude
<1>14. CASE Kill(c)
  BY <1>14, <1>t DEF Kill, Become, EndsOnce, CallStates
<1> QED
  BY <1>0, <1>5, <1>6, <1>7, <1>8, <1>9, <1>10, <1>11, <1>12, <1>13, <1>14 DEF CallStep

LEMMA CallAsks ==
  ASSUME ClientInv, NEW c \in Calls, CallStep(c) \/ Kill(c)
  PROVE  \/ UNCHANGED submitted
         \/ submitted' = submitted \cup {Datagram(c)} /\ call'[c].outcome = call[c].outcome
<1>t. call \in [Calls -> CallStates] /\ call[c] \in CallStates
  BY DEF ClientInv, ClientTypeOK, CallTypeOK
<1>1. CASE SendAll(c)
  BY <1>1, <1>t DEF SendAll, Become, CallStates
<1>2. CASE ~SendAll(c)
  BY <1>2 DEF CallStep, Refuse, Start, OpenRequest, CloseRequest, Bind, Pass, TakeReply,
              ReplyTimeout, TakeDone, DoneTimedOut, Conclude, Kill
<1> QED
  BY <1>1, <1>2

-----------------------------------------------------------------------------
(* The invariant, and the step.                                            *)

LEMMA OutcomeAtEndStep ==
  ASSUME ClientInv, OutcomeAtEnd, [EndToEndNext]_allVars
  PROVE  OutcomeAtEnd'
<1>1. CASE UNCHANGED callVars
  BY <1>1 DEF OutcomeAtEnd, callVars
<1>2. CASE CallNext
  <2>1. PICK c \in Calls : CallStep(c) \/ Kill(c)
    BY <1>2 DEF CallNext
  <2>2. EndsOnce(call'[c])
    BY <2>1, CallEndsOnce
  <2>3. \A d \in Calls \ {c} : call'[d] = call[d]
    BY <2>1, CallFollows DEF ClientInv, ClientTypeOK, CallTypeOK
  <2> QED
    BY <2>2, <2>3 DEF OutcomeAtEnd, EndsOnce
<1> QED
  BY <1>1, <1>2 DEF EndToEndNext, allVars

LEMMA CarriedStep ==
  ASSUME EndToEndInv, CarriedAsked, [EndToEndNext]_allVars
  PROVE  CarriedAsked'
<1>1. CASE ServiceNext /\ UNCHANGED callVars
  BY <1>1, CarriedStays DEF EndToEndInv, ClientInv, ClientTypeOK, callVars
<1>2. CASE UNCHANGED vars /\ submitted \subseteq submitted'
  <2>1. Carried' = Carried
    BY <1>2 DEF Carried, vars, shared, rxVars, wkVars
  <2> QED
    BY <1>2, <2>1 DEF CarriedAsked, AskedTasks
<1>3. CASE CallNext /\ UNCHANGED vars
  <2>1. submitted \subseteq submitted'
    BY <1>3, CallAsks DEF CallNext, EndToEndInv
  <2> QED
    BY <1>2, <1>3, <2>1
<1> QED
  BY <1>1, <1>2, <1>3 DEF EndToEndNext, allVars, callVars

(* What a step of the service earns was asked for.                         *)
LEMMA ServiceSees ==
  ASSUME ServiceInv, CarriedAsked', ServiceNext, UNCHANGED callVars
  PROVE  \E tasks \in SUBSET AskedTasks : Remote!SeeThrough(tasks)
<1>1. EarnedTasks \subseteq EarnedTasks'
  BY ServiceStep, EarnedGrows DEF ServiceInv, EndToEndInv, Inv, OwnInv, EarnedInv, EndToEndNext
<1>2. AskedTasks' = AskedTasks
  BY DEF AskedTasks, callVars
<1>3. ASSUME NEW t \in EarnedTasks' PROVE t \in AskedTasks
  <2>1. PICK j \in Jobs : job'[j].task = t /\ t \in TaskIds
    BY <1>3 DEF EarnedTasks
  <2>2. job'[j] # NoRequest
    BY <2>1, NameAssumption DEF NoRequest
  <2>3. job'[j] \in Carried'
    BY DEF Carried
  <2> QED
    BY <1>2, <2>1, <2>2, <2>3 DEF CarriedAsked
<1>4. [c \in Calls |-> Verdict(c)]' = [c \in Calls |-> Verdict(c)]
  BY DEF Verdict, Task, callVars
<1>5. EarnedTasks' \in SUBSET AskedTasks /\ EarnedTasks' = EarnedTasks \cup EarnedTasks'
  BY <1>1, <1>3
<1> QED
  BY <1>2, <1>4, <1>5 DEF Remote!SeeThrough

LEMMA CallReturns ==
  ASSUME ServiceInv, OutcomeAtEnd, CallsEarned, OkIsOwn', CallNext, UNCHANGED vars
  PROVE  [Remote!Next]_(Remote!vars)
<1>i. ClientInv
  BY DEF ServiceInv, EndToEndInv
<1>1. EarnedTasks' = EarnedTasks
  BY DEF EarnedTasks, Stranded, Leases, vars, shared, wkVars
<1>2. PICK c \in Calls : CallStep(c) \/ Kill(c)
  BY DEF CallNext
<1>3. PICK k : call' = [call EXCEPT ![c] = k] /\ Follows(c, k)
  BY <1>i, <1>2, CallFollows
<1>4. call'[c] = k /\ \A d \in Calls \ {c} : call'[d] = call[d]
  BY <1>i, <1>3 DEF ClientInv, ClientTypeOK, CallTypeOK
<1>5. call[c].outcome = "none"
  BY <1>i, <1>2, CallEndsOnce
<1> DEFINE told == [d \in Calls |-> Verdict(d)]
<1>6. told[c] = "none" /\ \A d \in Calls \ {c} : told'[d] = told[d]
  BY <1>4, <1>5 DEF Verdict, Task
<1>7. CASE submitted' = submitted \cup {Datagram(c)} /\ k.outcome = "none"
  <2>1. told' = told
    BY <1>4, <1>6, <1>7 DEF Verdict, Task
  <2>0. Datagram(c).task = Task(c)
    BY DEF Datagram
  <2>2. AskedTasks' = AskedTasks \cup {Task(c)}
    BY <1>7, <2>0 DEF AskedTasks
  <2>3. Remote!Ask(c)
    BY <1>1, <2>1, <2>2 DEF Remote!Ask
  <2> QED
    BY <2>3 DEF Remote!Next
<1>8. CASE UNCHANGED submitted
  <2>0. AskedTasks' = AskedTasks
    BY <1>8 DEF AskedTasks
  <2>1. CASE k.outcome = "none"
    <3>1. told' = told
      BY <1>4, <1>6, <2>1 DEF Verdict, Task
    <3> QED
      BY <1>1, <2>0, <3>1 DEF Remote!vars
  <2>2. CASE k.outcome = "ok"
    <3>1. Task(c) \in EarnedTasks
      BY <1>3, <1>5, <2>2 DEF Follows, OkRead, CallsEarned
    <3>2. told'[c] = "result"
      BY <1>4, <2>2 DEF Verdict, Task, OkIsOwn
    <3>3. told' = [told EXCEPT ![c] = "result"]
      BY <1>6, <3>2
    <3>4. Remote!ReturnResult(c)
      BY <1>1, <1>6, <2>0, <3>1, <3>3 DEF Remote!ReturnResult
    <3> QED
      BY <3>4 DEF Remote!Next
  <2>3. CASE k.outcome \notin {"none", "ok"}
    <3>2. told'[c] = "error"
      BY <1>4, <2>3 DEF Verdict
    <3>3. told' = [told EXCEPT ![c] = "error"]
      BY <1>6, <3>2
    <3>4. Remote!ReturnError(c)
      BY <1>1, <1>6, <2>0, <3>3 DEF Remote!ReturnError
    <3> QED
      BY <3>4 DEF Remote!Next
  <2> QED
    BY <2>1, <2>2, <2>3
<1> QED
  BY <1>2, <1>4, <1>5, <1>7, <1>8, <1>i, CallAsks

(* Clients and service implement RemoteCall: a task is seen through only   *)
(* when it was asked for, a call ends once, and with a result only when its*)
(* task was seen through, and with its own.  It takes what the theorems on *)
(* "success" and on results take.                                          *)
THEOREM CallsAreRemote ==
  ASSUME NEW owner, NamesApart, ForeignApart, ResultsApart(owner)
  PROVE  EndToEndSpec => RemoteSpec
<1> DEFINE RemoteInv == CarriedAsked /\ OutcomeAtEnd /\ CallsEarned /\ ResultsOwned(owner)
<1>1. EndToEndInit => ServiceInv /\ RemoteInv /\ Remote!Init
  <2> SUFFICES ASSUME EndToEndInit PROVE ServiceInv /\ RemoteInv /\ Remote!Init
    OBVIOUS
  <2> USE DEF EndToEndInit, Init, QueueInit, RxInit, WkInit, RxIdle, WkIdle, CallInit, Fresh, Absent
  <2>1. ServiceInv
    BY ServiceStarts
  <2>2. CarriedAsked /\ OutcomeAtEnd /\ CallsEarned
    BY DEF CarriedAsked, Carried, OutcomeAtEnd, CallsEarned
  <2>3. ResultsOwned(owner)
    BY TextAssumption DEF ResultsOwned, OkIsOwn
  <2>4. EarnedTasks = {}
    BY NameAssumption DEF EarnedTasks, NoRequest
  <2>5. AskedTasks = {} /\ [c \in Calls |-> Verdict(c)] = [c \in Calls |-> "none"]
    BY DEF AskedTasks, Verdict
  <2> QED
    BY <2>1, <2>2, <2>3, <2>4, <2>5 DEF Remote!Init
<1>2. ServiceInv /\ RemoteInv /\ [EndToEndNext]_allVars => RemoteInv'
  BY CarriedStep, OutcomeAtEndStep, CallsEarnedStep, ResultsOwnedStep DEF ServiceInv, EndToEndInv
<1>3. ServiceInv /\ RemoteInv /\ RemoteInv' /\ [EndToEndNext]_allVars
        => [Remote!Next]_(Remote!vars)
  <2> SUFFICES ASSUME ServiceInv, RemoteInv, RemoteInv', [EndToEndNext]_allVars
               PROVE  [Remote!Next]_(Remote!vars)
    OBVIOUS
  <2>1. CASE ServiceNext /\ UNCHANGED callVars
    BY <2>1, ServiceSees DEF Remote!Next
  <2>2. CASE CallNext /\ UNCHANGED vars
    BY <2>2, CallReturns DEF ResultsOwned
  <2>3. CASE UNCHANGED allVars
    BY <2>3 DEF Remote!vars, AskedTasks, EarnedTasks, Stranded, Leases, Verdict, Task,
                allVars, vars, shared, wkVars, callVars
  <2> QED
    BY <2>1, <2>2, <2>3 DEF EndToEndNext
<1> QED
  BY <1>1, <1>2, <1>3, ServiceInvariance, PTL DEF EndToEndSpec, RemoteSpec, Remote!Spec

-----------------------------------------------------------------------------
(* "failed".  The request of a call is in its file when it is submitted.   *)

BeforeSocket == {"start", "openRequest", "closeRequest", "bind"}

(* What a step of a call does to its request file and to the network.      *)
CallMoves(c) ==
  \/ /\ call[c].pc = "openRequest" /\ call'[c].pc = "closeRequest"
     /\ request' = [request EXCEPT ![RequestPath(c)] = "empty"]
     /\ UNCHANGED submitted
  \/ /\ call[c].pc = "closeRequest" /\ call'[c].pc = "bind"
     /\ CallFails \/ request' = [request EXCEPT ![RequestPath(c)] = Config[c].template]
     /\ UNCHANGED submitted
  \/ /\ call[c].pc = "send" /\ call'[c].pc = "waitReply"
     /\ submitted' = submitted \cup {Datagram(c)}
     /\ UNCHANGED request
  \/ /\ call[c].pc \in Sockets
     /\ call'[c].pc \in Sockets \cup {"conclude", "over"}
     /\ UNCHANGED <<request, submitted>>
  \/ /\ call[c].pc = "conclude" /\ call'[c].pc = "over"
     /\ UNCHANGED <<request, submitted>>
  \/ /\ call[c].pc \in BeforeSocket
     /\ call'[c].pc \in {"openRequest", "over"} \/ (call[c].pc = "bind" /\ call'[c].pc = "send")
     /\ UNCHANGED <<request, submitted>>

(* It reports "failed" when it was told so.                                *)
FailedTold(c) ==
  call'[c].outcome = "failed" =>
    \/ call[c].outcome = "failed"
    \/ call[c].pc = "conclude" /\ call[c].status = "failed"

LEMMA CallProgress ==
  ASSUME ClientInv, NEW c \in Calls, CallStep(c) \/ Kill(c)
  PROVE  /\ CallMoves(c) /\ FailedTold(c)
         /\ CallFails \/ UNCHANGED callFaults
<1>t. call \in [Calls -> CallStates] /\ call[c] \in CallStates
  BY DEF ClientInv, ClientTypeOK, CallTypeOK
<1>f. CallFails \/ UNCHANGED callFaults
  BY DEF CallStep, Refuse, Start, OpenRequest, CloseRequest, Bind, SendAll, Pass, TakeReply,
         ReplyTimeout, TakeDone, DoneTimedOut, WaitEnds, Conclude, Kill, CallWorks
<1> SUFFICES CallMoves(c) /\ FailedTold(c)
  BY <1>f
<1>1. ASSUME NEW k, Become(c, k) PROVE call'[c] = k
  BY <1>1, <1>t DEF Become
<1>2. ASSUME NEW outcome, End(c, outcome)
      PROVE  call'[c].pc = "over" /\ call'[c].outcome = outcome
  BY <1>2, <1>t DEF End, Become, CallStates
<1>3. ASSUME NEW pc, CallGoto(c, pc)
      PROVE  call'[c].pc = pc /\ call'[c].outcome = call[c].outcome
  BY <1>3, <1>t DEF CallGoto, Become, CallStates
<1>4. ASSUME NEW path, Retry(c, path)
      PROVE  call'[c].pc \in {"send", "over"} /\ call'[c].outcome # "failed"
  BY <1>4, <1>t DEF Retry, Become, CallStates
<1>5. CASE Refuse(c)
  BY <1>2, <1>5 DEF Refuse, CallMoves, FailedTold, BeforeSocket
<1>6. CASE Start(c)
  <2>1. call'[c].pc = "openRequest" /\ call'[c].outcome = call[c].outcome
    BY <1>6, <1>t DEF Start, Become, CallStates
  <2> QED
    BY <1>6, <2>1 DEF Start, CallMoves, FailedTold, BeforeSocket
<1>7. CASE OpenRequest(c)
  BY <1>2, <1>3, <1>7 DEF OpenRequest, CallMoves, FailedTold, BeforeSocket
<1>8. CASE CloseRequest(c)
  BY <1>2, <1>3, <1>8 DEF CloseRequest, CallMoves, FailedTold, BeforeSocket
<1>9. CASE Bind(c)
  BY <1>2, <1>3, <1>9 DEF Bind, CallMoves, FailedTold, BeforeSocket
<1>10. CASE SendAll(c)
  <2>1. CASE End(c, "sendto") /\ UNCHANGED <<request, submitted>>
    BY <1>2, <1>10, <2>1 DEF SendAll, CallMoves, FailedTold, Sockets
  <2>2. CASE /\ submitted' = submitted \cup {Datagram(c)}
             /\ Become(c, [call[c] EXCEPT !.pc = "waitReply", !.attempt = call[c].attempt + 1,
                                          !.left = AcceptedTimeout])
    <3>1. call'[c].pc = "waitReply" /\ call'[c].outcome = call[c].outcome
      BY <1>t, <2>2 DEF Become, CallStates
    <3> QED
      BY <1>10, <2>2, <3>1 DEF SendAll, CallMoves, FailedTold
  <2> QED
    BY <1>10, <2>1, <2>2 DEF SendAll
<1>11. CASE Pass(c)
  <2>1. call'[c].pc = call[c].pc /\ call'[c].outcome = call[c].outcome
    BY <1>11, <1>t DEF Pass, Become, CallStates
  <2> QED
    BY <1>11, <2>1 DEF Pass, Waiting, CallMoves, FailedTold, Sockets
<1>12. CASE TakeReply(c)
  <2> PICK r \in Heard(c) :
        \/ Become(c, [call[c] EXCEPT !.pc = "waitDone", !.left = DoneTimeout,
                                     !.path = PathOf(c, r)])
        \/ Become(c, [call[c] EXCEPT !.pc = "conclude", !.left = 0,
                                     !.path = PathOf(c, r), !.status = r.status])
        \/ Retry(c, PathOf(c, r))
    BY <1>12 DEF TakeReply
  <2>a. ASSUME Become(c, [call[c] EXCEPT !.pc = "waitDone", !.left = DoneTimeout,
                                         !.path = PathOf(c, r)])
        PROVE  call'[c].pc = "waitDone" /\ call'[c].outcome = call[c].outcome
    BY <1>t, <2>a DEF Become, CallStates
  <2>b. ASSUME Become(c, [call[c] EXCEPT !.pc = "conclude", !.left = 0,
                                         !.path = PathOf(c, r), !.status = r.status])
        PROVE  call'[c].pc = "conclude" /\ call'[c].outcome = call[c].outcome
    BY <1>t, <2>b DEF Become, CallStates
  <2>1. /\ call'[c].pc \in {"waitDone", "conclude", "send", "over"}
        /\ call'[c].outcome = call[c].outcome \/ call'[c].outcome # "failed"
    BY <1>4, <2>a, <2>b
  <2> QED
    BY <1>12, <2>1 DEF TakeReply, CallMoves, FailedTold, Sockets
<1>13. CASE ReplyTimeout(c)
  BY <1>4, <1>13 DEF ReplyTimeout, CallMoves, FailedTold, Sockets
<1>14. CASE TakeDone(c)
  <2> PICK r \in Heard(c) :
        Become(c, [call[c] EXCEPT !.pc = "conclude", !.left = 0,
                                  !.path = PathOf(c, r), !.status = r.status])
    BY <1>14 DEF TakeDone
  <2>1. call'[c].pc = "conclude" /\ call'[c].outcome = call[c].outcome
    BY <1>t DEF Become, CallStates
  <2> QED
    BY <1>14, <2>1 DEF TakeDone, CallMoves, FailedTold, Sockets
<1>15. CASE DoneTimedOut(c)
  <2>1. call'[c].pc = "over" /\ call'[c].outcome = "noDone"
    BY <1>15, <1>t DEF DoneTimedOut, Become, CallStates
  <2> QED
    BY <1>15, <2>1 DEF DoneTimedOut, CallMoves, FailedTold, Sockets
<1>16. CASE Conclude(c)
  <2>1. CASE ReadResult(c)
    <3>1. call'[c].pc = "over" /\ call'[c].outcome \in {"ok", "noResult"}
      BY <2>1, <1>t DEF ReadResult, Become, CallStates
    <3> QED
      BY <1>16, <3>1 DEF Conclude, CallMoves, FailedTold
  <2>2. CASE (End(c, "failed") /\ call[c].status = "failed") \/ End(c, "unexpected")
    BY <1>2, <1>16, <2>2 DEF Conclude, CallMoves, FailedTold
  <2> QED
    BY <1>16, <2>1, <2>2 DEF Conclude
<1>17. CASE Kill(c)
  <2>1. call'[c].pc = "over" /\ call'[c].outcome = "killed"
    BY <1>17, <1>t DEF Kill, Become, CallStates
  <2>2. call[c].pc \in Sockets \cup {"conclude"} \cup BeforeSocket
    BY <1>17, <1>t DEF Kill, CallStates, BeforeSocket
  <2> QED
    BY <1>17, <2>1, <2>2 DEF Kill, CallMoves, FailedTold
<1> QED
  BY <1>5, <1>6, <1>7, <1>8, <1>9, <1>10, <1>11, <1>12, <1>13, <1>14, <1>15, <1>16, <1>17
     DEF CallStep

(* A harm done to a call is not undone.                                    *)
LEMMA UnharmedBefore ==
  ASSUME ClientInv, CallNext, CallsUnharmed'
  PROVE  CallsUnharmed /\ ~CallFails
<1>1. CallFails \/ UNCHANGED callFaults
  BY CallProgress DEF CallNext
<1>2. callFaults \in Nat
  BY CallAssumption DEF ClientInv, ClientTypeOK, CallTypeOK
<1> QED
  BY <1>1, <1>2 DEF CallFails, CallsUnharmed

LEMMA RequestsThereStep ==
  ASSUME CallsApart, ServiceInv, RequestsThere, [EndToEndNext]_allVars
  PROVE  RequestsThere'
<1>i. ClientInv
  BY DEF ServiceInv, EndToEndInv
<1>p. \A c \in Calls : RequestPath(c) \in Paths \cup {Nil}
  BY CallAssumption, NameAssumption, PathAssumption DEF RequestPath, Task
<1>1. CASE UNCHANGED callVars
  BY <1>1 DEF callVars, RequestsThere, CallsUnharmed, Datagram, Task, RequestPath, ResultPath
<1>2. CASE CallNext
  <2>1. PICK c \in Calls : CallStep(c) \/ Kill(c)
    BY <1>2 DEF CallNext
  <2>2. CallMoves(c) /\ \A d \in Calls \ {c} : call'[d] = call[d]
    BY <1>i, <2>1, CallProgress, CallFollows DEF ClientInv, ClientTypeOK, CallTypeOK
  <2>3. submitted' \in {submitted, submitted \cup {Datagram(c)}}
    BY <2>2 DEF CallMoves
  <2>4. \A d \in Calls : Datagram(d) = Datagram(c) => d = c
    BY DEF CallsApart, Datagram
  <2>5. \A m \in submitted' : \E d \in Calls : m = Datagram(d)
    BY <2>3 DEF RequestsThere
  <2>6. ASSUME NEW d \in Calls, Datagram(d) \in submitted'
        PROVE  call'[d].pc \in Sockets \cup {"conclude", "over"}
    <3>1. CASE d # c
      <4>1. Datagram(d) \in submitted
        BY <2>3, <2>4, <2>6, <3>1
      <4> QED
        BY <2>2, <3>1, <4>1 DEF RequestsThere
    <3>2. CASE d = c
      <4>1. Datagram(c) \in submitted => call[c].pc \in Sockets \cup {"conclude", "over"}
        BY DEF RequestsThere
      <4> QED
        BY <2>2, <2>6, <3>2, <4>1 DEF CallMoves, Sockets, BeforeSocket
    <3> QED
      BY <3>1, <3>2
  <2>7. ASSUME CallsUnharmed', NEW d \in Calls,
               call'[d].pc \in Sockets \cup {"bind"} \/ Datagram(d) \in submitted'
        PROVE  RequestPath(d) # Nil /\ request'[RequestPath(d)] = Config[d].template
    <3>0. CallsUnharmed /\ ~CallFails
      BY <1>2, <1>i, <2>7, UnharmedBefore
    <3>a. ASSUME call[d].pc \in Sockets \cup {"bind"} \/ Datagram(d) \in submitted
          PROVE  RequestPath(d) # Nil /\ request[RequestPath(d)] = Config[d].template
      BY <3>0, <3>a DEF RequestsThere
    <3>b. request \in [Paths -> RequestTexts]
      BY <1>i DEF ClientInv, ClientTypeOK, CallTypeOK
    <3>1. CASE d # c
      <4>1. call[d].pc \in Sockets \cup {"bind"} \/ Datagram(d) \in submitted
        BY <2>2, <2>3, <2>4, <2>7, <3>1
      <4>2. RequestPath(d) # RequestPath(c)
        BY <3>1, <3>a, <4>1 DEF CallsApart
      <4>3. UNCHANGED request \/ \E text : request' = [request EXCEPT ![RequestPath(c)] = text]
        BY <2>2, <3>0 DEF CallMoves
      <4>4. request'[RequestPath(d)] = request[RequestPath(d)]
        BY <1>p, <3>a, <3>b, <4>1, <4>2, <4>3
      <4> QED
        BY <3>a, <4>1, <4>4
    <3>2. CASE d = c
      <4>1. CASE call[c].pc = "closeRequest" /\ call'[c].pc = "bind"
        <5>1. RequestPath(c) \in Paths
          BY <1>i, <4>1 DEF ClientInv, Validated
        <5>2. request' = [request EXCEPT ![RequestPath(c)] = Config[c].template]
          BY <2>2, <3>0, <4>1 DEF CallMoves, Sockets, BeforeSocket
        <5> QED
          BY <3>2, <3>b, <5>1, <5>2, PathAssumption
      <4>2. CASE call[c].pc \in Sockets \cup {"bind"} /\ UNCHANGED request
        BY <3>2, <3>a, <4>2
      <4>3. CASE Datagram(c) \in submitted /\ UNCHANGED request
        BY <3>2, <3>a, <4>3
      <4>4. Datagram(c) \in submitted => call[c].pc \in Sockets \cup {"conclude", "over"}
        BY DEF RequestsThere
      <4> QED
        <5>1. CASE call[c].pc = "openRequest" /\ call'[c].pc = "closeRequest" /\ UNCHANGED submitted
          BY <2>7, <3>2, <4>4, <5>1 DEF Sockets
        <5>2. CASE call[c].pc \in Sockets /\ UNCHANGED request
          BY <4>2, <5>2
        <5>3. CASE call'[c].pc = "over" /\ UNCHANGED <<request, submitted>>
          BY <2>7, <3>2, <4>3, <5>3 DEF Sockets
        <5>4. CASE call'[c].pc = "openRequest" /\ UNCHANGED submitted
                   /\ call[c].pc \in BeforeSocket
          BY <2>7, <3>2, <4>4, <5>4 DEF Sockets, BeforeSocket
        <5>5. CASE call[c].pc = "bind" /\ UNCHANGED request
          BY <4>2, <5>5
        <5> QED
          BY <2>2, <4>1, <5>1, <5>2, <5>3, <5>4, <5>5 DEF CallMoves, Sockets
    <3> QED
      BY <3>1, <3>2
  <2> QED
    BY <2>5, <2>6, <2>7 DEF RequestsThere, Datagram, Task, RequestPath, ResultPath
<1> QED
  BY <1>1, <1>2 DEF EndToEndNext, allVars

LEMMA CarriedSubmittedStep ==
  ASSUME EndToEndInv, CarriedSubmitted, [EndToEndNext]_allVars
  PROVE  CarriedSubmitted'
<1>1. CASE ServiceNext /\ UNCHANGED callVars
  <2>1. ASSUME NEW m \in submitted
        PROVE  Received(m).task = m.task /\ Received(m).input = NormalForm[m.input]
    <3>1. m.task \in TaskIds
      BY DEF EndToEndInv, ClientInv, ClientTypeOK, CallTypeOK
    <3> QED
      BY <3>1, NameAssumption DEF Received, Completed
  <2>2. ASSUME NEW q \in Carried', q # NoRequest
        PROVE  \E m \in submitted : q.task = m.task /\ q.input = NormalForm[m.input]
    BY <1>1, <2>1, <2>2, CarriedSources DEF CarriedSubmitted, EndToEndInv
  <2> QED
    BY <1>1, <2>2 DEF CarriedSubmitted, callVars
<1>2. CASE UNCHANGED vars /\ submitted \subseteq submitted'
  <2>1. Carried' = Carried
    BY <1>2 DEF Carried, vars, shared, rxVars, wkVars
  <2> QED
    BY <1>2, <2>1 DEF CarriedSubmitted
<1>3. CASE CallNext /\ UNCHANGED vars
  <2>1. submitted \subseteq submitted'
    BY <1>3, CallAsks DEF CallNext, EndToEndInv
  <2> QED
    BY <1>2, <1>3, <2>1
<1> QED
  BY <1>1, <1>2, <1>3 DEF EndToEndNext, allVars, callVars

-----------------------------------------------------------------------------
(* Where no file operation of the service fails, only a request that could *)
(* not be processed fails.                                                 *)

LEMMA NothingFails ==
  ASSUME MaxFaults = 0, TypeInv PROVE ~Fails
BY DEF TypeInv, TypeOK, QueueTypeOK, Fails

(* The receiver takes every request that was submitted.                    *)
LEMMA SubmittedTaken ==
  ASSUME RequestsNormal, RequestsThere, CallsUnharmed, NEW m \in submitted
  PROVE  \E c \in Calls : /\ m = Datagram(c) /\ m.task = Task(c)
                          /\ RequestPath(c) # Nil /\ NormalForm[m.input] = RequestPath(c)
                          /\ request[RequestPath(c)] = Config[c].template
<1>1. PICK c \in Calls : m = Datagram(c)
  BY DEF RequestsThere
<1>2. RequestPath(c) # Nil /\ request[RequestPath(c)] = Config[c].template
  BY <1>1 DEF RequestsThere
<1> QED
  BY <1>1, <1>2 DEF RequestsNormal, Datagram

(* What the receiver says of a task.                                       *)
LEMMA ReceiverDeserves ==
  ASSUME MaxFaults = 0, RequestsNormal, TypeInv, RequestsThere, FailuresDeserved,
         CallsUnharmed, ReceiveSubmitted \/ Handle \/ RxCrash
  PROVE  /\ rx'.status # "failed" /\ (rx'.pc = "reply" => rx'.status = "pending")
         /\ \A n \in FileNames :
              state'[n].status = "failed" => state'[n].req.task \notin GoodTasks
         /\ \A r \in sent' : r.status = "failed" => r.task \notin GoodTasks
<1>t. /\ state \in [FileNames -> TaskStates \cup {Absent, Empty}]
      /\ rx \in [pc : {"recv", "openState", "closeState", "openJob", "closeJob", "reply"},
                 req : Requests \cup {NoRequest},
                 status : {"accepted", "pending", "failed"}, job : Jobs \cup {NoJob}]
  BY DEF TypeInv, TypeOK, QueueTypeOK, RxTypeOK
<1>f. ~Fails
  BY NothingFails
<1>d. /\ rx.status # "failed" /\ (rx.pc = "reply" => rx.status = "pending")
      /\ \A n \in FileNames : state[n].status = "failed" => state[n].req.task \notin GoodTasks
      /\ \A r \in sent : r.status = "failed" => r.task \notin GoodTasks
  BY DEF FailuresDeserved
<1>1. CASE ReceiveSubmitted
  <2>1. PICK m \in submitted : Reject(m) \/ Answer(m) \/ Begin(m)
    BY <1>1 DEF ReceiveSubmitted
  <2>2. PICK c \in Calls : m.task = Task(c) /\ RequestPath(c) # Nil
                             /\ NormalForm[m.input] = RequestPath(c)
    BY SubmittedTaken
  <2>3. Task(c) \in TaskIds /\ Nil \notin TaskIds
    BY CallAssumption, NameAssumption DEF Task
  <2>4. Received(m).input # Nil /\ Received(m).task = Task(c)
    BY <2>2, <2>3 DEF Received, Completed
  <2>5. UNCHANGED state /\ (rx' = rx \/ rx' = [RxIdle EXCEPT !.pc = "openState", !.req = Received(m)])
    BY <2>1 DEF Reject, Answer, Begin, rxVars
  <2>6. \A r \in sent' : r.status = "failed" => r.task \notin GoodTasks
    <3>1. CASE Answer(m)
      <4> DEFINE st == state[StateFile(Received(m).task)]
      <4>1. ReplyForState(st, Received(m).client).status = "failed" => st.status = "failed"
        BY DEF ReplyForState, Terminal
      <4>2. ReplyForState(st, Received(m).client).task = st.req.task
        BY DEF ReplyForState
      <4>3. StateFile(Received(m).task) \in FileNames
        BY <2>3, <2>4, NameAssumption DEF StateFile
      <4>4. st.status = "failed" => st.req.task \notin GoodTasks
        BY <1>d, <4>3
      <4>5. sent' \in {sent, sent \cup {ReplyForState(st, Received(m).client)}}
        BY <3>1 DEF Answer, Send
      <4> QED
        BY <1>d, <4>1, <4>2, <4>4, <4>5
    <3>2. CASE Begin(m)
      BY <1>d, <3>2 DEF Begin
    <3> QED
      BY <2>1, <2>4, <3>1, <3>2 DEF Reject
  <2> QED
    BY <1>d, <1>t, <2>5, <2>6 DEF RxIdle
<1>2. CASE RxOpenState
  <2>1. OpenStateFile(rx.req.task) /\ rx' = [rx EXCEPT !.pc = "closeState"] /\ UNCHANGED sent
    BY <1>2, <1>f DEF RxOpenState
  <2> QED
    BY <1>d, <1>t, <2>1 DEF OpenStateFile, Empty
<1>3. CASE RxCloseState
  <2> DEFINE st == [req |-> rx.req, status |-> rx.status]
  <2>1. CloseStateFile(st) /\ RxStateWritten(TRUE) /\ UNCHANGED sent
    BY <1>3, <1>f DEF RxCloseState
  <2>2. rx'.status = rx.status /\ (rx.status = "accepted" => rx'.pc = "openJob")
    BY <1>t, <2>1 DEF RxStateWritten
  <2>3. rx'.status # "failed" /\ (rx'.pc = "reply" => rx'.status = "pending")
    BY <1>d, <1>t, <2>2
  <2>4. \A n \in FileNames : state'[n] \in {state[n], st}
    BY <1>t, <2>1 DEF CloseStateFile
  <2>5. st.status # "failed"
    BY <1>d
  <2> HIDE DEF st
  <2>6. \A n \in FileNames : state'[n].status = "failed" => state'[n].req.task \notin GoodTasks
    BY <1>d, <2>4, <2>5
  <2> QED
    BY <1>d, <2>1, <2>3, <2>6
<1>4. CASE RxOpenJob
  <2>1. rx'.pc = "closeJob" /\ rx'.status = rx.status /\ UNCHANGED <<state, sent>>
    BY <1>4, <1>f, <1>t DEF RxOpenJob
  <2> QED
    BY <1>d, <2>1
<1>5. CASE RxCloseJob
  <2>1. rx'.pc = "openState" /\ rx'.status = "pending" /\ UNCHANGED <<state, sent>>
    BY <1>5, <1>f, <1>t DEF RxCloseJob, RxJobWritten
  <2> QED
    BY <1>d, <2>1
<1>6. CASE RxReply
  <2>1. sent' \in {sent, sent \cup {ReplyTo(rx.req, "accepted")}}
    BY <1>6, <1>d DEF RxReply, Send
  <2> QED
    BY <1>d, <1>6, <2>1 DEF RxReply, RxIdle, ReplyTo
<1>7. CASE RxCrash
  BY <1>d, <1>7 DEF RxCrash, RxIdle, shared
<1> QED
  BY <1>1, <1>2, <1>3, <1>4, <1>5, <1>6, <1>7 DEF Handle

(* A worker can read the request of a good task.                           *)
LEMMA GoodReadable ==
  ASSUME CallsApart, RequestsNormal, CallsUnharmed, RequestsThere, CarriedSubmitted,
         NEW w \in Workers, wk[w].req.task \in GoodTasks
  PROVE  Readable(w)
<1>1. PICK c \in Calls : wk[w].req.task = Task(c) /\ Config[c].template = "good"
  BY DEF GoodTasks
<1>2. Task(c) \in TaskIds /\ Nil \notin TaskIds
  BY CallAssumption, NameAssumption DEF Task
<1>3. wk[w].req \in Carried /\ wk[w].req # NoRequest
  BY <1>1, <1>2 DEF Carried, NoRequest
<1>4. PICK m \in submitted : wk[w].req.task = m.task /\ wk[w].req.input = NormalForm[m.input]
  BY <1>3 DEF CarriedSubmitted
<1>5. PICK d \in Calls : /\ m.task = Task(d) /\ RequestPath(d) # Nil
                         /\ NormalForm[m.input] = RequestPath(d)
                         /\ request[RequestPath(d)] = Config[d].template
  BY SubmittedTaken
<1>6. d = c
  BY <1>1, <1>4, <1>5 DEF CallsApart
<1> QED
  BY <1>1, <1>4, <1>5, <1>6 DEF Readable

(* Where a worker's "failed" comes from.                                   *)
LEMMA WorkerFails ==
  ASSUME MaxFaults = 0, TypeInv, NEW w \in Workers, Step(w) \/ WorkerCrash(w)
  PROVE  \A v \in Workers : wk'[v].st.status = "failed" =>
           /\ wk'[v].st.req = wk[v].st.req
           /\ \/ wk[v].st.status = "failed"
              \/ v = w /\ wk[w].pc = "process" /\ wk'[w].pc = "archive"
<1>t. wk \in [Workers -> WkStates]
  BY DEF TypeInv, TypeOK, WkTypeOK
<1>f. ~Fails
  BY NothingFails
<1>1. CASE Claim(w)
  BY <1>1, <1>t DEF Claim, WkStates
<1>2. CASE LoadState(w)
  <2> DEFINE req   == wk[w].req
             known == IF ReadTaskState(req.task) THEN state[StateFile(req.task)].req ELSE req
  <2>1. wk' = [wk EXCEPT ![w] = [wk[w] EXCEPT !.pc = "openWorking",
                                        !.st = [req |-> known, status |-> "working"]]]
    BY <1>2 DEF LoadState
  <2> HIDE DEF known
  <2>2. (\A v \in Workers \ {w} : wk'[v] = wk[v]) /\ wk'[w].st.status = "working"
    BY <1>t, <2>1 DEF WkStates
  <2> QED
    BY <2>2
<1>3. CASE SkipJob(w) \/ Reply(w) \/ WorkerCrash(w)
  <2>1. (\E todo : NextJob(w, todo)) \/ WorkerCrash(w)
    BY <1>3 DEF SkipJob, Reply
  <2>2. ASSUME NEW todo, NextJob(w, todo)
        PROVE  (\A v \in Workers \ {w} : wk'[v] = wk[v]) /\ wk'[w].st.status = "absent"
    BY <2>2, <1>t DEF NextJob, WkIdle, Absent
  <2>3. ASSUME WorkerCrash(w)
        PROVE  (\A v \in Workers \ {w} : wk'[v] = wk[v]) /\ wk'[w].st.status = "absent"
    BY <2>3, <1>t DEF WorkerCrash, WkIdle, Absent
  <2> QED
    BY <2>1, <2>2, <2>3
<1>4. CASE Glob(w)
  BY <1>4, <1>t DEF Glob, WkStates
<1>5. CASE OpenWorking(w) \/ CloseWorking(w) \/ OpenFinal(w) \/ CloseFinal(w)
           \/ Archive(w) \/ OpenResult(w)
  BY <1>5, <1>t DEF OpenWorking, CloseWorking, OpenFinal, CloseFinal, Archive, OpenResult,
                    OpenState, CloseState, Goto, WkStates
<1>6. ASSUME NEW ok \in BOOLEAN, Processed(w, ok)
      PROVE  /\ \A v \in Workers \ {w} : wk'[v] = wk[v]
             /\ wk'[w].st.req = wk[w].st.req /\ wk'[w].pc = "archive"
             /\ wk'[w].st.status = IF ok THEN "success" ELSE "failed"
  BY <1>6, <1>t DEF Processed, WkStates, TaskStates, Absent
<1>7. CASE ProcessFail(w)
  <2>1. wk[w].pc = "process" /\ Processed(w, FALSE)
    BY <1>7 DEF ProcessFail
  <2> QED
    BY <1>6, <2>1
<1>8. CASE CloseResult(w)
  <2>1. Processed(w, TRUE)
    BY <1>8, <1>f DEF CloseResult
  <2>2. (\A v \in Workers \ {w} : wk'[v] = wk[v]) /\ wk'[w].st.status = "success"
    BY <1>6, <2>1
  <2> QED
    BY <2>2
<1> QED
  BY <1>1, <1>2, <1>3, <1>4, <1>5, <1>7, <1>8 DEF Step

(* What a worker says of a task.                                           *)
LEMMA WorkerDeserves ==
  ASSUME MaxFaults = 0, CallsApart, RequestsNormal, TypeInv, StatesInPlace, RequestsThere,
         CarriedSubmitted, FailuresDeserved, CallsUnharmed,
         NEW w \in Workers, (Step(w) /\ Process(w)) \/ WorkerCrash(w)
  PROVE  /\ \A v \in Workers :
              wk'[v].st.status = "failed" => wk'[v].st.req.task \notin GoodTasks
         /\ \A n \in FileNames :
              state'[n].status = "failed" => state'[n].req.task \notin GoodTasks
         /\ \A r \in sent' : r.status = "failed" => r.task \notin GoodTasks
<1>t. /\ state \in [FileNames -> TaskStates \cup {Absent, Empty}]
      /\ wk \in [Workers -> WkStates]
  BY DEF TypeInv, TypeOK, QueueTypeOK, WkTypeOK
<1>d. /\ \A v \in Workers : wk[v].st.status = "failed" => wk[v].st.req.task \notin GoodTasks
      /\ \A n \in FileNames : state[n].status = "failed" => state[n].req.task \notin GoodTasks
      /\ \A r \in sent : r.status = "failed" => r.task \notin GoodTasks
  BY DEF FailuresDeserved
<1>1. ASSUME NEW v \in Workers, wk'[v].st.status = "failed"
      PROVE  wk'[v].st.req.task \notin GoodTasks
  <2>1. /\ wk'[v].st.req = wk[v].st.req
        /\ \/ wk[v].st.status = "failed"
           \/ v = w /\ wk[w].pc = "process" /\ wk'[w].pc = "archive"
    BY <1>1, WorkerFails
  <2>2. CASE wk[v].st.status = "failed"
    BY <1>d, <2>1, <2>2
  <2>3. CASE v = w /\ wk[w].pc = "process" /\ wk'[w].pc = "archive"
    <3>1. CASE WorkerCrash(w)
      BY <1>1, <1>t, <2>3, <3>1 DEF WorkerCrash, WkIdle, Absent
    <3>2. CASE Process(w)
      <4>1. ~Readable(w)
        BY <2>3, <3>2 DEF Process
      <4>2. wk[w].st.req.task = wk[w].req.task
        BY <2>3 DEF StatesInPlace, Owning, Leasing
      <4> QED
        BY <2>1, <2>3, <4>1, <4>2, GoodReadable
    <3> QED
      BY <3>1, <3>2
  <2> QED
    BY <2>1, <2>2, <2>3
<1>2. ASSUME NEW n \in FileNames, state'[n].status = "failed"
      PROVE  state'[n].req.task \notin GoodTasks
  <2>1. UNCHANGED state \/ OpenStateFile(wk[w].st.req.task) \/ CloseStateFile(wk[w].st)
    BY DEF Step, Glob, Claim, SkipJob, LoadState, OpenWorking, CloseWorking, OpenState,
           CloseState, ProcessFail, OpenResult, CloseResult, Archive, OpenFinal, CloseFinal,
           Reply, WorkerCrash, shared
  <2>2. state'[n] \in {state[n], Empty, wk[w].st}
    BY <1>t, <2>1 DEF OpenStateFile, CloseStateFile
  <2> QED
    BY <1>2, <1>d, <2>2 DEF Empty
<1>3. ASSUME NEW r \in sent', r.status = "failed" PROVE r.task \notin GoodTasks
  <2>1. CASE r \in sent
    BY <1>3, <1>d, <2>1
  <2>2. CASE r \notin sent
    <3>1. Reply(w)
      BY <2>2, <1>3 DEF Step, Glob, Claim, SkipJob, LoadState, OpenWorking, CloseWorking,
             OpenState, CloseState, ProcessFail, OpenResult, CloseResult, Archive, OpenFinal,
             CloseFinal, WorkerCrash, shared
    <3>2. wk[w].pc = "reply" /\ r.task = wk[w].req.task /\ r.status = wk[w].st.status
      BY <2>2, <1>3, <3>1 DEF Reply, Send
    <3>3. wk[w].st.req.task = wk[w].req.task
      BY <3>2 DEF StatesInPlace, Owning
    <3> QED
      BY <1>3, <1>d, <3>2, <3>3
  <2> QED
    BY <2>1, <2>2
<1> QED
  BY <1>1, <1>2, <1>3

(* What a call reports of its task.                                        *)
LEMMA CallDeserves ==
  ASSUME CallsApart, ForeignApart, ServiceInv, FailuresDeserved, CallsUnharmed, CallNext
  PROVE  /\ \A c \in Calls : call'[c].status = "failed" => Task(c) \notin GoodTasks
         /\ \A c \in Calls : call'[c].outcome = "failed" => Config[c].template = "bad"
<1>i. ClientInv
  BY DEF ServiceInv, EndToEndInv
<1>d. /\ \A r \in sent : r.status = "failed" => r.task \notin GoodTasks
      /\ \A c \in Calls : call[c].status = "failed" => Task(c) \notin GoodTasks
      /\ \A c \in Calls : call[c].outcome = "failed" => Config[c].template = "bad"
  BY DEF FailuresDeserved, FailedHasCause
<1>1. PICK c \in Calls : CallStep(c) \/ Kill(c)
  BY DEF CallNext
<1>2. FailedTold(c)
  BY <1>1, <1>i, CallProgress
<1>3. PICK k : call' = [call EXCEPT ![c] = k] /\ Follows(c, k)
  BY <1>1, <1>i, CallFollows
<1>4. call'[c] = k /\ \A d \in Calls \ {c} : call'[d] = call[d]
  BY <1>3, <1>i DEF ClientInv, ClientTypeOK, CallTypeOK
<1>5. k.status = "failed" => Task(c) \notin GoodTasks
  <2>1. k.status = call[c].status \/ \E r \in Heard(c) : k.status = r.status
    BY <1>3 DEF Follows, StatusHeard
  <2>2. ASSUME NEW r \in Heard(c), r.status = "failed" PROVE Task(c) \notin GoodTasks
    BY <1>d, <2>2, HeardIsOwn
  <2> QED
    BY <1>d, <2>1, <2>2
<1>6. k.outcome = "failed" => Config[c].template = "bad"
  <2>1. CASE call[c].pc = "conclude" /\ call[c].status = "failed"
    <3>1. Config[c].template # "none"
      BY <1>i, <2>1 DEF ClientInv, Validated
    <3>2. Config[c].template # "good"
      BY <1>d, <2>1 DEF GoodTasks
    <3>3. Config[c].template \in {"none", "good", "bad"}
      BY CallAssumption DEF Templates
    <3> QED
      BY <3>1, <3>2, <3>3
  <2> QED
    BY <1>2, <1>4, <1>d, <2>1 DEF FailedTold
<1> QED
  BY <1>4, <1>5, <1>6, <1>d

LEMMA FailuresDeservedStep ==
  ASSUME MaxFaults = 0, CallsApart, RequestsNormal, ForeignApart, ServiceInv, RequestsThere,
         CarriedSubmitted, FailuresDeserved, [EndToEndNext]_allVars
  PROVE  FailuresDeserved'
<1> SUFFICES ASSUME CallsUnharmed' PROVE FailuresDeserved'
  BY DEF FailuresDeserved
<1>g. GoodTasks' = GoodTasks /\ \A c \in Calls : Task(c)' = Task(c)
  BY DEF GoodTasks, Task
<1>i. TypeInv /\ ClientInv /\ StatesInPlace
  BY DEF ServiceInv, EndToEndInv, AskedInv
<1>1. CASE ServiceNext /\ UNCHANGED callVars
  <2>0. CallsUnharmed /\ UNCHANGED call
    BY <1>1 DEF CallsUnharmed, callVars
  <2>c. /\ \A c \in Calls : call'[c].status = "failed" => Task(c) \notin GoodTasks
        /\ FailedHasCause'
    BY <2>0 DEF FailuresDeserved, FailedHasCause
  <2>1. CASE (ReceiveSubmitted \/ Handle \/ RxCrash) /\ UNCHANGED wkVars
    <3>1. \A v \in Workers : wk'[v].st.status = "failed" => wk'[v].st.req.task \notin GoodTasks
      BY <2>0, <2>1 DEF FailuresDeserved, wkVars
    <3> QED
      BY <1>g, <1>i, <2>0, <2>c, <2>1, <3>1, ReceiverDeserves DEF FailuresDeserved
  <2>2. CASE (\E w \in Workers : (Step(w) /\ Process(w)) \/ WorkerCrash(w)) /\ UNCHANGED rxVars
    <3>1. rx'.status # "failed" /\ (rx'.pc = "reply" => rx'.status = "pending")
      BY <2>0, <2>2 DEF FailuresDeserved, rxVars
    <3> QED
      BY <1>g, <1>i, <2>0, <2>c, <2>2, <3>1, WorkerDeserves DEF FailuresDeserved
  <2> QED
    BY <1>1, <2>1, <2>2 DEF ServiceNext
<1>2. CASE CallNext /\ UNCHANGED vars
  <2>0. CallsUnharmed
    BY <1>2, <1>i, UnharmedBefore
  <2>1. /\ \A c \in Calls : call'[c].status = "failed" => Task(c) \notin GoodTasks
        /\ \A c \in Calls : call'[c].outcome = "failed" => Config[c].template = "bad"
    BY <1>2, <2>0, CallDeserves
  <2>2. UNCHANGED <<rx, wk, state, sent>>
    BY <1>2 DEF vars, shared, rxVars, wkVars
  <2> QED
    BY <1>g, <2>0, <2>1, <2>2 DEF FailuresDeserved, FailedHasCause
<1>3. CASE UNCHANGED allVars
  BY <1>g, <1>3 DEF allVars, vars, shared, rxVars, wkVars, callVars, FailuresDeserved,
                    FailedHasCause, CallsUnharmed
<1> QED
  BY <1>1, <1>2, <1>3 DEF EndToEndNext

LEMMA FailuresStart ==
  EndToEndInit => RequestsThere /\ CarriedSubmitted /\ FailuresDeserved
<1> SUFFICES ASSUME EndToEndInit PROVE RequestsThere /\ CarriedSubmitted /\ FailuresDeserved
  OBVIOUS
<1>1. RequestsThere
  BY DEF EndToEndInit, CallInit, Fresh, RequestsThere, Sockets
<1>2. \A q \in Carried : q = NoRequest
  BY DEF EndToEndInit, Init, QueueInit, RxInit, RxIdle, WkInit, WkIdle, Absent, Carried
<1>3. FailuresDeserved
  BY DEF EndToEndInit, Init, QueueInit, RxInit, RxIdle, WkInit, WkIdle, Absent, CallInit,
         Fresh, FailuresDeserved, FailedHasCause
<1> QED
  BY <1>1, <1>2, <1>3 DEF CarriedSubmitted

(* FailedHasCause.  Where no file operation of the service fails, a call   *)
(* that is told "failed" gave a request that the service could not process,*)
(* as long as no call was killed or could not write its request; workers   *)
(* and receiver may be killed, and datagrams may come often.               *)
THEOREM FailuresAreDeserved ==
  ASSUME MaxFaults = 0, NamesApart, ForeignApart, CallsApart, RequestsNormal
  PROVE  EndToEndSpec => [](CallsUnharmed => FailedHasCause)
<1> DEFINE Carry == ServiceInv /\ RequestsThere /\ CarriedSubmitted /\ FailuresDeserved
<1>1. EndToEndInit => Carry
  BY ServiceStarts, FailuresStart
<1>2. Carry /\ [EndToEndNext]_allVars => Carry'
  <2> SUFFICES ASSUME Carry, [EndToEndNext]_allVars PROVE Carry'
    OBVIOUS
  <2>1. EndToEndInv
    BY DEF ServiceInv
  <2> QED
    BY <2>1, ServiceInvStep, RequestsThereStep, CarriedSubmittedStep, FailuresDeservedStep
<1>3. Carry => (CallsUnharmed => FailedHasCause)
  BY DEF FailuresDeserved
<1> QED
  BY <1>1, <1>2, <1>3, PTL DEF EndToEndSpec

=============================================================================
