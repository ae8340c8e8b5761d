--------------------------- MODULE TaskQueueProofs ---------------------------
(***************************************************************************)
(* Theorems about TaskQueue, for any tasks, names, paths, datagrams,       *)
(* addresses and workers, and any bounds.                                  *)
(***************************************************************************)
EXTENDS TaskQueue, TLAPS

-----------------------------------------------------------------------------
(* What a datagram becomes is a request, once its input path is accepted.  *)
LEMMA CompletedType ==
  ASSUME NEW m \in Submits, clock \in Nat, clock < MaxClock \/ m.task # Nil
  PROVE  /\ Received(m).task \in TaskIds
         /\ Received(m).input \in Paths \cup {Nil}
         /\ Received(m).result \in Paths
         /\ Received(m).client \in Addresses
         /\ Received(m) = [task |-> Received(m).task, input |-> Received(m).input,
                           result |-> Received(m).result, client |-> Received(m).client]
         /\ Received(m).input # Nil => Received(m) \in Requests
<1>1. /\ m.task \in TaskIds \cup {Nil}
      /\ m.input \in RawPaths /\ m.result \in RawPaths
      /\ m.reply.ip \in Ips \cup {Nil} /\ m.reply.port \in Ports \cup {0}
      /\ m.peer.ip \in Ips /\ m.peer.port \in Ports
  BY SubmitAssumption DEF Addresses
<1>2. ReplyAddress(m) \in Addresses
  BY <1>1 DEF ReplyAddress, Addresses
<1>3. m.task = Nil => clock + 1 \in Ticks
  BY ClockAssumption DEF Ticks
<1>4. Received(m).task \in TaskIds
  BY <1>1, <1>3, ClockAssumption DEF Received, Completed
<1>5. Received(m).result \in Paths
  BY <1>1, <1>3, ClockAssumption, NameAssumption, PathAssumption DEF Received, Completed
<1>6. Received(m).input \in Paths \cup {Nil}
  BY <1>1, PathAssumption DEF Received, Completed
<1> QED
  BY <1>2, <1>4, <1>5, <1>6 DEF Received, Completed, Requests

(* No request and no reply is addressed to nobody.                         *)
LEMMA AddressesReal == NoAddress \notin Addresses /\ NoRequest \notin Requests
BY AddressAssumption, NameAssumption DEF NoAddress, Addresses, NoRequest, Requests

(* A reply made of a request that came has the type of replies.            *)
LEMMA SendType ==
  ASSUME sent \subseteq Replies, NEW reply, Send(reply),
         reply.to \in Addresses => reply \in Replies,
         reply.to \in Addresses \cup {NoAddress}
  PROVE  sent' \subseteq Replies
BY DEF Send

(* A file operation that works or fails keeps the count in its bound.      *)
LEMMA FaultsType ==
  ASSUME faults \in 0 .. MaxFaults, Works \/ Fails
  PROVE  faults' \in 0 .. MaxFaults
BY ClockAssumption DEF Works, Fails

-----------------------------------------------------------------------------
LEMMA InitTypeInv == Init => TypeInv
<1> SUFFICES ASSUME Init PROVE TypeInv
  OBVIOUS
<1> USE DEF Init, QueueInit, RxInit, WkInit, RxIdle, WkIdle
<1>1. QueueTypeOK
  BY ClockAssumption DEF QueueTypeOK, Dirs, ResultTexts
<1>2. RxTypeOK
  BY SubmitAssumption DEF RxTypeOK
<1>3. WkTypeOK
  BY WorkerAssumption DEF WkTypeOK, WkStates
<1>4. ClockRoom /\ OutcomeKnown
  BY DEF ClockRoom, OutcomeKnown
<1> QED
  BY <1>1, <1>2, <1>3, <1>4 DEF TypeInv, TypeOK

(* Every step of the receiver keeps the types.                             *)
LEMMA ReceiverTypeInv ==
  ASSUME TypeInv, ReceiverNext, UNCHANGED wkVars
  PROVE  TypeInv'
<1> USE DEF TypeInv, TypeOK, QueueTypeOK, RxTypeOK
<1>0. WkTypeOK' /\ OutcomeKnown'
  BY DEF wkVars, WkTypeOK, OutcomeKnown
<1>1. ASSUME NEW m \in Submits, Reject(m) PROVE TypeInv'
  <2>1. clock' \in 0 .. MaxClock
    BY <1>1, ClockAssumption DEF Reject, TakesReading
  <2>2. clock < MaxClock \/ m.task # Nil
    BY <1>1, ClockAssumption DEF Reject, TakesReading
  <2> DEFINE reply == ReplyTo(Received(m), "failed")
  <2>3. reply \in Replies
    BY <2>2, CompletedType DEF ReplyTo, Replies
  <2>4. sent' \subseteq Replies
    BY <1>1, <2>3, SendType DEF Reject, Replies
  <2> QED
    BY <1>0, <1>1, <2>1, <2>4 DEF Reject, rxVars, ClockRoom
<1>2. ASSUME NEW m \in Submits, Answer(m) PROVE TypeInv'
  <2>1. clock' \in 0 .. MaxClock
    BY <1>2, ClockAssumption DEF Answer, TakesReading
  <2>2. clock < MaxClock \/ m.task # Nil
    BY <1>2, ClockAssumption DEF Answer, TakesReading
  <2> DEFINE st == state[StateFile(Received(m).task)]
             reply == ReplyForState(st, Received(m).client)
  <2>3. st \in TaskStates \cup {Absent, Empty}
    BY <2>2, CompletedType, NameAssumption DEF StateFile
  <2>4. st.req \in Requests \cup {NoRequest}
    BY <2>3 DEF TaskStates, Absent, Empty
  <2>5. reply \in Replies
    BY <2>2, <2>4, CompletedType DEF ReplyForState, Replies, Requests, NoRequest, Terminal
  <2>6. sent' \subseteq Replies
    BY <1>2, <2>5, SendType DEF Answer, Replies
  <2> QED
    BY <1>0, <1>2, <2>1, <2>6 DEF Answer, rxVars, ClockRoom
<1>3. ASSUME NEW m \in Submits, Begin(m) PROVE TypeInv'
  <2>1. clock' \in 0 .. MaxClock /\ clock' < MaxClock
    BY <1>3, ClockAssumption DEF Begin, TakesReading
  <2>2. clock < MaxClock
    BY <1>3, <2>1, ClockAssumption DEF Begin, TakesReading
  <2>3. Received(m) \in Requests
    BY <1>3, <2>2, CompletedType DEF Begin
  <2> QED
    BY <1>0, <1>3, <2>1, <2>3 DEF Begin, RxIdle, ClockRoom
<1>4. CASE RxOpenState
  <2>1. StateFile(rx.req.task) \in FileNames
    BY NameAssumption DEF StateFile, Requests, NoRequest
  <2>2. state' \in [FileNames -> TaskStates \cup {Absent, Empty}]
    BY <1>4, <2>1 DEF RxOpenState, OpenStateFile
  <2>3. faults' \in 0 .. MaxFaults
    BY <1>4, FaultsType DEF RxOpenState
  <2>4. RxTypeOK' /\ ClockRoom'
    BY <1>4 DEF RxOpenState, RxStateWritten, ClockRoom
  <2> QED
    BY <1>0, <1>4, <2>2, <2>3, <2>4 DEF RxOpenState
<1>5. CASE RxCloseState
  <2>1. [req |-> rx.req, status |-> rx.status] \in TaskStates
    BY DEF TaskStates, Statuses
  <2>2. state' \in [FileNames -> TaskStates \cup {Absent, Empty}]
    BY <1>5, <2>1 DEF RxCloseState, CloseStateFile
  <2>3. faults' \in 0 .. MaxFaults
    BY <1>5, FaultsType DEF RxCloseState
  <2>4. RxTypeOK' /\ ClockRoom'
    BY <1>5 DEF RxCloseState, RxStateWritten, ClockRoom
  <2> QED
    BY <1>0, <1>5, <2>2, <2>3, <2>4 DEF RxCloseState
<1>6. CASE RxOpenJob
  <2>1. clock' \in 0 .. MaxClock /\ clock + 1 \in Ticks
    BY <1>6, ClockAssumption DEF RxOpenJob, ClockRoom, Ticks
  <2>2. [name |-> NameOf[rx.req.task], at |-> clock + 1] \in Jobs
    BY <2>1, NameAssumption DEF Jobs, Requests, NoRequest
  <2>3. dir' \in [Jobs -> Dirs]
    BY <1>6, <2>2 DEF RxOpenJob, Dirs
  <2>4. faults' \in 0 .. MaxFaults
    BY <1>6, FaultsType DEF RxOpenJob
  <2>5. RxTypeOK' /\ ClockRoom'
    BY <1>6, <2>2 DEF RxOpenJob, RxJobWritten, ClockRoom
  <2> QED
    BY <1>0, <1>6, <2>1, <2>3, <2>4, <2>5 DEF RxOpenJob
<1>7. CASE RxCloseJob
  <2>1. job' \in [Jobs -> Requests \cup {NoRequest}]
    BY <1>7 DEF RxCloseJob
  <2>2. faults' \in 0 .. MaxFaults
    BY <1>7, FaultsType DEF RxCloseJob
  <2>3. RxTypeOK' /\ ClockRoom'
    BY <1>7 DEF RxCloseJob, RxJobWritten, ClockRoom
  <2> QED
    BY <1>0, <1>7, <2>1, <2>2, <2>3 DEF RxCloseJob
<1>8. CASE RxReply
  <2> DEFINE reply == ReplyTo(rx.req, IF rx.status = "pending" THEN "accepted" ELSE "failed")
  <2>1. reply.to \in Addresses \cup {NoAddress}
    BY DEF ReplyTo, Requests, NoRequest
  <2>2. reply.to \in Addresses => reply \in Replies
    BY AddressesReal DEF ReplyTo, Replies, Requests, NoRequest
  <2>3. sent' \subseteq Replies
    BY <1>8, <2>1, <2>2, SendType DEF RxReply
  <2> QED
    BY <1>0, <1>8, <2>3 DEF RxReply, RxIdle, ClockRoom
<1>9. CASE RxCrash
  BY <1>0, <1>9, SubmitAssumption DEF RxCrash, RxIdle, shared, ClockRoom
<1> QED
  BY <1>1, <1>2, <1>3, <1>4, <1>5, <1>6, <1>7, <1>8, <1>9
  DEF ReceiverNext, Receive, Handle

(* A worker whose state is made or found has a state to write.             *)
LEMMA StateFileType ==
  ASSUME NEW req \in Requests \cup {NoRequest}
  PROVE  StateFile(req.task) \in FileNames
BY NameAssumption DEF StateFile, Requests, NoRequest

LEMMA WorkerFields ==
  ASSUME WkTypeOK, NEW w \in Workers
  PROVE  /\ wk[w].todo \in SUBSET Jobs
         /\ wk[w].job \in Jobs \cup {NoJob}
         /\ wk[w].req \in Requests \cup {NoRequest}
         /\ wk[w].st \in TaskStates \cup {Absent}
         /\ wk[w].st.req \in Requests \cup {NoRequest}
<1>1. wk[w].st \in TaskStates \cup {Absent}
  BY DEF WkTypeOK, WkStates
<1>2. wk[w].st.req \in Requests \cup {NoRequest}
  BY <1>1 DEF TaskStates, Absent
<1> QED
  BY <1>1, <1>2 DEF WkTypeOK, WkStates

(* Whatever a worker becomes, it is of the type of workers and knows its   *)
(* outcome where it has to.                                                *)
LEMMA BecomeType ==
  ASSUME WkTypeOK, OutcomeKnown, NEW w \in Workers, NEW r \in WkStates,
         wk' = [wk EXCEPT ![w] = r],
         r.pc \in {"archive", "openFinal", "closeFinal", "reply"} => Terminal(r.st.status),
         UNCHANGED wkCrashes
  PROVE  WkTypeOK' /\ OutcomeKnown'
BY DEF WkTypeOK, OutcomeKnown

LEMMA GotoType ==
  ASSUME WkTypeOK, OutcomeKnown, NEW w \in Workers,
         NEW pc \in Owning, Goto(w, pc),
         pc \in {"archive", "openFinal", "closeFinal", "reply"} => Terminal(wk[w].st.status),
         UNCHANGED wkCrashes
  PROVE  WkTypeOK' /\ OutcomeKnown'
BY DEF WkTypeOK, WkStates, OutcomeKnown, Goto, Terminal

LEMMA NextJobType ==
  ASSUME WkTypeOK, OutcomeKnown, NEW w \in Workers,
         NEW todo \in SUBSET Jobs, NextJob(w, todo), UNCHANGED wkCrashes
  PROVE  WkTypeOK' /\ OutcomeKnown'
BY DEF WkTypeOK, WkStates, OutcomeKnown, NextJob, WkIdle, Terminal

(* Every step of a worker keeps the types.                                 *)
LEMMA WorkerTypeInv ==
  ASSUME TypeInv, WorkerNext, UNCHANGED rxVars
  PROVE  TypeInv'
<1> USE DEF TypeInv, TypeOK, QueueTypeOK
<1>a. RxTypeOK'
  BY DEF rxVars, RxTypeOK
<1>b. UNCHANGED clock => ClockRoom'
  BY DEF rxVars, ClockRoom
<1> SUFFICES ASSUME NEW w \in Workers, Step(w) \/ WorkerCrash(w)
             PROVE  TypeInv'
  BY DEF WorkerNext
<1>1. CASE Glob(w)
  <2>1. WkTypeOK' /\ OutcomeKnown'
    BY <1>1 DEF Glob, WkTypeOK, WkStates, OutcomeKnown, Terminal, In
  <2> QED
    BY <1>1, <1>a, <1>b, <2>1 DEF Glob, shared
<1>2. CASE Claim(w)
  <2> PICK j \in First(wk[w].todo) :
        /\ dir' = [dir EXCEPT ![j] = "working"]
        /\ wk' = [wk EXCEPT ![w] = [wk[w] EXCEPT !.pc = "load", !.todo = wk[w].todo \ {j},
                                             !.job = j, !.req = job[j]]]
    BY <1>2 DEF Claim
  <2>1. j \in Jobs
    BY WorkerFields DEF First
  <2> DEFINE r == [wk[w] EXCEPT !.pc = "load", !.todo = wk[w].todo \ {j},
                                !.job = j, !.req = job[j]]
  <2>r. r \in WkStates /\ r.pc = "load"
    BY <2>1 DEF WkTypeOK, WkStates, Owning, Leasing
  <2>2. WkTypeOK' /\ OutcomeKnown'
    BY <1>2, <2>r, BecomeType DEF Claim
  <2>3. dir' \in [Jobs -> Dirs]
    BY <2>1 DEF Dirs
  <2> QED
    BY <1>2, <1>a, <1>b, <2>2, <2>3 DEF Claim
<1>3. CASE SkipJob(w)
  <2> PICK j \in First(wk[w].todo) : (Works \/ Fails) /\ NextJob(w, wk[w].todo \ {j})
    BY <1>3 DEF SkipJob
  <2>1. WkTypeOK' /\ OutcomeKnown'
    BY <1>3, WorkerFields, NextJobType DEF SkipJob
  <2>2. faults' \in 0 .. MaxFaults
    BY FaultsType
  <2> QED
    BY <1>3, <1>a, <1>b, <2>1, <2>2 DEF SkipJob
<1>4. CASE LoadState(w)
  <2> DEFINE req == wk[w].req
             known == IF ReadTaskState(req.task) THEN state[StateFile(req.task)].req ELSE req
  <2>1. known \in Requests \cup {NoRequest}
    BY WorkerFields, StateFileType DEF TaskStates, Absent, Empty
  <2>2. [req |-> known, status |-> "working"] \in TaskStates
    BY <2>1 DEF TaskStates, Statuses
  <2> HIDE DEF known
  <2>3. wk' = [wk EXCEPT ![w] = [wk[w] EXCEPT !.pc = "openWorking",
                                          !.st = [req |-> known, status |-> "working"]]]
    BY <1>4 DEF LoadState, known
  <2> DEFINE r == [wk[w] EXCEPT !.pc = "openWorking",
                                !.st = [req |-> known, status |-> "working"]]
  <2>r. r \in WkStates /\ r.pc = "openWorking"
    BY <2>2 DEF WkTypeOK, WkStates, Owning, Leasing
  <2>4. WkTypeOK' /\ OutcomeKnown'
    BY <1>4, <2>3, <2>r, BecomeType DEF LoadState
  <2> QED
    BY <1>4, <1>a, <1>b, <2>4 DEF LoadState, shared
<1>5. ASSUME OpenWorking(w) \/ OpenFinal(w) PROVE TypeInv'
  <2>1. wk[w].pc = "openFinal" => Terminal(wk[w].st.status)
    BY DEF OutcomeKnown
  <2>2. WkTypeOK' /\ OutcomeKnown'
    BY <1>5, <2>1, GotoType DEF OpenWorking, OpenFinal, OpenState, Owning, Leasing
  <2>3. Works \/ Fails
    BY <1>5 DEF OpenWorking, OpenFinal, OpenState
  <2>4. state' = state \/ OpenStateFile(wk[w].st.req.task)
    BY <1>5 DEF OpenWorking, OpenFinal, OpenState
  <2>5. state' \in [FileNames -> TaskStates \cup {Absent, Empty}]
    BY <2>4, WorkerFields, StateFileType DEF OpenStateFile
  <2> QED
    BY <1>5, <1>a, <1>b, <2>2, <2>3, <2>5, FaultsType DEF OpenWorking, OpenFinal
<1>6. ASSUME CloseWorking(w) \/ CloseFinal(w) PROVE TypeInv'
  <2>1. wk[w].pc = "closeFinal" => Terminal(wk[w].st.status)
    BY DEF OutcomeKnown
  <2>2. WkTypeOK' /\ OutcomeKnown'
    BY <1>6, <2>1, GotoType DEF CloseWorking, CloseFinal, CloseState, Owning, Leasing
  <2>3. Works \/ Fails
    BY <1>6 DEF CloseWorking, CloseFinal, CloseState
  <2>4. state' = state \/ CloseStateFile(wk[w].st)
    BY <1>6 DEF CloseWorking, CloseFinal, CloseState
  <2>5. state' \in [FileNames -> TaskStates \cup {Absent, Empty}]
    BY <2>4, WorkerFields, StateFileType DEF CloseStateFile
  <2> QED
    BY <1>6, <1>a, <1>b, <2>2, <2>3, <2>5, FaultsType DEF CloseWorking, CloseFinal
<1>7. ASSUME NEW ok \in BOOLEAN, Processed(w, ok), UNCHANGED wkCrashes
      PROVE  WkTypeOK' /\ OutcomeKnown'
  <2> DEFINE st == [wk[w].st EXCEPT !.status = IF ok THEN "success" ELSE "failed"]
             r  == [wk[w] EXCEPT !.pc = "archive", !.st = st]
  <2>1. st \in TaskStates /\ Terminal(st.status)
    BY WorkerFields DEF TaskStates, Absent, Statuses, Terminal
  <2>2. r \in WkStates /\ r.st = st
    BY <2>1 DEF WkTypeOK, WkStates, Owning, Leasing
  <2>3. wk' = [wk EXCEPT ![w] = r]
    BY <1>7 DEF Processed
  <2> QED
    BY <1>7, <2>1, <2>2, <2>3, BecomeType
<1>8. CASE ProcessFail(w)
  BY <1>8, <1>7, <1>a, <1>b DEF ProcessFail, shared
<1>9. CASE OpenResult(w)
  <2>1. WkTypeOK' /\ OutcomeKnown'
    BY <1>9, GotoType DEF OpenResult, Owning, Leasing
  <2>2. result' \in [Paths -> ResultTexts]
    BY <1>9 DEF OpenResult, ResultTexts
  <2> QED
    BY <1>9, <1>a, <1>b, <2>1, <2>2 DEF OpenResult
<1>10. CASE CloseResult(w)
  <2>1. WkTypeOK' /\ OutcomeKnown'
    BY <1>10, <1>7 DEF CloseResult
  <2>2. wk[w].req.result \in Paths => wk[w].req.task \in TaskIds
    BY WorkerFields, PathAssumption DEF Requests, NoRequest
  <2>3. result' \in [Paths -> ResultTexts]
    BY <1>10, <2>2 DEF CloseResult, ResultTexts
  <2>4. Works \/ Fails
    BY <1>10 DEF CloseResult
  <2> QED
    BY <1>10, <1>a, <1>b, <2>1, <2>3, <2>4, FaultsType DEF CloseResult
<1>11. CASE Archive(w)
  <2>1. Terminal(wk[w].st.status)
    BY <1>11 DEF Archive, OutcomeKnown
  <2>2. WkTypeOK' /\ OutcomeKnown'
    BY <1>11, <2>1, GotoType DEF Archive, Owning
  <2>3. dir' \in [Jobs -> Dirs]
    BY <1>11 DEF Archive, Dirs
  <2>4. Works \/ Fails
    BY <1>11 DEF Archive
  <2> QED
    BY <1>11, <1>a, <1>b, <2>2, <2>3, <2>4, FaultsType DEF Archive
<1>12. CASE Reply(w)
  <2> DEFINE reply == [to |-> wk[w].st.req.client, task |-> wk[w].req.task,
                       result |-> wk[w].req.result, status |-> wk[w].st.status]
  <2>1. Terminal(wk[w].st.status)
    BY <1>12 DEF Reply, OutcomeKnown
  <2>2. /\ reply.to \in Addresses \cup {NoAddress}
        /\ reply.to \in Addresses => reply \in Replies
    BY <2>1, WorkerFields DEF Terminal, Replies, Requests, NoRequest
  <2>3. sent' \subseteq Replies
    BY <1>12, <2>2, SendType DEF Reply
  <2>4. WkTypeOK' /\ OutcomeKnown'
    BY <1>12, WorkerFields, NextJobType DEF Reply
  <2> QED
    BY <1>12, <1>a, <1>b, <2>3, <2>4 DEF Reply
<1>13. CASE WorkerCrash(w)
  <2>1. WkTypeOK' /\ OutcomeKnown'
    BY <1>13, WorkerAssumption DEF WorkerCrash, WkTypeOK, WkStates, OutcomeKnown, WkIdle, Terminal
  <2> QED
    BY <1>13, <1>a, <1>b, <2>1 DEF WorkerCrash, shared
<1> QED
  BY <1>1, <1>2, <1>3, <1>4, <1>5, <1>6, <1>8, <1>9, <1>10, <1>11, <1>12, <1>13 DEF Step

LEMMA TypeInvStep == TypeInv /\ [Next]_vars => TypeInv'
<1> SUFFICES ASSUME TypeInv, [Next]_vars PROVE TypeInv'
  OBVIOUS
<1>1. CASE Next
  BY <1>1, ReceiverTypeInv, WorkerTypeInv DEF Next
<1>2. CASE UNCHANGED vars
  BY <1>2 DEF vars, shared, rxVars, wkVars, TypeInv, TypeOK, QueueTypeOK, RxTypeOK,
              WkTypeOK, ClockRoom, OutcomeKnown
<1> QED
  BY <1>1, <1>2

(* Every variable of the service holds a value of its kind, in every state *)
(* of every run, whatever is submitted, killed or fails.                   *)
THEOREM TypeCorrect == Spec => []TypeOK
BY InitTypeInv, TypeInvStep, PTL DEF Spec, TypeInv

-----------------------------------------------------------------------------
(* Who owns what.  The jobs of the workers matter only where dir or a      *)
(* worker's hold on its job changes; elsewhere OwnInv carries over.        *)
OwnInv == FreshNames /\ OwnedTaken /\ OneOwner

LEMMA InitOwnInv == Init => OwnInv
BY DEF Init, QueueInit, WkInit, WkIdle, OwnInv, FreshNames, OwnedTaken, OneOwner,
       Posted, Owns, Owning, Leasing

LEMMA SameOwners ==
  ASSUME TypeInv, OwnInv, UNCHANGED dir, clock' \in Nat, clock <= clock',
         \A w \in Workers :
           /\ wk'[w].pc \in Owning => wk[w].pc \in Owning /\ wk'[w].job = wk[w].job
           /\ wk'[w].pc \in Leasing => wk[w].pc \in Leasing
  PROVE  OwnInv'
<1>1. clock \in Nat
  BY ClockAssumption DEF TypeInv, TypeOK, QueueTypeOK
<1>2. FreshNames'
  BY <1>1 DEF OwnInv, FreshNames, Posted, Jobs, Ticks
<1>3. OwnedTaken'
  <2> SUFFICES ASSUME NEW w \in Workers
               PROVE  /\ wk'[w].pc \in Owning =>
                           wk'[w].job \in Jobs /\ dir[wk'[w].job] \notin {"none", "pending"}
                      /\ wk'[w].pc \in Leasing => dir[wk'[w].job] = "working"
    BY DEF OwnedTaken
  <2>1. wk'[w].pc \in Leasing => wk'[w].pc \in Owning
    BY DEF Owning
  <2> QED
    BY <2>1 DEF OwnInv, OwnedTaken
<1>4. OneOwner'
  BY DEF OwnInv, OneOwner, Owns
<1> QED
  BY <1>2, <1>3, <1>4 DEF OwnInv

(* The receiver posts a job under a name that no job has had.              *)
LEMMA ReceiverOwnInv ==
  ASSUME TypeInv, OwnInv, ReceiverNext, UNCHANGED wkVars
  PROVE  OwnInv'
<1>0. clock \in 0 .. MaxClock
  BY DEF TypeInv, TypeOK, QueueTypeOK
<1>a. \A w \in Workers : wk'[w] = wk[w]
  BY DEF wkVars
<1>1. ASSUME UNCHANGED dir, clock' \in Nat, clock <= clock' PROVE OwnInv'
  BY <1>1, <1>a, SameOwners
<1>2. ASSUME NEW m \in Submits, Reject(m) \/ Answer(m) \/ Begin(m) PROVE OwnInv'
  <2>1. clock' \in Nat /\ clock <= clock'
    BY <1>0, <1>2, ClockAssumption DEF Reject, Answer, Begin, TakesReading
  <2> QED
    BY <1>1, <1>2, <2>1 DEF Reject, Answer, Begin
<1>3. CASE RxOpenState \/ RxCloseState \/ RxCloseJob \/ RxReply \/ RxCrash
  <2>1. UNCHANGED <<dir, clock>>
    BY <1>3 DEF RxOpenState, RxCloseState, RxCloseJob, RxReply, RxCrash, shared
  <2> QED
    BY <1>0, <1>1, <2>1, ClockAssumption
<1>4. CASE RxOpenJob
  <2> DEFINE j == [name |-> NameOf[rx.req.task], at |-> clock + 1]
  <2>1. clock' = clock + 1 /\ clock + 1 \in Ticks
    BY <1>0, <1>4, ClockAssumption DEF RxOpenJob, TypeInv, ClockRoom, Ticks
  <2>2. j \in Jobs
    BY <2>1, NameAssumption DEF Jobs, Requests, NoRequest, TypeInv, TypeOK, RxTypeOK
  <2>3. dir[j] = "none"
    BY <1>0, <2>2 DEF OwnInv, FreshNames, Posted
  <2>4. dir' = dir \/ dir' = [dir EXCEPT ![j] = "pending"]
    BY <1>4 DEF RxOpenJob
  <2>5. dir \in [Jobs -> Dirs]
    BY DEF TypeInv, TypeOK, QueueTypeOK
  <2> HIDE DEF j
  <2>6. FreshNames'
    <3> SUFFICES ASSUME NEW k \in Jobs, dir'[k] # "none" PROVE k.at <= clock'
      BY DEF FreshNames, Posted
    <3>1. CASE k = j
      BY <1>0, <2>1, <3>1 DEF j
    <3>2. CASE k # j
      <4>1. dir[k] # "none"
        BY <2>4, <2>5, <3>2
      <4>2. k.at \in Int /\ k.at <= clock
        BY <4>1 DEF OwnInv, FreshNames, Posted, Jobs, Ticks
      <4> QED
        BY <1>0, <2>1, <4>2
    <3> QED
      BY <3>1, <3>2
  <2>7. OwnedTaken'
    <3> SUFFICES ASSUME NEW w \in Workers
                 PROVE  /\ wk[w].pc \in Owning =>
                             wk[w].job \in Jobs /\ dir'[wk[w].job] \notin {"none", "pending"}
                        /\ wk[w].pc \in Leasing => dir'[wk[w].job] = "working"
      BY <1>a DEF OwnedTaken
    <3>1. CASE wk[w].pc \in Owning
      <4>1. wk[w].job \in Jobs /\ dir[wk[w].job] \notin {"none", "pending"}
        BY <3>1 DEF OwnInv, OwnedTaken
      <4>2. dir'[wk[w].job] = dir[wk[w].job]
        BY <2>3, <2>4, <2>5, <4>1
      <4> QED
        BY <4>1, <4>2 DEF OwnInv, OwnedTaken
    <3>2. CASE wk[w].pc \notin Owning
      BY <3>2 DEF Owning
    <3> QED
      BY <3>1, <3>2
  <2>8. OneOwner'
    BY <1>a DEF OwnInv, OneOwner, Owns
  <2> QED
    BY <2>6, <2>7, <2>8 DEF OwnInv
<1> QED
  BY <1>2, <1>3, <1>4 DEF ReceiverNext, Receive, Handle

(* A step of a worker that neither claims nor archives.                    *)
LEMMA OtherStepOwners ==
  ASSUME TypeInv, NEW w \in Workers,
         \/ Glob(w) \/ SkipJob(w) \/ LoadState(w)
         \/ OpenWorking(w) \/ CloseWorking(w) \/ ProcessFail(w) \/ OpenResult(w)
         \/ CloseResult(w) \/ OpenFinal(w) \/ CloseFinal(w) \/ Reply(w) \/ WorkerCrash(w)
  PROVE  /\ UNCHANGED <<dir, clock>>
         /\ \A v \in Workers :
              /\ wk'[v].pc \in Owning => wk[v].pc \in Owning /\ wk'[v].job = wk[v].job
              /\ wk'[v].pc \in Leasing => wk[v].pc \in Leasing
<1>0. wk \in [Workers -> WkStates]
  BY DEF TypeInv, TypeOK, WkTypeOK
<1> DEFINE Keeps == \A v \in Workers :
              /\ wk'[v].pc \in Owning => wk[v].pc \in Owning /\ wk'[v].job = wk[v].job
              /\ wk'[v].pc \in Leasing => wk[v].pc \in Leasing
<1>1. ASSUME NEW pc, Goto(w, pc), pc \in Owning => wk[w].pc \in Owning,
             pc \in Leasing => wk[w].pc \in Leasing
      PROVE  Keeps
  BY <1>0, <1>1 DEF Goto, WkStates
<1>2. ASSUME NEW todo, NextJob(w, todo) PROVE Keeps
  BY <1>0, <1>2 DEF NextJob, WkIdle, Owning, Leasing
<1>3. ASSUME NEW ok, Processed(w, ok), wk[w].pc \in Leasing PROVE Keeps
  BY <1>0, <1>3 DEF Processed, WkStates, Owning
<1>4. CASE Glob(w)
  BY <1>0, <1>4 DEF Glob, shared, Owning, Leasing, WkStates
<1>5. CASE SkipJob(w)
  BY <1>2, <1>5 DEF SkipJob
<1>6. CASE LoadState(w)
  BY <1>0, <1>6 DEF LoadState, shared, Owning, Leasing, WkStates
<1>7. CASE OpenWorking(w)
  BY <1>1, <1>7 DEF OpenWorking, OpenState, Owning, Leasing
<1>8. CASE CloseWorking(w)
  BY <1>1, <1>8 DEF CloseWorking, CloseState, Owning, Leasing
<1>9. CASE ProcessFail(w)
  BY <1>3, <1>9 DEF ProcessFail, shared, Leasing
<1>10. CASE OpenResult(w)
  BY <1>1, <1>10 DEF OpenResult, Owning, Leasing
<1>11. CASE CloseResult(w)
  BY <1>3, <1>11 DEF CloseResult, Leasing
<1>12. CASE OpenFinal(w)
  BY <1>1, <1>12 DEF OpenFinal, OpenState, Owning, Leasing
<1>13. CASE CloseFinal(w)
  BY <1>1, <1>13 DEF CloseFinal, CloseState, Owning, Leasing
<1>14. CASE Reply(w)
  BY <1>2, <1>14 DEF Reply
<1>15. CASE WorkerCrash(w)
  BY <1>0, <1>15 DEF WorkerCrash, WkIdle, shared, Owning, Leasing
<1> QED
  BY <1>4, <1>5, <1>6, <1>7, <1>8, <1>9, <1>10, <1>11, <1>12, <1>13, <1>14, <1>15

(* A job that is claimed was nobody's, for it was in pending/.             *)
LEMMA ClaimOwnInv ==
  ASSUME TypeInv, OwnInv, NEW w \in Workers, Claim(w)
  PROVE  OwnInv'
<1>0. wk \in [Workers -> WkStates] /\ dir \in [Jobs -> Dirs]
  BY DEF TypeInv, TypeOK, WkTypeOK, QueueTypeOK
<1> PICK j \in First(wk[w].todo) :
      /\ dir[j] = "pending"
      /\ dir' = [dir EXCEPT ![j] = "working"]
      /\ wk' = [wk EXCEPT ![w] = [wk[w] EXCEPT !.pc = "load", !.todo = wk[w].todo \ {j},
                                           !.job = j, !.req = job[j]]]
  BY DEF Claim
<1>1. j \in Jobs
  BY <1>0 DEF First, WkStates
<1>2. wk'[w].pc = "load" /\ wk'[w].job = j
  BY <1>0 DEF WkStates
<1>3. \A v \in Workers \ {w} : wk'[v] = wk[v]
  BY <1>0
<1>4. \A v \in Workers : wk[v].pc \in Owning => wk[v].job \in Jobs /\ wk[v].job # j
  BY DEF OwnInv, OwnedTaken
<1>5. FreshNames'
  BY <1>0, <1>1 DEF Claim, OwnInv, FreshNames, Posted
<1>6. OwnedTaken'
  <2> SUFFICES ASSUME NEW v \in Workers
               PROVE  /\ wk'[v].pc \in Owning =>
                           wk'[v].job \in Jobs /\ dir'[wk'[v].job] \notin {"none", "pending"}
                      /\ wk'[v].pc \in Leasing => dir'[wk'[v].job] = "working"
    BY DEF OwnedTaken
  <2>1. CASE v = w
    BY <1>0, <1>1, <1>2, <2>1
  <2>2. CASE v # w /\ wk[v].pc \in Owning
    <3>1. dir'[wk[v].job] = dir[wk[v].job]
      BY <1>0, <1>4, <2>2
    <3> QED
      BY <1>3, <2>2, <3>1 DEF OwnInv, OwnedTaken
  <2>3. CASE v # w /\ wk[v].pc \notin Owning
    BY <1>3, <2>3 DEF Owning
  <2> QED
    BY <2>1, <2>2, <2>3
<1>7. OneOwner'
  <2> SUFFICES ASSUME NEW u \in Workers, NEW v \in Workers, u # v, NEW k \in Jobs,
                      wk'[u].pc \in Owning, wk'[u].job = k,
                      wk'[v].pc \in Owning, wk'[v].job = k
               PROVE  FALSE
    BY DEF OneOwner, Owns
  <2>1. CASE u # w /\ v # w
    BY <1>3, <2>1 DEF OwnInv, OneOwner, Owns
  <2>2. CASE u = w
    BY <1>2, <1>3, <1>4, <2>2
  <2>3. CASE v = w
    BY <1>2, <1>3, <1>4, <2>3
  <2> QED
    BY <2>1, <2>2, <2>3
<1> QED
  BY <1>5, <1>6, <1>7 DEF OwnInv

(* A job is archived by its owner, and no other worker owns it.            *)
LEMMA ArchiveOwnInv ==
  ASSUME TypeInv, OwnInv, NEW w \in Workers, Archive(w)
  PROVE  OwnInv'
<1>0. wk \in [Workers -> WkStates] /\ dir \in [Jobs -> Dirs]
  BY DEF TypeInv, TypeOK, WkTypeOK, QueueTypeOK
<1>1. PICK d \in {"done", "failed"} : dir' \in {dir, [dir EXCEPT ![wk[w].job] = d]}
  BY DEF Archive
<1>2. /\ wk[w].pc = "archive" /\ wk'[w].pc = "openFinal" /\ wk'[w].job = wk[w].job
      /\ \A v \in Workers \ {w} : wk'[v] = wk[v]
  BY <1>0 DEF Archive, Goto, WkStates
<1>3. wk[w].job \in Jobs /\ dir[wk[w].job] = "working"
  BY <1>2 DEF OwnInv, OwnedTaken, Owning, Leasing
<1>4. dir'[wk[w].job] \in {"working", d}
  BY <1>0, <1>1, <1>3
<1>5. \A k \in Jobs \ {wk[w].job} : dir'[k] = dir[k]
  BY <1>0, <1>1, <1>3
<1>6. FreshNames'
  BY <1>3, <1>5 DEF Archive, OwnInv, FreshNames, Posted
<1>7. OwnedTaken'
  <2> SUFFICES ASSUME NEW v \in Workers
               PROVE  /\ wk'[v].pc \in Owning =>
                           wk'[v].job \in Jobs /\ dir'[wk'[v].job] \notin {"none", "pending"}
                      /\ wk'[v].pc \in Leasing => dir'[wk'[v].job] = "working"
    BY DEF OwnedTaken
  <2>1. CASE v = w
    BY <1>2, <1>3, <1>4, <2>1 DEF Leasing
  <2>2. CASE v # w /\ wk[v].pc \in Owning
    <3>1. wk[v].job \in Jobs /\ wk[v].job # wk[w].job
      BY <1>2, <1>3, <2>2 DEF OwnInv, OwnedTaken, OneOwner, Owns, Owning, Leasing
    <3>2. dir'[wk[v].job] = dir[wk[v].job]
      BY <1>5, <3>1
    <3> QED
      BY <1>2, <2>2, <3>2 DEF OwnInv, OwnedTaken
  <2>3. CASE v # w /\ wk[v].pc \notin Owning
    BY <1>2, <2>3 DEF Owning
  <2> QED
    BY <2>1, <2>2, <2>3
<1>8. OneOwner'
  <2>1. \A v \in Workers : \A k \in Jobs : Owns(v, k)' => Owns(v, k)
    BY <1>2 DEF Owns, Owning, Leasing
  <2> QED
    BY <2>1 DEF OwnInv, OneOwner
<1> QED
  BY <1>6, <1>7, <1>8 DEF OwnInv

LEMMA OwnInvStep == TypeInv /\ OwnInv /\ [Next]_vars => OwnInv'
<1> SUFFICES ASSUME TypeInv, OwnInv, [Next]_vars PROVE OwnInv'
  OBVIOUS
<1>0. clock \in Nat
  BY ClockAssumption DEF TypeInv, TypeOK, QueueTypeOK
<1>1. CASE ReceiverNext /\ UNCHANGED wkVars
  BY <1>1, ReceiverOwnInv
<1>2. ASSUME NEW w \in Workers, Step(w) \/ WorkerCrash(w) PROVE OwnInv'
  <2>1. CASE Claim(w)
    BY <2>1, ClaimOwnInv
  <2>2. CASE Archive(w)
    BY <2>2, ArchiveOwnInv
  <2>3. CASE ~Claim(w) /\ ~Archive(w)
    BY <1>0, <1>2, <2>3, OtherStepOwners, SameOwners DEF Step
  <2> QED
    BY <2>1, <2>2, <2>3
<1>3. CASE UNCHANGED vars
  BY <1>0, <1>3, SameOwners DEF vars, shared, wkVars
<1> QED
  BY <1>1, <1>2, <1>3 DEF Next, WorkerNext

(* The invariant that TypeCorrect, ExclusiveOwner and QueueIsLease rest on *)
(* holds of every run.                                                     *)
THEOREM Invariance == Spec => []Inv
<1>1. Init => Inv
  BY InitTypeInv, InitOwnInv DEF Inv, OwnInv
<1>2. Inv /\ [Next]_vars => Inv'
  BY TypeInvStep, OwnInvStep DEF Inv, OwnInv
<1> QED
  BY <1>1, <1>2, PTL DEF Spec

(* However many workers there are, and whichever of them are killed, no    *)
(* two of them ever process the same job file.                             *)
THEOREM ExclusiveOwner == Spec => []OneOwner
BY Invariance, PTL DEF Inv

-----------------------------------------------------------------------------
(* The refinement.  A worker's lease is its job while it leases one; the   *)
(* steps that leave dir and every lease alone are stutters of WorkLease.   *)
LEMMA InitLease == Init => Lease!Init
BY DEF Init, QueueInit, WkInit, WkIdle, Lease!Init, In, Stranded, LeaseOf, Leasing

LEMMA LeaseStutter ==
  ASSUME UNCHANGED dir,
         \A w \in Workers : wk'[w].pc \in Leasing <=> wk[w].pc \in Leasing,
         \A w \in Workers : wk[w].pc \in Leasing => wk'[w].job = wk[w].job
  PROVE  UNCHANGED Lease!vars
<1>1. \A w \in Workers : LeaseOf(w)' = LeaseOf(w)
  BY DEF LeaseOf
<1>2. \A w \in Workers : \A j \in Jobs : Leases(w, j)' <=> Leases(w, j)
  BY DEF Leases
<1>3. {j \in Jobs : Stranded(j)}' = {j \in Jobs : Stranded(j)}
  BY <1>2 DEF Stranded
<1>4. \A d : In(d)' = In(d)
  BY DEF In
<1>5. [w \in Workers |-> LeaseOf(w)]' = [w \in Workers |-> LeaseOf(w)]
  BY <1>1
<1> QED
  BY <1>3, <1>4, <1>5 DEF Lease!vars

LEMMA NoJobReal == NoJob \notin Jobs
BY DEF NoJob, Jobs, Ticks

(* The steps of a worker that keep its lease, or its having none.          *)
LEMMA KeepingSteps ==
  ASSUME TypeInv, NEW w \in Workers,
         \/ Glob(w) \/ SkipJob(w) \/ LoadState(w)
         \/ OpenWorking(w) \/ CloseWorking(w) \/ ProcessFail(w) \/ OpenResult(w)
         \/ CloseResult(w) \/ OpenFinal(w) \/ CloseFinal(w) \/ Reply(w)
  PROVE  \A v \in Workers : wk[v].pc \in Leasing => wk'[v].pc \in Leasing
<1>0. wk \in [Workers -> WkStates]
  BY DEF TypeInv, TypeOK, WkTypeOK
<1> DEFINE Keeps == \A v \in Workers : wk[v].pc \in Leasing => wk'[v].pc \in Leasing
<1>1. ASSUME NEW pc, Goto(w, pc), wk[w].pc \in Leasing => pc \in Leasing PROVE Keeps
  BY <1>0, <1>1 DEF Goto, WkStates
<1>2. ASSUME NEW todo, NextJob(w, todo), wk[w].pc \notin Leasing PROVE Keeps
  BY <1>0, <1>2 DEF NextJob
<1>3. ASSUME NEW ok, Processed(w, ok) PROVE Keeps
  BY <1>0, <1>3 DEF Processed, WkStates, Leasing
<1>4. CASE Glob(w)
  BY <1>0, <1>4 DEF Glob, Leasing, WkStates
<1>5. CASE SkipJob(w)
  BY <1>2, <1>5 DEF SkipJob, Leasing
<1>6. CASE LoadState(w)
  BY <1>0, <1>6 DEF LoadState, Leasing, WkStates
<1>7. CASE OpenWorking(w)
  BY <1>1, <1>7 DEF OpenWorking, OpenState, Leasing
<1>8. CASE CloseWorking(w)
  BY <1>1, <1>8 DEF CloseWorking, CloseState, Leasing
<1>9. CASE ProcessFail(w)
  BY <1>3, <1>9 DEF ProcessFail
<1>10. CASE OpenResult(w)
  BY <1>1, <1>10 DEF OpenResult, Leasing
<1>11. CASE CloseResult(w)
  BY <1>3, <1>11 DEF CloseResult
<1>12. CASE OpenFinal(w)
  BY <1>1, <1>12 DEF OpenFinal, OpenState, Leasing
<1>13. CASE CloseFinal(w)
  BY <1>1, <1>13 DEF CloseFinal, CloseState, Leasing
<1>14. CASE Reply(w)
  BY <1>2, <1>14 DEF Reply, Leasing
<1> QED
  BY <1>4, <1>5, <1>6, <1>7, <1>8, <1>9, <1>10, <1>11, <1>12, <1>13, <1>14

LEMMA KeepingStutter ==
  ASSUME TypeInv, NEW w \in Workers,
         \/ Glob(w) \/ SkipJob(w) \/ LoadState(w)
         \/ OpenWorking(w) \/ CloseWorking(w) \/ ProcessFail(w) \/ OpenResult(w)
         \/ CloseResult(w) \/ OpenFinal(w) \/ CloseFinal(w) \/ Reply(w)
  PROVE  UNCHANGED Lease!vars
<1>1. \A v \in Workers : wk[v].pc \in Leasing => wk'[v].pc \in Leasing
  BY KeepingSteps
<1>2. /\ UNCHANGED dir
      /\ \A v \in Workers :
           /\ wk'[v].pc \in Owning => wk[v].pc \in Owning /\ wk'[v].job = wk[v].job
           /\ wk'[v].pc \in Leasing => wk[v].pc \in Leasing
  BY OtherStepOwners
<1>3. \A v \in Workers : wk[v].pc \in Leasing => wk'[v].job = wk[v].job
  <2> SUFFICES ASSUME NEW v \in Workers, wk[v].pc \in Leasing PROVE wk'[v].job = wk[v].job
    OBVIOUS
  <2>1. wk'[v].pc \in Owning
    BY <1>1 DEF Owning
  <2> QED
    BY <1>2, <2>1
<1> QED
  BY <1>1, <1>2, <1>3, LeaseStutter

(* A worker gives back its lease when it archives the job, or when it is   *)
(* killed: the job is then finished or stranded.                           *)
LEMMA LeaseEnds ==
  ASSUME TypeInv, OwnInv, NEW w \in Workers, wk[w].pc \in Leasing,
         wk'[w].pc \notin Leasing, \A v \in Workers \ {w} : wk'[v] = wk[v],
         NEW d \in {"done", "failed"},
         dir' \in {dir, [dir EXCEPT ![wk[w].job] = d]}
  PROVE  Lease!Next
<1> DEFINE lease == [v \in Workers |-> LeaseOf(v)]
<1>0. dir \in [Jobs -> Dirs]
  BY DEF TypeInv, TypeOK, QueueTypeOK
<1>a. PICK k \in Jobs : k = wk[w].job /\ dir[k] = "working"
  BY DEF OwnInv, OwnedTaken, Owning
<1>1. k \in Jobs /\ k = wk[w].job /\ dir[k] = "working"
  BY <1>a
<1>2. \A v \in Workers \ {w} : wk[v].pc \in Leasing => wk[v].job # k
  BY <1>1 DEF OwnInv, OneOwner, Owns, Owning
<1>3. lease[w] = k /\ k # NoJob
  BY <1>1, NoJobReal DEF LeaseOf
<1>b. \A v \in Workers : LeaseOf(v)' = IF v = w THEN NoJob ELSE LeaseOf(v)
  BY DEF LeaseOf
<1>4. lease' = [lease EXCEPT ![w] = NoJob]
  BY <1>b
<1>5. \A j \in Jobs \ {k} : dir'[j] = dir[j]
  BY <1>0, <1>1
<1>6. \A j \in Jobs \ {k} : \A v \in Workers : Leases(v, j)' <=> Leases(v, j)
  BY <1>1 DEF Leases
<1>7. \A v \in Workers : ~Leases(v, k)'
  BY <1>2 DEF Leases
<1>8. Leases(w, k)
  BY <1>1 DEF Leases
<1>9. In("pending")' = In("pending")
  BY <1>0, <1>1, <1>5 DEF In
<1>10. CASE dir' = dir
  <2>1. {j \in Jobs : Stranded(j)}' = {j \in Jobs : Stranded(j)} \cup {k}
    <3>1. \A j \in Jobs : Stranded(j)' <=> Stranded(j) \/ j = k
      BY <1>1, <1>6, <1>7, <1>10 DEF Stranded
    <3> QED
      BY <1>1, <3>1
  <2>2. (In("done") \cup In("failed"))' = In("done") \cup In("failed")
    BY <1>10 DEF In
  <2>3. Lease!GiveUp(w)
    BY <1>3, <1>4, <1>9, <2>1, <2>2 DEF Lease!GiveUp
  <2> QED
    BY <2>3 DEF Lease!Next
<1>11. CASE dir' = [dir EXCEPT ![wk[w].job] = d]
  <2>1. dir'[k] = d
    BY <1>0, <1>1, <1>11
  <2>2. {j \in Jobs : Stranded(j)}' = {j \in Jobs : Stranded(j)}
    BY <1>5, <1>6, <1>8, <2>1 DEF Stranded
  <2>3. (In("done") \cup In("failed"))' = In("done") \cup In("failed") \cup {k}
    BY <1>1, <1>5, <2>1 DEF In
  <2>4. Lease!Finish(w)
    BY <1>3, <1>4, <1>9, <2>2, <2>3 DEF Lease!Finish
  <2> QED
    BY <2>4 DEF Lease!Next
<1> QED
  BY <1>10, <1>11

LEMMA ClaimTakes ==
  ASSUME TypeInv, OwnInv, NEW w \in Workers, Claim(w)
  PROVE  Lease!Next
<1>0. wk \in [Workers -> WkStates] /\ dir \in [Jobs -> Dirs]
  BY DEF TypeInv, TypeOK, WkTypeOK, QueueTypeOK
<1> PICK k \in First(wk[w].todo) :
      /\ dir[k] = "pending"
      /\ dir' = [dir EXCEPT ![k] = "working"]
      /\ wk' = [wk EXCEPT ![w] = [wk[w] EXCEPT !.pc = "load", !.todo = wk[w].todo \ {k},
                                           !.job = k, !.req = job[k]]]
  BY DEF Claim
<1> DEFINE lease == [v \in Workers |-> LeaseOf(v)]
<1>1. k \in Jobs
  BY <1>0 DEF First, WkStates
<1>2. /\ wk[w].pc = "claim" /\ wk'[w].pc = "load" /\ wk'[w].job = k
      /\ \A v \in Workers \ {w} : wk'[v] = wk[v]
  <2>1. wk[w].pc = "claim"
    BY DEF Claim
  <2> QED
    BY <1>0, <2>1 DEF WkStates
<1>3. lease[w] = NoJob /\ k \in In("pending")
  BY <1>1, <1>2 DEF LeaseOf, Leasing, In
<1>a. \A v \in Workers : LeaseOf(v)' = IF v = w THEN k ELSE LeaseOf(v)
  BY <1>2 DEF LeaseOf, Leasing
<1>4. lease' = [lease EXCEPT ![w] = k]
  BY <1>a
<1>5. dir'[k] = "working" /\ \A j \in Jobs \ {k} : dir'[j] = dir[j]
  BY <1>0, <1>1
<1>6. /\ In("pending")' = In("pending") \ {k}
      /\ (In("done") \cup In("failed"))' = In("done") \cup In("failed")
  BY <1>1, <1>5 DEF In
<1>7. \A j \in Jobs \ {k} : \A v \in Workers : Leases(v, j)' <=> Leases(v, j)
  BY <1>2 DEF Leases, Leasing
<1>8. Leases(w, k)'
  BY <1>2 DEF Leases, Leasing
<1>9. {j \in Jobs : Stranded(j)}' = {j \in Jobs : Stranded(j)}
  BY <1>5, <1>7, <1>8 DEF Stranded
<1>10. Lease!Take(w, k)
  BY <1>3, <1>4, <1>6, <1>9 DEF Lease!Take
<1> QED
  BY <1>1, <1>10 DEF Lease!Next

LEMMA OpenJobPosts ==
  ASSUME TypeInv, OwnInv, RxOpenJob, UNCHANGED wkVars
  PROVE  [Lease!Next]_(Lease!vars)
<1> DEFINE k == [name |-> NameOf[rx.req.task], at |-> clock + 1]
           lease == [v \in Workers |-> LeaseOf(v)]
<1>0. clock \in 0 .. MaxClock /\ dir \in [Jobs -> Dirs]
  BY DEF TypeInv, TypeOK, QueueTypeOK
<1>1. clock + 1 \in Ticks
  BY <1>0, ClockAssumption DEF RxOpenJob, TypeInv, ClockRoom, Ticks
<1>2. k \in Jobs
  BY <1>1, NameAssumption DEF Jobs, Requests, NoRequest, TypeInv, TypeOK, RxTypeOK
<1>3. dir[k] = "none"
  BY <1>0, <1>2 DEF OwnInv, FreshNames, Posted
<1>4. dir' = dir \/ dir' = [dir EXCEPT ![k] = "pending"]
  BY DEF RxOpenJob
<1>5. \A w \in Workers : wk'[w] = wk[w]
  BY DEF wkVars
<1> HIDE DEF k
<1>6. CASE dir' = dir
  BY <1>5, <1>6, LeaseStutter
<1>7. CASE dir' = [dir EXCEPT ![k] = "pending"]
  <2>1. dir'[k] = "pending" /\ \A j \in Jobs \ {k} : dir'[j] = dir[j]
    BY <1>0, <1>2, <1>7
  <2>2. \A w \in Workers : LeaseOf(w) # k
    BY <1>2, <1>3, NoJobReal DEF LeaseOf, OwnInv, OwnedTaken
  <2>3. k \notin In("pending") \cup Lease!Held \cup (In("done") \cup In("failed"))
               \cup {j \in Jobs : Stranded(j)}
    BY <1>3, <2>2 DEF In, Stranded, Lease!Held
  <2>4. In("pending")' = In("pending") \cup {k}
    BY <1>2, <2>1 DEF In
  <2>5. (In("done") \cup In("failed"))' = In("done") \cup In("failed")
    BY <1>2, <1>3, <2>1 DEF In
  <2>6. lease' = lease
    BY <1>5 DEF LeaseOf
  <2>7. \A j \in Jobs : \A w \in Workers : Leases(w, j)' <=> Leases(w, j)
    BY <1>5 DEF Leases
  <2>8. {j \in Jobs : Stranded(j)}' = {j \in Jobs : Stranded(j)}
    BY <1>3, <2>1, <2>7 DEF Stranded
  <2>9. Lease!Post(k)
    BY <2>3, <2>4, <2>5, <2>6, <2>8 DEF Lease!Post
  <2> QED
    BY <1>2, <2>9 DEF Lease!Next
<1> QED
  BY <1>4, <1>6, <1>7

LEMMA LeaseStep ==
  TypeInv /\ OwnInv /\ [Next]_vars => [Lease!Next]_(Lease!vars)
<1> SUFFICES ASSUME TypeInv, OwnInv, [Next]_vars PROVE [Lease!Next]_(Lease!vars)
  OBVIOUS
<1>0. wk \in [Workers -> WkStates]
  BY DEF TypeInv, TypeOK, WkTypeOK
<1>1. CASE UNCHANGED vars
  BY <1>1, LeaseStutter DEF vars, shared, wkVars
<1>2. CASE RxOpenJob /\ UNCHANGED wkVars
  BY <1>2, OpenJobPosts
<1>3. CASE ReceiverNext /\ ~RxOpenJob /\ UNCHANGED wkVars
  <2>1. UNCHANGED dir
    BY <1>3 DEF ReceiverNext, Receive, Handle, Reject, Answer, Begin, RxOpenState,
                RxCloseState, RxCloseJob, RxReply, RxCrash, shared
  <2> QED
    BY <1>3, <2>1, LeaseStutter DEF wkVars
<1>4. ASSUME NEW w \in Workers, Step(w) \/ WorkerCrash(w)
      PROVE  [Lease!Next]_(Lease!vars)
  <2>1. CASE Claim(w)
    BY <2>1, ClaimTakes
  <2>2. CASE Archive(w)
    <3>1. /\ wk[w].pc \in Leasing /\ wk'[w].pc \notin Leasing
          /\ \A v \in Workers \ {w} : wk'[v] = wk[v]
      BY <1>0, <2>2 DEF Archive, Goto, Leasing, WkStates
    <3>2. PICK d \in {"done", "failed"} : dir' \in {dir, [dir EXCEPT ![wk[w].job] = d]}
      BY <2>2 DEF Archive
    <3> QED
      BY <3>1, <3>2, LeaseEnds
  <2>3. CASE WorkerCrash(w)
    <3>1. /\ wk'[w].pc \notin Leasing /\ dir' = dir
          /\ \A v \in Workers \ {w} : wk'[v] = wk[v]
      BY <1>0, <2>3 DEF WorkerCrash, WkIdle, Leasing, shared
    <3>2. CASE wk[w].pc \in Leasing
      BY <3>1, <3>2, LeaseEnds
    <3>3. CASE wk[w].pc \notin Leasing
      BY <3>1, <3>3, LeaseStutter
    <3> QED
      BY <3>2, <3>3
  <2>4. CASE Step(w) /\ ~Claim(w) /\ ~Archive(w)
    BY <2>4, KeepingStutter DEF Step
  <2> QED
    BY <1>4, <2>1, <2>2, <2>3, <2>4
<1> QED
  BY <1>1, <1>2, <1>3, <1>4 DEF Next, WorkerNext

(* The directories implement the lease: every run of receiver and workers  *)
(* is one of WorkLease, so that a job is posted once, taken once, and      *)
(* never comes back from done/, failed/ or a stranded working/ file.       *)
THEOREM QueueIsLease == Spec => LeaseSpec
<1>1. Inv => TypeInv /\ OwnInv
  BY DEF Inv, OwnInv
<1> QED
  BY <1>1, Invariance, InitLease, LeaseStep, PTL DEF Spec, LeaseSpec, Lease!Spec

=============================================================================
