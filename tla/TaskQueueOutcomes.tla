-------------------------- MODULE TaskQueueOutcomes --------------------------
(***************************************************************************)
(* What the clients of TaskQueue are left with, for any tasks, datagrams   *)
(* and workers: how many jobs are stranded, whom a reply reaches, and what *)
(* "success" stands for.                                                   *)
(***************************************************************************)
EXTENDS TaskQueueProofs, FiniteSetTheorems

-----------------------------------------------------------------------------
(* Jobs that are stranded.                                                 *)
StrandedJobs == {j \in Jobs : Stranded(j)}

StrandedInv ==
  /\ IsFiniteSet(StrandedJobs)
  /\ Cardinality(StrandedJobs) <= wkCrashes + faults

LEMMA Counts ==
  /\ TypeInv => wkCrashes \in Nat /\ faults \in Nat
  /\ TypeInv' => wkCrashes' \in Nat /\ faults' \in Nat
BY ClockAssumption, WorkerAssumption DEF TypeInv, TypeOK, QueueTypeOK, WkTypeOK

(* One more member at the most.                                            *)
LEMMA OneMore ==
  ASSUME NEW S, NEW T, NEW k, T \subseteq S \cup {k},
         IsFiniteSet(S)
  PROVE  IsFiniteSet(T) /\ Cardinality(T) <= Cardinality(S) + 1
<1>1. IsFiniteSet(S \cup {k}) /\ Cardinality(S) \in Nat
      /\ (Cardinality(S \cup {k}) = Cardinality(S) + 1
          \/ Cardinality(S \cup {k}) = Cardinality(S))
  BY FS_AddElement, FS_CardinalityType
<1>2. IsFiniteSet(T) /\ Cardinality(T) <= Cardinality(S \cup {k}) /\ Cardinality(T) \in Nat
  BY <1>1, FS_Subset, FS_CardinalityType
<1> QED
  BY <1>1, <1>2

(* A step that strands no job keeps the bound.                             *)
LEMMA NoneStranded ==
  ASSUME TypeInv, TypeInv', StrandedInv,
         \A j \in Jobs : Stranded(j)' => Stranded(j),
         wkCrashes + faults <= wkCrashes' + faults'
  PROVE  StrandedInv'
<1>1. StrandedJobs' \subseteq StrandedJobs
  BY DEF StrandedJobs
<1>2. IsFiniteSet(StrandedJobs') /\ Cardinality(StrandedJobs') <= Cardinality(StrandedJobs)
  BY <1>1, FS_Subset DEF StrandedInv
<1>3. Cardinality(StrandedJobs) \in Nat /\ Cardinality(StrandedJobs') \in Nat
  BY <1>2, FS_CardinalityType DEF StrandedInv
<1> QED
  BY <1>2, <1>3, Counts DEF StrandedInv

(* A step that strands one is counted.                                     *)
LEMMA OneStranded ==
  ASSUME TypeInv, TypeInv', StrandedInv, NEW k,
         \A j \in Jobs : Stranded(j)' => Stranded(j) \/ j = k,
         wkCrashes' + faults' = wkCrashes + faults + 1
  PROVE  StrandedInv'
<1>1. StrandedJobs' \subseteq StrandedJobs \cup {k}
  BY DEF StrandedJobs
<1>2. IsFiniteSet(StrandedJobs') /\ Cardinality(StrandedJobs') <= Cardinality(StrandedJobs) + 1
  BY <1>1, OneMore DEF StrandedInv
<1>3. Cardinality(StrandedJobs) \in Nat /\ Cardinality(StrandedJobs') \in Nat
  BY <1>2, FS_CardinalityType DEF StrandedInv
<1> QED
  BY <1>2, <1>3, Counts DEF StrandedInv

(* No count ever falls.                                                    *)
LEMMA FaultsGrow ==
  ASSUME TypeInv, [Next]_vars
  PROVE  faults' \in Nat /\ faults <= faults'
<1>1. UNCHANGED faults \/ Works \/ Fails
  BY DEF Next, vars, shared, ReceiverNext, Receive, Handle, WorkerNext, Step,
         Reject, Answer, Begin, RxOpenState, RxCloseState, RxOpenJob, RxCloseJob, RxReply, RxCrash,
         Glob, Claim, SkipJob, LoadState, OpenWorking, CloseWorking, OpenState, CloseState,
         ProcessFail, OpenResult, CloseResult, Archive, OpenFinal, CloseFinal, Reply, WorkerCrash
<1> QED
  BY <1>1, Counts DEF Works, Fails

LEMMA CrashesGrow ==
  ASSUME TypeInv, [Next]_vars
  PROVE  UNCHANGED wkCrashes \/ \E w \in Workers : WorkerCrash(w)
BY DEF Next, vars, shared, wkVars, WorkerNext, Step,
         Glob, Claim, SkipJob, LoadState, OpenWorking, CloseWorking, OpenState, CloseState,
         ProcessFail, OpenResult, CloseResult, Archive, OpenFinal, CloseFinal, Reply

(* Only the kill of a worker, or the failed move of the job it is about to *)
(* archive, strands a job.                                                 *)
LEMMA StrandedStep == TypeInv /\ TypeInv' /\ OwnInv /\ StrandedInv /\ [Next]_vars => StrandedInv'
<1> SUFFICES ASSUME TypeInv, TypeInv', OwnInv, StrandedInv, [Next]_vars PROVE StrandedInv'
  OBVIOUS
<1>0. wk \in [Workers -> WkStates] /\ dir \in [Jobs -> Dirs]
  BY DEF TypeInv, TypeOK, WkTypeOK, QueueTypeOK
<1>1. ASSUME NEW w \in Workers, WorkerCrash(w) PROVE StrandedInv'
  <2>1. \A v \in Workers \ {w} : wk'[v] = wk[v]
    BY <1>0, <1>1 DEF WorkerCrash
  <2>2. \A j \in Jobs : Stranded(j)' => Stranded(j) \/ j = wk[w].job
    BY <1>1, <2>1 DEF WorkerCrash, shared, Stranded, Leases
  <2>3. wkCrashes' + faults' = wkCrashes + faults + 1
    BY <1>1, Counts DEF WorkerCrash, shared
  <2> QED
    BY <2>2, <2>3, OneStranded
<1>2. ASSUME NEW w \in Workers, Archive(w), Fails PROVE StrandedInv'
  <2>1. \A v \in Workers \ {w} : wk'[v] = wk[v]
    BY <1>0, <1>2 DEF Archive, Goto
  <2>a. UNCHANGED dir
    BY <1>2, Counts DEF Archive, Works, Fails
  <2>2. \A j \in Jobs : Stranded(j)' => Stranded(j) \/ j = wk[w].job
    BY <2>1, <2>a DEF Stranded, Leases
  <2>3. wkCrashes' + faults' = wkCrashes + faults + 1
    BY <1>2, Counts DEF Archive, Fails
  <2> QED
    BY <2>2, <2>3, OneStranded
<1>3. ASSUME UNCHANGED wkCrashes, \A j \in Jobs : Stranded(j)' => Stranded(j)
      PROVE  StrandedInv'
  BY <1>3, FaultsGrow, Counts, NoneStranded
<1>4. ASSUME NEW w \in Workers, Archive(w), ~Fails PROVE StrandedInv'
  <2>1. \A v \in Workers \ {w} : wk'[v] = wk[v]
    BY <1>0, <1>4 DEF Archive, Goto
  <2>2. PICK d \in {"done", "failed"} : dir' = [dir EXCEPT ![wk[w].job] = d]
    BY <1>4 DEF Archive
  <2>3. \A j \in Jobs : Stranded(j)' => Stranded(j)
    <3> SUFFICES ASSUME NEW j \in Jobs, Stranded(j)' PROVE Stranded(j)
      OBVIOUS
    <3>1. j # wk[w].job
      BY <1>0, <2>2 DEF Stranded
    <3>2. dir'[j] = dir[j]
      BY <1>0, <2>2, <3>1
    <3> QED
      BY <2>1, <3>1, <3>2 DEF Stranded, Leases
  <2> QED
    BY <1>3, <1>4, <2>3 DEF Archive
<1>5. ASSUME NEW w \in Workers, Claim(w) PROVE StrandedInv'
  <2> PICK k \in First(wk[w].todo) :
        /\ dir[k] = "pending"
        /\ dir' = [dir EXCEPT ![k] = "working"]
        /\ wk' = [wk EXCEPT ![w] = [wk[w] EXCEPT !.pc = "load", !.todo = wk[w].todo \ {k},
                                             !.job = k, !.req = job[k]]]
    BY <1>5 DEF Claim
  <2>1. Leases(w, k)' /\ \A v \in Workers \ {w} : wk'[v] = wk[v]
    BY <1>0 DEF Leases, Leasing, WkStates
  <2>2. wk[w].pc \notin Leasing
    BY <1>5 DEF Claim, Leasing
  <2>3. \A j \in Jobs : Stranded(j)' => Stranded(j)
    <3> SUFFICES ASSUME NEW j \in Jobs, Stranded(j)' PROVE Stranded(j)
      OBVIOUS
    <3>1. j # k
      BY <2>1 DEF Stranded
    <3>2. dir'[j] = dir[j]
      BY <1>0, <3>1
    <3> QED
      BY <2>1, <2>2, <3>2 DEF Stranded, Leases
  <2> QED
    BY <1>3, <1>5, <2>3 DEF Claim
<1>6. ASSUME NEW w \in Workers, Step(w), ~Claim(w), ~Archive(w) PROVE StrandedInv'
  <2>1. UNCHANGED dir /\ \A v \in Workers : wk[v].pc \in Leasing => wk'[v].pc \in Leasing
    BY <1>6, KeepingSteps, OtherStepOwners DEF Step
  <2>2. \A v \in Workers : wk'[v].pc \in Owning => wk[v].pc \in Owning /\ wk'[v].job = wk[v].job
    BY <1>6, OtherStepOwners DEF Step
  <2>3. \A j \in Jobs : Stranded(j)' => Stranded(j)
    BY <2>1, <2>2 DEF Stranded, Leases, Owning
  <2>4. UNCHANGED wkCrashes
    BY <1>6 DEF Step, Glob, SkipJob, LoadState, OpenWorking, CloseWorking,
                ProcessFail, OpenResult, CloseResult, OpenFinal, CloseFinal, Reply
  <2> QED
    BY <1>3, <2>3, <2>4
<1>7. CASE ReceiverNext /\ UNCHANGED wkVars
  <2>1. \A j \in Jobs : dir'[j] = "working" => dir[j] = "working"
    <3>1. UNCHANGED dir \/ \E k : dir' = [dir EXCEPT ![k] = "pending"]
      BY <1>7 DEF ReceiverNext, Receive, Handle, Reject, Answer, Begin, RxOpenState,
                  RxCloseState, RxOpenJob, RxCloseJob, RxReply, RxCrash, shared
    <3> QED
      BY <1>0, <3>1
  <2>2. \A j \in Jobs : Stranded(j)' => Stranded(j)
    BY <1>7, <2>1 DEF Stranded, Leases, wkVars
  <2> QED
    BY <1>3, <1>7, <2>2 DEF wkVars
<1>8. CASE UNCHANGED vars
  <2>1. \A j \in Jobs : Stranded(j)' => Stranded(j)
    BY <1>8 DEF vars, shared, wkVars, Stranded, Leases
  <2> QED
    BY <1>3, <1>8, <2>1 DEF vars, wkVars
<1> QED
  BY <1>1, <1>2, <1>4, <1>5, <1>6, <1>7, <1>8 DEF Next, WorkerNext

LEMMA InitStranded == Init => StrandedInv
<1> SUFFICES ASSUME Init PROVE StrandedInv
  OBVIOUS
<1>1. StrandedJobs = {}
  BY DEF Init, QueueInit, StrandedJobs, Stranded
<1> QED
  BY <1>1, FS_EmptySet DEF Init, QueueInit, WkInit, StrandedInv

(* However many jobs, workers and failures there are, and in whatever      *)
(* order: each job left behind in working/ costs the kill of a worker or a *)
(* failed file operation, and no kill leaves two.                          *)
THEOREM StrandedIsBounded == Spec => []StrandedBound
<1>1. Inv => TypeInv /\ OwnInv
  BY DEF Inv, OwnInv
<1>2. StrandedInv => StrandedBound
  BY DEF StrandedInv, StrandedBound, StrandedJobs
<1> QED
  BY <1>1, <1>2, Invariance, InitStranded, StrandedStep, PTL DEF Spec

-----------------------------------------------------------------------------
(* Whom a reply reaches.  Wherever a request is, it was asked for; the     *)
(* clock only makes more of them asked for.                                *)
LEMMA ClockGrows ==
  TypeInv /\ [Next]_vars => clock \in Nat /\ clock' \in Nat /\ clock <= clock'
<1> SUFFICES ASSUME TypeInv, [Next]_vars PROVE clock \in Nat /\ clock' \in Nat /\ clock <= clock'
  OBVIOUS
<1>1. clock \in Nat
  BY ClockAssumption DEF TypeInv, TypeOK, QueueTypeOK
<1>2. clock' = clock \/ clock' = clock + 1
  BY DEF Next, vars, shared, ReceiverNext, Receive, Handle, WorkerNext, Step,
         Reject, Answer, Begin, TakesReading,
         RxOpenState, RxCloseState, RxOpenJob, RxCloseJob, RxReply, RxCrash,
         Glob, Claim, SkipJob, LoadState, OpenWorking, CloseWorking,
         ProcessFail, OpenResult, CloseResult, Archive, OpenFinal, CloseFinal, Reply, WorkerCrash
<1> QED
  BY <1>1, <1>2

LEMMA AskedStays ==
  ASSUME NEW now \in Nat, NEW later \in Nat, now <= later
  PROVE  AskedBy(now) \subseteq AskedBy(later)
<1>1. 1 .. now \subseteq 1 .. later
  OBVIOUS
<1> QED
  BY <1>1 DEF AskedBy

LEMMA ReplyAskedStays ==
  ASSUME NEW now \in Nat, NEW later \in Nat, now <= later, NEW r, ReplyAsked(r, now)
  PROVE  ReplyAsked(r, later)
BY AskedStays DEF ReplyAsked

LEMMA ReceivedAsked ==
  ASSUME NEW m \in Submits, clock \in Nat, TakesReading(m)
  PROVE  Received(m) \in AskedBy(clock')
<1>1. CASE m.task = Nil
  <2>1. Received(m) = Completed(m, clock') /\ clock' \in 1 .. clock'
    BY <1>1 DEF Received, TakesReading
  <2> QED
    BY <1>1, <2>1 DEF AskedBy
<1>2. CASE m.task # Nil
  <2>1. Received(m) = Completed(m, 0)
    BY <1>2 DEF Received, Completed
  <2> QED
    BY <1>2, <2>1 DEF AskedBy
<1> QED
  BY <1>1, <1>2

(* What was asked for is a request for a task, made by a datagram.         *)
LEMMA AskedFacts ==
  ASSUME NEW now \in 0 .. MaxClock, NEW q \in AskedBy(now)
  PROVE  q.task \in TaskIds /\ q.client \in Addresses /\ AskedFor(q.task, q.client, now)
<1>a. PICK m \in Submits : \E i \in IF m.task = Nil THEN 1 .. now ELSE {0} : q = Completed(m, i)
  BY DEF AskedBy
<1>1. PICK i \in IF m.task = Nil THEN 1 .. now ELSE {0} : q = Completed(m, i)
  BY <1>a
<1>2. /\ m.task \in TaskIds \cup {Nil}
      /\ m.reply.ip \in Ips \cup {Nil} /\ m.reply.port \in Ports \cup {0}
      /\ m.peer.ip \in Ips /\ m.peer.port \in Ports
  BY SubmitAssumption DEF Addresses
<1>3. q.client = ReplyAddress(m) /\ q.client \in Addresses
  BY <1>1, <1>2 DEF Completed, ReplyAddress, Addresses
<1>4. CASE m.task = Nil
  <2>1. i \in Ticks /\ q.task = ClockId[i]
    BY <1>1, <1>4, ClockAssumption DEF Ticks, Completed
  <2> QED
    BY <1>1, <1>3, <1>4, <2>1, ClockAssumption DEF AskedFor
<1>5. CASE m.task # Nil
  <2>1. q.task = m.task
    BY <1>1, <1>5 DEF Completed
  <2> QED
    BY <1>2, <1>3, <1>5, <2>1 DEF AskedFor
<1> QED
  BY <1>4, <1>5

(* One change of each variable.                                            *)
LEMMA SentAsked ==
  ASSUME RepliesAsked, clock \in Nat, clock' \in Nat, clock <= clock',
         NEW reply, Send(reply),
         reply.to # NoAddress => ReplyAsked(reply, clock')
  PROVE  RepliesAsked'
BY ReplyAskedStays DEF RepliesAsked, Send

LEMMA SentKept ==
  ASSUME RepliesAsked, clock \in Nat, clock' \in Nat, clock <= clock', UNCHANGED sent
  PROVE  RepliesAsked'
BY ReplyAskedStays DEF RepliesAsked

FilesAsked ==
  \A n \in FileNames : state[n].req # NoRequest => Asked(state[n].req) /\ NameOf[state[n].req.task] = n

JobsAsked == \A j \in Jobs : job[j] # NoRequest => Asked(job[j])

RxAsked == rx.req # NoRequest => Asked(rx.req)

WorkersAsked ==
  \A w \in Workers :
    /\ wk[w].req # NoRequest => Asked(wk[w].req)
    /\ wk[w].st.req # NoRequest => Asked(wk[w].st.req)
    /\ wk[w].pc \in Owning \ {"load"} => wk[w].st.req.task = wk[w].req.task

LEMMA AskedParts ==
  AskedInv <=> FilesAsked /\ JobsAsked /\ RxAsked /\ WorkersAsked /\ RepliesAsked
BY DEF AskedInv, RequestsAsked, StatesInPlace, FilesAsked, JobsAsked, RxAsked, WorkersAsked

LEMMA FileWritten ==
  ASSUME TypeInv, FilesAsked, clock \in Nat, clock' \in Nat, clock <= clock',
         NEW st, st.req # NoRequest => Asked(st.req),
         CloseStateFile(st)
  PROVE  FilesAsked'
<1>1. state \in [FileNames -> TaskStates \cup {Absent, Empty}]
  BY DEF TypeInv, TypeOK, QueueTypeOK
<1>2. \A n \in FileNames : state'[n] = state[n] \/ (n = NameOf[st.req.task] /\ state'[n] = st)
  BY <1>1 DEF CloseStateFile, StateFile
<1>3. ASSUME NEW n \in FileNames, state'[n].req # NoRequest
      PROVE  state'[n].req \in AskedBy(clock') /\ NameOf[state'[n].req.task] = n
  BY <1>2, <1>3, AskedStays DEF FilesAsked, Asked
<1> QED
  BY <1>3 DEF FilesAsked, Asked

LEMMA FilesKept ==
  ASSUME TypeInv, FilesAsked, clock \in Nat, clock' \in Nat, clock <= clock',
         NEW task, UNCHANGED state \/ OpenStateFile(task)
  PROVE  FilesAsked'
<1>1. state \in [FileNames -> TaskStates \cup {Absent, Empty}]
  BY DEF TypeInv, TypeOK, QueueTypeOK
<1>2. \A n \in FileNames : state'[n] = state[n] \/ state'[n].req = NoRequest
  BY <1>1 DEF OpenStateFile, Empty
<1> QED
  BY <1>2, AskedStays DEF FilesAsked, Asked

LEMMA JobsAskedKept ==
  ASSUME JobsAsked, clock \in Nat, clock' \in Nat, clock <= clock', UNCHANGED job
  PROVE  JobsAsked'
BY AskedStays DEF JobsAsked, Asked

LEMMA RxAskedKept ==
  ASSUME RxAsked, clock \in Nat, clock' \in Nat, clock <= clock',
         rx'.req = rx.req \/ rx'.req = NoRequest
  PROVE  RxAsked'
BY AskedStays DEF RxAsked, Asked

LEMMA WorkersAskedKept ==
  ASSUME WorkersAsked, clock \in Nat, clock' \in Nat, clock <= clock', UNCHANGED wk
  PROVE  WorkersAsked'
BY AskedStays DEF WorkersAsked, Asked

LEMMA WorkerBecomes ==
  ASSUME TypeInv, WorkersAsked, clock \in Nat, clock' \in Nat, clock <= clock',
         NEW w \in Workers, NEW r, wk' = [wk EXCEPT ![w] = r],
         r.req # NoRequest => Asked(r.req),
         r.st.req # NoRequest => Asked(r.st.req),
         r.pc \in Owning \ {"load"} => r.st.req.task = r.req.task
  PROVE  WorkersAsked'
<1>1. \A v \in Workers : wk'[v] = IF v = w THEN r ELSE wk[v]
  BY DEF TypeInv, TypeOK, WkTypeOK
<1>2. ASSUME NEW v \in Workers
      PROVE  /\ wk'[v].req # NoRequest => wk'[v].req \in AskedBy(clock')
             /\ wk'[v].st.req # NoRequest => wk'[v].st.req \in AskedBy(clock')
             /\ wk'[v].pc \in Owning \ {"load"} => wk'[v].st.req.task = wk'[v].req.task
  <2>1. CASE v = w
    BY <1>1, <2>1, AskedStays DEF Asked
  <2>2. CASE v # w
    BY <1>1, <2>2, AskedStays DEF WorkersAsked, Asked
  <2> QED
    BY <2>1, <2>2
<1> QED
  BY <1>2 DEF WorkersAsked, Asked

(* A state file that is found under a name is about the task of that name. *)
LEMMA FoundIsOwn ==
  ASSUME TypeInv, NamesApart, FilesAsked, NEW task \in TaskIds \cup {Nil}, ReadTaskState(task)
  PROVE  /\ state[StateFile(task)].req.task = task
         /\ Asked(state[StateFile(task)].req)
<1> DEFINE n == NameOf[task]
<1>1. n \in FileNames
  BY NameAssumption
<1>2. state[n] \in TaskStates \cup {Absent, Empty}
  BY <1>1 DEF TypeInv, TypeOK, QueueTypeOK
<1>3. state[n].req \in Requests /\ state[n].req # NoRequest
  BY <1>2, AddressesReal DEF ReadTaskState, StateFile, TaskStates, Absent, Empty, NoRequest
<1>4. Asked(state[n].req) /\ NameOf[state[n].req.task] = n
  BY <1>1, <1>3 DEF FilesAsked
<1>5. state[n].req.task \in TaskIds
  BY <1>3 DEF Requests
<1> QED
  BY <1>4, <1>5 DEF NamesApart, StateFile

LEMMA ReceiverAsked ==
  ASSUME TypeInv, NamesApart, AskedInv, ReceiverNext, UNCHANGED wkVars
  PROVE  AskedInv'
<1> SUFFICES FilesAsked' /\ JobsAsked' /\ RxAsked' /\ WorkersAsked' /\ RepliesAsked'
  BY DEF AskedInv, RequestsAsked, StatesInPlace, FilesAsked, JobsAsked, RxAsked, WorkersAsked
<1>0. clock \in Nat /\ clock' \in Nat /\ clock <= clock'
  BY ClockGrows DEF Next
<1>a. FilesAsked /\ JobsAsked /\ RxAsked /\ WorkersAsked /\ RepliesAsked
  BY AskedParts
<1>b. WorkersAsked'
  BY <1>0, <1>a, WorkersAskedKept DEF wkVars
<1>c. UNCHANGED state => FilesAsked'
  BY <1>0, <1>a, FilesKept
<1>d. UNCHANGED job => JobsAsked'
  BY <1>0, <1>a, JobsAskedKept
<1>e. rx'.req = rx.req \/ rx'.req = NoRequest => RxAsked'
  BY <1>0, <1>a, RxAskedKept
<1>f. UNCHANGED sent => RepliesAsked'
  BY <1>0, <1>a, SentKept
<1>1. ASSUME NEW m \in Submits, Reject(m)
      PROVE  FilesAsked' /\ JobsAsked' /\ RxAsked' /\ RepliesAsked'
  <2> DEFINE reply == ReplyTo(Received(m), "failed")
  <2>1. ReplyAsked(reply, clock')
    BY <1>0, <1>1, ReceivedAsked DEF ReplyTo, Reject, ReplyAsked
  <2>2. Send(reply)
    BY <1>1 DEF Reject
  <2> HIDE DEF reply
  <2>3. RepliesAsked'
    BY <1>0, <1>a, <2>1, <2>2, SentAsked
  <2> QED
    BY <1>1, <1>c, <1>d, <1>e, <2>3 DEF Reject, rxVars
<1>2. ASSUME NEW m \in Submits, Answer(m)
      PROVE  FilesAsked' /\ JobsAsked' /\ RxAsked' /\ RepliesAsked'
  <2> DEFINE task == Received(m).task
             reply == ReplyForState(state[StateFile(task)], Received(m).client)
  <2>1. Received(m) \in AskedBy(clock')
    BY <1>0, <1>2, ReceivedAsked DEF Answer
  <2>2. task \in TaskIds
    BY <1>0, <1>2, CompletedType, ClockAssumption DEF Answer, TakesReading
  <2> DEFINE found == state[StateFile(task)].req
  <2>3. /\ reply.task = task /\ reply.to = Received(m).client
        /\ reply.result = found.result /\ found.task = task /\ found \in AskedBy(clock)
    BY <1>2, <1>a, <2>2, FoundIsOwn DEF Answer, ReplyForState, Asked
  <2>6. found \in AskedBy(clock')
    BY <1>0, <2>3, AskedStays
  <2>4. Send(reply)
    BY <1>2 DEF Answer
  <2>7. ReplyAsked(reply, clock')
    BY <2>1, <2>3, <2>6 DEF ReplyAsked
  <2> HIDE DEF reply, task
  <2>5. RepliesAsked'
    BY <1>0, <1>a, <2>4, <2>7, SentAsked
  <2> QED
    BY <1>2, <1>c, <1>d, <1>e, <2>5 DEF Answer, rxVars
<1>3. ASSUME NEW m \in Submits, Begin(m)
      PROVE  FilesAsked' /\ JobsAsked' /\ RxAsked' /\ RepliesAsked'
  <2>1. rx'.req = Received(m)
    BY <1>3 DEF Begin, RxIdle
  <2>2. Received(m) \in AskedBy(clock')
    BY <1>0, <1>3, ReceivedAsked DEF Begin
  <2>3. RxAsked'
    BY <2>1, <2>2 DEF RxAsked, Asked
  <2> QED
    BY <1>3, <1>c, <1>d, <1>f, <2>3 DEF Begin
<1>4. CASE RxOpenState
  <2>1. UNCHANGED state \/ OpenStateFile(rx.req.task)
    BY <1>4 DEF RxOpenState
  <2>2. FilesAsked'
    BY <1>0, <1>a, <2>1, FilesKept
  <2>3. rx'.req = rx.req
    BY <1>4 DEF RxOpenState, RxStateWritten, TypeInv, TypeOK, RxTypeOK
  <2> QED
    BY <1>4, <1>b, <1>d, <1>e, <1>f, <2>2, <2>3 DEF RxOpenState
<1>5. CASE RxCloseState
  <2> DEFINE st == [req |-> rx.req, status |-> rx.status]
  <2>1. UNCHANGED state \/ CloseStateFile(st)
    BY <1>5 DEF RxCloseState
  <2>a. st.req # NoRequest => Asked(st.req)
    BY <1>a DEF RxAsked
  <2> HIDE DEF st
  <2>2. FilesAsked'
    BY <1>0, <1>a, <2>1, <1>c, <2>a, FileWritten
  <2>3. rx'.req = rx.req
    BY <1>5 DEF RxCloseState, RxStateWritten, TypeInv, TypeOK, RxTypeOK
  <2> QED
    BY <1>5, <1>b, <1>d, <1>e, <1>f, <2>2, <2>3 DEF RxCloseState
<1>6. CASE RxOpenJob
  <2>3. rx'.req = rx.req
    BY <1>6 DEF RxOpenJob, RxJobWritten, TypeInv, TypeOK, RxTypeOK
  <2> QED
    BY <1>6, <1>b, <1>c, <1>d, <1>e, <1>f, <2>3 DEF RxOpenJob
<1>7. CASE RxCloseJob
  <2>1. \A j \in Jobs : job'[j] = job[j] \/ job'[j] = rx.req
    BY <1>7 DEF RxCloseJob, TypeInv, TypeOK, QueueTypeOK
  <2>2. JobsAsked'
    BY <1>0, <1>a, <2>1, AskedStays DEF JobsAsked, RxAsked, Asked
  <2>3. rx'.req = rx.req
    BY <1>7 DEF RxCloseJob, RxJobWritten, TypeInv, TypeOK, RxTypeOK
  <2> QED
    BY <1>7, <1>b, <1>c, <1>e, <1>f, <2>2, <2>3 DEF RxCloseJob
<1>8. CASE RxReply
  <2> DEFINE reply == ReplyTo(rx.req, IF rx.status = "pending" THEN "accepted" ELSE "failed")
  <2>1. reply.to # NoAddress => ReplyAsked(reply, clock')
    <3>1. reply.to # NoAddress => rx.req \in AskedBy(clock')
      BY <1>0, <1>a, AskedStays DEF ReplyTo, RxAsked, Asked, NoRequest
    <3> QED
      BY <3>1 DEF ReplyTo, ReplyAsked
  <2>2. Send(reply)
    BY <1>8 DEF RxReply
  <2> HIDE DEF reply
  <2>3. RepliesAsked'
    BY <1>0, <1>a, <2>1, <2>2, SentAsked
  <2> QED
    BY <1>8, <1>b, <1>c, <1>d, <1>e, <2>3 DEF RxReply, RxIdle
<1>9. CASE RxCrash
  BY <1>9, <1>b, <1>c, <1>d, <1>e, <1>f DEF RxCrash, RxIdle, shared
<1> QED
  BY <1>b, <1>1, <1>2, <1>3, <1>4, <1>5, <1>6, <1>7, <1>8, <1>9
  DEF ReceiverNext, Receive, Handle

(* What a worker becomes holds only requests it had, or none.              *)
LEMMA GotoAsked ==
  ASSUME TypeInv, WorkersAsked, clock \in Nat, UNCHANGED clock, NEW w \in Workers,
         NEW pc, Goto(w, pc), wk[w].pc \in Owning \ {"load"}
  PROVE  WorkersAsked'
<1> DEFINE r == [wk[w] EXCEPT !.pc = pc]
<1>1. /\ r.req = wk[w].req /\ r.st = wk[w].st
      /\ wk' = [wk EXCEPT ![w] = r]
  BY DEF Goto, TypeInv, TypeOK, WkTypeOK, WkStates
<1> HIDE DEF r
<1>2. r.st.req = wk[w].st.req /\ r.st.req.task = r.req.task
  BY <1>1 DEF WorkersAsked
<1>3. /\ wk[w].req # NoRequest => Asked(wk[w].req)
      /\ wk[w].st.req # NoRequest => Asked(wk[w].st.req)
  BY DEF WorkersAsked
<1>4. clock' \in Nat /\ clock <= clock'
  OBVIOUS
<1> QED
  BY <1>1, <1>2, <1>3, <1>4, WorkerBecomes

LEMMA NextJobAsked ==
  ASSUME TypeInv, WorkersAsked, clock \in Nat, UNCHANGED clock, NEW w \in Workers,
         NEW todo, NextJob(w, todo)
  PROVE  WorkersAsked'
<1> DEFINE r == [WkIdle EXCEPT !.todo = todo, !.pc = IF todo = {} THEN "glob" ELSE "claim"]
<1>1. /\ r.req = NoRequest /\ r.st.req = NoRequest /\ r.pc \notin Owning
      /\ wk' = [wk EXCEPT ![w] = r]
  BY DEF NextJob, WkIdle, Absent, Owning, Leasing
<1> HIDE DEF r
<1>2. clock' \in Nat /\ clock <= clock'
  OBVIOUS
<1> QED
  BY <1>1, <1>2, WorkerBecomes

LEMMA ProcessedAsked ==
  ASSUME TypeInv, WorkersAsked, clock \in Nat, UNCHANGED clock, NEW w \in Workers,
         NEW ok, Processed(w, ok), wk[w].pc \in Owning \ {"load"}
  PROVE  WorkersAsked'
<1> DEFINE r == [wk[w] EXCEPT !.pc = "archive",
                              !.st.status = IF ok THEN "success" ELSE "failed"]
<1>0. wk[w].st \in TaskStates \cup {Absent}
  BY WorkerFields DEF TypeInv, TypeOK
<1>1. /\ r.req = wk[w].req /\ r.st.req = wk[w].st.req
      /\ wk' = [wk EXCEPT ![w] = r]
  BY <1>0 DEF Processed, TypeInv, TypeOK, WkTypeOK, WkStates, TaskStates, Absent
<1> HIDE DEF r
<1>2. r.st.req.task = r.req.task
  BY <1>1 DEF WorkersAsked
<1>3. /\ wk[w].req # NoRequest => Asked(wk[w].req)
      /\ wk[w].st.req # NoRequest => Asked(wk[w].st.req)
  BY DEF WorkersAsked
<1>4. clock' \in Nat /\ clock <= clock'
  OBVIOUS
<1> QED
  BY <1>1, <1>2, <1>3, <1>4, WorkerBecomes

LEMMA WorkerAsked ==
  ASSUME TypeInv, NamesApart, AskedInv, WorkerNext, UNCHANGED rxVars
  PROVE  AskedInv'
<1> SUFFICES ASSUME NEW w \in Workers, Step(w) \/ WorkerCrash(w)
             PROVE  FilesAsked' /\ JobsAsked' /\ RxAsked' /\ WorkersAsked' /\ RepliesAsked'
  BY DEF WorkerNext, AskedInv, RequestsAsked, StatesInPlace, FilesAsked, JobsAsked, RxAsked, WorkersAsked
<1>a. FilesAsked /\ JobsAsked /\ RxAsked /\ WorkersAsked /\ RepliesAsked
  BY AskedParts
<1>0. clock \in Nat
  BY ClockAssumption DEF TypeInv, TypeOK, QueueTypeOK
<1>1. UNCHANGED clock /\ UNCHANGED job
  BY DEF Step, shared, Glob, Claim, SkipJob, LoadState, OpenWorking, CloseWorking,
         ProcessFail, OpenResult, CloseResult, Archive, OpenFinal, CloseFinal, Reply, WorkerCrash
<1>2. clock' \in Nat /\ clock <= clock'
  BY <1>0, <1>1
<1>3. JobsAsked' /\ RxAsked'
  BY <1>0, <1>1, <1>2, <1>a, JobsAskedKept, RxAskedKept DEF rxVars
<1>4. UNCHANGED state => FilesAsked'
  BY <1>0, <1>2, <1>a, FilesKept
<1>5. UNCHANGED sent => RepliesAsked'
  BY <1>0, <1>2, <1>a, SentKept
<1>wk. wk \in [Workers -> WkStates]
  BY DEF TypeInv, TypeOK, WkTypeOK
<1>6. CASE Glob(w)
  <2> DEFINE r == [wk[w] EXCEPT !.pc = "claim", !.todo = In("pending")]
  <2>1. r.req = wk[w].req /\ r.st = wk[w].st /\ r.pc = "claim" /\ wk' = [wk EXCEPT ![w] = r]
    BY <1>6, <1>wk DEF Glob, WkStates
  <2> HIDE DEF r
  <2>2. r.st.req = wk[w].st.req /\ r.pc \notin Owning
    BY <2>1 DEF Owning, Leasing
  <2>3. WorkersAsked'
    BY <1>0, <1>2, <1>a, <2>1, <2>2, WorkerBecomes DEF WorkersAsked
  <2> QED
    BY <1>3, <1>4, <1>5, <1>6, <2>3 DEF Glob, shared
<1>7. CASE Claim(w)
  <2> PICK j \in First(wk[w].todo) :
        wk' = [wk EXCEPT ![w] = [wk[w] EXCEPT !.pc = "load", !.todo = wk[w].todo \ {j},
                                             !.job = j, !.req = job[j]]]
    BY <1>7 DEF Claim
  <2> DEFINE r == [wk[w] EXCEPT !.pc = "load", !.todo = wk[w].todo \ {j},
                                !.job = j, !.req = job[j]]
  <2>1. r.req = job[j] /\ r.st = wk[w].st /\ r.pc = "load" /\ j \in Jobs
    BY <1>wk DEF WkStates, First
  <2>2. wk' = [wk EXCEPT ![w] = r]
    OBVIOUS
  <2> HIDE DEF r
  <2>3. /\ r.st.req = wk[w].st.req /\ r.pc \notin Owning \ {"load"}
        /\ wk[w].st.req # NoRequest => Asked(wk[w].st.req)
        /\ job[j] # NoRequest => Asked(job[j])
    BY <1>a, <2>1 DEF WorkersAsked, JobsAsked
  <2>4. WorkersAsked'
    BY <1>0, <1>2, <1>a, <2>1, <2>2, <2>3, WorkerBecomes
  <2> QED
    BY <1>3, <1>4, <1>5, <1>7, <2>4 DEF Claim
<1>8. CASE SkipJob(w)
  <2>1. WorkersAsked'
    BY <1>0, <1>1, <1>8, <1>a, NextJobAsked DEF SkipJob
  <2> QED
    BY <1>3, <1>4, <1>5, <1>8, <2>1 DEF SkipJob
<1>9. CASE LoadState(w)
  <2> DEFINE req   == wk[w].req
             known == IF ReadTaskState(req.task) THEN state[StateFile(req.task)].req ELSE req
             r     == [wk[w] EXCEPT !.pc = "openWorking",
                                    !.st = [req |-> known, status |-> "working"]]
  <2>1. req \in Requests \cup {NoRequest} /\ req.task \in TaskIds \cup {Nil}
    BY <1>wk DEF WkStates, Requests, NoRequest
  <2>2. known.task = req.task /\ (known # NoRequest => Asked(known))
    BY <1>a, <2>1, FoundIsOwn DEF WorkersAsked
  <2>3. r.req = req /\ r.st.req = known /\ r.pc = "openWorking"
    BY <1>wk DEF WkStates
  <2>4. wk' = [wk EXCEPT ![w] = r]
    BY <1>9 DEF LoadState
  <2>5. req # NoRequest => Asked(req)
    BY <1>a DEF WorkersAsked
  <2> HIDE DEF r, known, req
  <2>6. WorkersAsked'
    BY <1>0, <1>2, <1>a, <2>2, <2>3, <2>4, <2>5, WorkerBecomes
  <2> QED
    BY <1>3, <1>4, <1>5, <1>9, <2>6 DEF LoadState, shared
<1>10. ASSUME OpenWorking(w) \/ OpenFinal(w) PROVE FilesAsked' /\ WorkersAsked' /\ RepliesAsked'
  <2>1. UNCHANGED state \/ OpenStateFile(wk[w].st.req.task)
    BY <1>10 DEF OpenWorking, OpenFinal, OpenState
  <2>2. \E pc : Goto(w, pc)
    BY <1>10 DEF OpenWorking, OpenFinal, OpenState
  <2>3. wk[w].pc \in Owning \ {"load"} /\ UNCHANGED sent
    BY <1>10 DEF OpenWorking, OpenFinal, OpenState, Owning, Leasing
  <2>4. FilesAsked'
    BY <1>0, <1>2, <1>a, <2>1, FilesKept
  <2>5. WorkersAsked'
    BY <1>0, <1>1, <1>a, <2>2, <2>3, GotoAsked
  <2> QED
    BY <1>5, <2>3, <2>4, <2>5
<1>11. ASSUME CloseWorking(w) \/ CloseFinal(w) PROVE FilesAsked' /\ WorkersAsked' /\ RepliesAsked'
  <2>1. UNCHANGED state \/ CloseStateFile(wk[w].st)
    BY <1>11 DEF CloseWorking, CloseFinal, CloseState
  <2>2. \E pc : Goto(w, pc)
    BY <1>11 DEF CloseWorking, CloseFinal, CloseState
  <2>3. wk[w].pc \in Owning \ {"load"} /\ UNCHANGED sent
    BY <1>11 DEF CloseWorking, CloseFinal, CloseState, Owning, Leasing
  <2>a. wk[w].st.req # NoRequest => Asked(wk[w].st.req)
    BY <1>a DEF WorkersAsked
  <2>4. FilesAsked'
    BY <1>0, <1>2, <1>4, <1>a, <2>1, <2>a, FileWritten
  <2>5. WorkersAsked'
    BY <1>0, <1>1, <1>a, <2>2, <2>3, GotoAsked
  <2> QED
    BY <1>5, <2>3, <2>4, <2>5
<1>12. CASE ProcessFail(w) \/ CloseResult(w)
  <2>1. (\E ok : Processed(w, ok)) /\ wk[w].pc \in Owning \ {"load"}
    BY <1>12 DEF ProcessFail, CloseResult, Owning, Leasing
  <2>2. WorkersAsked'
    BY <1>0, <1>1, <1>a, <2>1, ProcessedAsked
  <2> QED
    BY <1>3, <1>4, <1>5, <1>12, <2>2 DEF ProcessFail, CloseResult, shared
<1>13. CASE OpenResult(w) \/ Archive(w)
  <2>1. (\E pc : Goto(w, pc)) /\ wk[w].pc \in Owning \ {"load"}
    BY <1>13 DEF OpenResult, Archive, Owning, Leasing
  <2>2. WorkersAsked'
    BY <1>0, <1>1, <1>a, <2>1, GotoAsked
  <2> QED
    BY <1>3, <1>4, <1>5, <1>13, <2>2 DEF OpenResult, Archive
<1>14. CASE Reply(w)
  <2> DEFINE reply == [to |-> wk[w].st.req.client, task |-> wk[w].req.task,
                       result |-> wk[w].req.result, status |-> wk[w].st.status]
  <2>1. Send(reply)
    BY <1>14 DEF Reply
  <2>2. wk[w].st.req.task = wk[w].req.task
    BY <1>14, <1>a DEF Reply, WorkersAsked, Owning
  <2>3. reply.to # NoAddress => ReplyAsked(reply, clock')
    <3> SUFFICES ASSUME reply.to # NoAddress PROVE ReplyAsked(reply, clock')
      OBVIOUS
    <3>1. wk[w].st.req \in AskedBy(clock)
      BY <1>a DEF WorkersAsked, Asked, NoRequest
    <3>2. wk[w].req.task \in TaskIds
      BY <2>2, <3>1, AskedFacts DEF TypeInv, TypeOK, QueueTypeOK
    <3>3. wk[w].req \in AskedBy(clock)
      BY <1>a, <3>2, NameAssumption DEF WorkersAsked, Asked, NoRequest
    <3> QED
      BY <1>1, <2>2, <3>1, <3>3 DEF ReplyAsked
  <2> HIDE DEF reply
  <2>4. RepliesAsked'
    BY <1>0, <1>2, <1>a, <2>1, <2>3, SentAsked
  <2>5. WorkersAsked'
    BY <1>0, <1>1, <1>14, <1>a, NextJobAsked DEF Reply
  <2> QED
    BY <1>3, <1>4, <1>14, <2>4, <2>5 DEF Reply
<1>15. CASE WorkerCrash(w)
  <2>1. /\ WkIdle.req = NoRequest /\ WkIdle.st.req = NoRequest /\ WkIdle.pc \notin Owning
        /\ wk' = [wk EXCEPT ![w] = WkIdle]
    BY <1>15 DEF WorkerCrash, WkIdle, Absent, Owning, Leasing
  <2>2. WorkersAsked'
    BY <1>0, <1>2, <1>a, <2>1, WorkerBecomes
  <2> QED
    BY <1>3, <1>4, <1>5, <1>15, <2>2 DEF WorkerCrash, shared
<1> QED
  BY <1>3, <1>6, <1>7, <1>8, <1>9, <1>10, <1>11, <1>12, <1>13, <1>14, <1>15 DEF Step

LEMMA AskedStep == NamesApart /\ TypeInv /\ AskedInv /\ [Next]_vars => AskedInv'
<1> SUFFICES ASSUME NamesApart, TypeInv, AskedInv, [Next]_vars PROVE AskedInv'
  OBVIOUS
<1>1. CASE Next
  BY <1>1, ReceiverAsked, WorkerAsked DEF Next
<1>2. CASE UNCHANGED vars
  BY <1>2 DEF vars, shared, rxVars, wkVars, AskedInv, RequestsAsked, StatesInPlace,
              RepliesAsked, Asked
<1> QED
  BY <1>1, <1>2

LEMMA InitAsked == Init => AskedInv
BY DEF Init, QueueInit, RxInit, WkInit, RxIdle, WkIdle, Absent, AskedInv, RequestsAsked,
       StatesInPlace, RepliesAsked, Owning, Leasing

(* Where names tell tasks apart, nobody is told of a task they did not     *)
(* submit: in spite of the worker taking the task from the job file and    *)
(* the address from the state file, with files emptied, overwritten and    *)
(* read half-written, and processes killed, in between.                    *)
THEOREM RepliesReachTheirClients ==
  ASSUME NamesApart PROVE Spec => []ReplyNamesItsTask
<1>1. Inv /\ AskedInv /\ [Next]_vars => AskedInv'
  BY AskedStep DEF Inv
<1>2. Inv /\ AskedInv => ReplyNamesItsTask
  <2> SUFFICES ASSUME Inv, AskedInv, NEW r \in sent PROVE AskedFor(r.task, r.to, clock)
    BY DEF ReplyNamesItsTask
  <2>1. PICK p \in AskedBy(clock) : p.client = r.to /\ p.task = r.task
    BY DEF AskedInv, RepliesAsked, ReplyAsked
  <2>2. clock \in 0 .. MaxClock
    BY DEF Inv, TypeInv, TypeOK, QueueTypeOK
  <2> QED
    BY <2>1, <2>2, AskedFacts
<1> QED
  BY <1>1, <1>2, Invariance, InitAsked, PTL DEF Spec

-----------------------------------------------------------------------------
(* What "success" stands for.  First: dir changes for one job at a time,   *)
(* and never to "none"; a request is filled in or read once.               *)
LEMMA PostedStays ==
  ASSUME TypeInv, [Next]_vars, NEW j \in Jobs, Posted(j)
  PROVE  Posted(j)'
<1>1. UNCHANGED dir \/ \E k : \E d \in {"pending", "working", "done", "failed"} :
                          dir' = [dir EXCEPT ![k] = d]
  <2>1. CASE ReceiverNext
    BY <2>1 DEF ReceiverNext, Receive, Handle, Reject, Answer, Begin, RxOpenState,
                RxCloseState, RxOpenJob, RxCloseJob, RxReply, RxCrash, shared
  <2>2. ASSUME NEW w \in Workers, Claim(w) PROVE \E k : dir' = [dir EXCEPT ![k] = "working"]
    BY <2>2 DEF Claim
  <2>3. ASSUME NEW w \in Workers, Archive(w)
        PROVE  UNCHANGED dir \/ \E k : \E d \in {"done", "failed"} : dir' = [dir EXCEPT ![k] = d]
    BY <2>3 DEF Archive
  <2>4. ASSUME NEW w \in Workers, Step(w) \/ WorkerCrash(w), ~Claim(w), ~Archive(w)
        PROVE  UNCHANGED dir
    BY <2>4, OtherStepOwners DEF Step
  <2>5. CASE UNCHANGED vars
    BY <2>5 DEF vars, shared
  <2> QED
    BY <2>1, <2>2, <2>3, <2>4, <2>5 DEF Next, WorkerNext
<1>2. dir \in [Jobs -> Dirs]
  BY DEF TypeInv, TypeOK, QueueTypeOK
<1> QED
  BY <1>1, <1>2 DEF Posted

LEMMA OtherStepRequests ==
  ASSUME TypeInv, NEW w \in Workers,
         \/ Glob(w) \/ SkipJob(w) \/ LoadState(w)
         \/ OpenWorking(w) \/ CloseWorking(w) \/ ProcessFail(w) \/ OpenResult(w)
         \/ CloseResult(w) \/ Archive(w) \/ OpenFinal(w) \/ CloseFinal(w) \/ Reply(w)
         \/ WorkerCrash(w)
  PROVE  \A v \in Workers : wk'[v].req = wk[v].req \/ wk'[v].req = NoRequest
<1>0. wk \in [Workers -> WkStates]
  BY DEF TypeInv, TypeOK, WkTypeOK
<1> DEFINE Keeps == \A v \in Workers : wk'[v].req = wk[v].req \/ wk'[v].req = NoRequest
<1>1. ASSUME NEW pc, Goto(w, pc) PROVE Keeps
  BY <1>0, <1>1 DEF Goto, WkStates
<1>2. ASSUME NEW todo, NextJob(w, todo) PROVE Keeps
  BY <1>0, <1>2 DEF NextJob, WkIdle
<1>3. ASSUME NEW ok, Processed(w, ok) PROVE Keeps
  BY <1>0, <1>3 DEF Processed, WkStates
<1>4. CASE Glob(w)
  BY <1>0, <1>4 DEF Glob, WkStates
<1>5. CASE LoadState(w)
  BY <1>0, <1>5 DEF LoadState, WkStates
<1>6. CASE WorkerCrash(w)
  BY <1>0, <1>6 DEF WorkerCrash, WkIdle
<1>7. CASE SkipJob(w) \/ Reply(w)
  BY <1>2, <1>7 DEF SkipJob, Reply
<1>8. CASE ProcessFail(w) \/ CloseResult(w)
  BY <1>3, <1>8 DEF ProcessFail, CloseResult
<1>9. CASE OpenWorking(w) \/ CloseWorking(w) \/ OpenResult(w) \/ Archive(w)
           \/ OpenFinal(w) \/ CloseFinal(w)
  BY <1>1, <1>9 DEF OpenWorking, CloseWorking, OpenFinal, CloseFinal, OpenState, OpenResult, Archive
<1> QED
  BY <1>4, <1>5, <1>6, <1>7, <1>8, <1>9

LEMMA JobsKeptStep == TypeInv /\ OwnInv /\ JobsKept /\ [Next]_vars => JobsKept'
<1> SUFFICES ASSUME TypeInv, OwnInv, JobsKept, [Next]_vars PROVE JobsKept'
  OBVIOUS
<1>t. /\ wk \in [Workers -> WkStates] /\ dir \in [Jobs -> Dirs] /\ clock \in 0 .. MaxClock
      /\ job \in [Jobs -> Requests \cup {NoRequest}]
  BY DEF TypeInv, TypeOK, WkTypeOK, QueueTypeOK
<1>p. \A j \in Jobs : dir[j] # "none" => dir'[j] # "none"
  BY PostedStays DEF Posted
<1>1. ASSUME NEW w \in Workers, Claim(w), UNCHANGED rxVars PROVE JobsKept'
  <2> PICK k \in First(wk[w].todo) :
        /\ dir[k] = "pending"
        /\ wk' = [wk EXCEPT ![w] = [wk[w] EXCEPT !.pc = "load", !.todo = wk[w].todo \ {k},
                                             !.job = k, !.req = job[k]]]
    BY <1>1 DEF Claim
  <2>1. \A v \in Workers : \/ wk'[v] = wk[v]
                           \/ wk'[v].req = job[wk'[v].job]
    BY <1>t DEF WkStates
  <2>2. UNCHANGED <<job, rx>>
    BY <1>1 DEF Claim, rxVars
  <2> QED
    BY <1>p, <2>1, <2>2 DEF JobsKept, Posted
<1>2. ASSUME UNCHANGED <<job, rx>>,
             \A v \in Workers :
               /\ wk'[v].pc \in Owning => wk[v].pc \in Owning /\ wk'[v].job = wk[v].job
               /\ wk'[v].req = wk[v].req \/ wk'[v].req = NoRequest
      PROVE  JobsKept'
  BY <1>2, <1>p DEF JobsKept, Posted
<1>3. ASSUME NEW w \in Workers, Step(w) \/ WorkerCrash(w), ~Claim(w), UNCHANGED rxVars
      PROVE JobsKept'
  <2>1. \A v \in Workers : wk'[v].req = wk[v].req \/ wk'[v].req = NoRequest
    BY <1>3, OtherStepRequests DEF Step
  <2>2. \A v \in Workers : wk'[v].pc \in Owning => wk[v].pc \in Owning /\ wk'[v].job = wk[v].job
    <3>1. CASE Archive(w)
      BY <1>t, <3>1 DEF Archive, Goto, WkStates, Owning, Leasing
    <3>2. CASE ~Archive(w)
      BY <1>3, <3>2, OtherStepOwners DEF Step
    <3> QED
      BY <3>1, <3>2
  <2>3. UNCHANGED job
    BY <1>3 DEF Step, shared, Glob, SkipJob, LoadState, OpenWorking, CloseWorking,
         ProcessFail, OpenResult, CloseResult, Archive, OpenFinal, CloseFinal, Reply, WorkerCrash
  <2> QED
    BY <1>2, <1>3, <2>1, <2>2, <2>3 DEF rxVars
<1>4. ASSUME UNCHANGED <<job, wk>>, rx'.pc # "closeJob" PROVE JobsKept'
  BY <1>4, <1>p DEF JobsKept, Posted
<1>5. CASE RxOpenJob /\ UNCHANGED wkVars
  <2> DEFINE k == [name |-> NameOf[rx.req.task], at |-> clock + 1]
  <2>1. clock + 1 \in Ticks
    BY <1>t, <1>5, ClockAssumption DEF RxOpenJob, TypeInv, ClockRoom, Ticks
  <2>2. k \in Jobs
    BY <2>1, NameAssumption DEF Jobs, Requests, NoRequest, TypeInv, TypeOK, RxTypeOK
  <2>3. job[k] = NoRequest
    BY <1>t, <2>2 DEF OwnInv, FreshNames, JobsKept, Posted
  <2>4. \/ dir' = [dir EXCEPT ![k] = "pending"] /\ rx'.job = k
        \/ rx'.pc # "closeJob"
    BY <1>5 DEF RxOpenJob, RxJobWritten, TypeInv, TypeOK, RxTypeOK
  <2>5. UNCHANGED <<job, wk>>
    BY <1>5 DEF RxOpenJob, wkVars
  <2> HIDE DEF k
  <2>6. CASE rx'.pc = "closeJob"
    <3>1. dir'[k] = "pending" /\ rx'.job = k
      BY <1>t, <2>2, <2>4, <2>6
    <3> QED
      BY <1>p, <2>2, <2>3, <2>5, <3>1 DEF JobsKept, Posted
  <2> QED
    BY <1>4, <2>5, <2>6
<1>6. CASE RxCloseJob /\ UNCHANGED wkVars
  <2>1. rx.job \in Jobs /\ dir[rx.job] # "none" /\ job[rx.job] = NoRequest
    BY <1>6 DEF RxCloseJob, JobsKept, Posted
  <2>2. \A j \in Jobs : j # rx.job => job'[j] = job[j]
    BY <1>t, <1>6 DEF RxCloseJob
  <2>3. rx'.pc # "closeJob" /\ UNCHANGED <<dir, wk>>
    BY <1>6 DEF RxCloseJob, RxJobWritten, wkVars, TypeInv, TypeOK, RxTypeOK
  <2>4. \A j \in Jobs : dir'[j] = "none" => job'[j] = NoRequest
    BY <2>1, <2>2, <2>3 DEF JobsKept, Posted
  <2>5. \A w \in Workers : wk'[w].pc \in Owning /\ wk'[w].req # NoRequest
                             => job'[wk'[w].job] = wk'[w].req
    BY <2>1, <2>2, <2>3 DEF JobsKept, OwnInv, OwnedTaken
  <2> QED
    BY <2>3, <2>4, <2>5 DEF JobsKept, Posted
<1>7. CASE ReceiverNext /\ ~RxOpenJob /\ ~RxCloseJob /\ UNCHANGED wkVars
  <2>1. CASE rx' = rx
    <3>1. UNCHANGED job
      BY <1>7 DEF ReceiverNext, Receive, Handle, Reject, Answer, Begin, RxOpenState,
                  RxCloseState, RxReply, RxCrash, shared
    <3>2. UNCHANGED wk
      BY <1>7 DEF wkVars
    <3> QED
      BY <1>2, <2>1, <3>1, <3>2
  <2>2. CASE rx' # rx
    <3>1. rx'.pc # "closeJob"
      <4>1. CASE RxCrash \/ RxReply
        BY <4>1 DEF RxCrash, RxReply, RxIdle
      <4>2. CASE Receive
        BY <2>2, <4>2 DEF Receive, Reject, Answer, Begin, RxIdle, rxVars
      <4>3. CASE RxOpenState \/ RxCloseState
        BY <4>3 DEF RxOpenState, RxCloseState, RxStateWritten, TypeInv, TypeOK, RxTypeOK
      <4> QED
        BY <1>7, <4>1, <4>2, <4>3 DEF ReceiverNext, Handle
    <3>2. UNCHANGED <<job, wk>>
      BY <1>7 DEF ReceiverNext, Receive, Handle, Reject, Answer, Begin, RxOpenState,
                  RxCloseState, RxReply, RxCrash, shared, wkVars
    <3> QED
      BY <1>4, <3>1, <3>2
  <2> QED
    BY <2>1, <2>2
<1>8. CASE UNCHANGED vars
  BY <1>2, <1>8 DEF vars, shared, rxVars, wkVars
<1> QED
  BY <1>1, <1>3, <1>5, <1>6, <1>7, <1>8 DEF Next, WorkerNext

(* A job that was seen through stays where it is, with the text it has.    *)
LEMMA EarnedGrows ==
  TypeInv /\ OwnInv /\ JobsKept /\ [Next]_vars => EarnedTasks \subseteq EarnedTasks'
<1> SUFFICES ASSUME TypeInv, OwnInv, JobsKept, [Next]_vars,
                    NEW t \in TaskIds, NEW j \in Jobs, job[j].task = t,
                    dir[j] = "done" \/ (Stranded(j) /\ faults > 0)
             PROVE  job'[j].task = t /\ (dir'[j] = "done" \/ (Stranded(j)' /\ faults' > 0))
  BY DEF EarnedTasks
<1>t. /\ wk \in [Workers -> WkStates] /\ dir \in [Jobs -> Dirs] /\ clock \in 0 .. MaxClock
      /\ job \in [Jobs -> Requests \cup {NoRequest}]
  BY DEF TypeInv, TypeOK, WkTypeOK, QueueTypeOK
<1>1. dir[j] \in {"done", "working"} /\ job[j] # NoRequest
  BY NameAssumption DEF Stranded, NoRequest
<1>2. job'[j].task = t
  <2>1. CASE RxCloseJob
    <3>1. rx.job # j
      BY <1>1, <2>1 DEF RxCloseJob, JobsKept
    <3> QED
      BY <1>t, <2>1, <3>1 DEF RxCloseJob
  <2>2. CASE ~RxCloseJob
    <3>1. UNCHANGED job
      <4>1. CASE ReceiverNext
        BY <2>2, <4>1 DEF ReceiverNext, Receive, Handle, Reject, Answer, Begin, RxOpenState,
                    RxCloseState, RxOpenJob, RxReply, RxCrash, shared
      <4>2. ASSUME NEW w \in Workers, Step(w) \/ WorkerCrash(w) PROVE UNCHANGED job
        BY <4>2 DEF Step, shared, Glob, Claim, SkipJob, LoadState, OpenWorking, CloseWorking,
             ProcessFail, OpenResult, CloseResult, Archive, OpenFinal, CloseFinal, Reply, WorkerCrash
      <4> QED
        BY <4>1, <4>2 DEF Next, WorkerNext, vars, shared
    <3> QED
      BY <3>1
  <2> QED
    BY <2>1, <2>2
<1>3. ASSUME dir'[j] = dir[j],
             \A w \in Workers : ~Leases(w, j) => ~Leases(w, j)'
      PROVE  dir'[j] = "done" \/ (Stranded(j)' /\ faults' > 0)
  <2>1. faults \in Nat /\ faults' \in Nat /\ faults <= faults'
    BY FaultsGrow, Counts
  <2> QED
    BY <1>3, <2>1 DEF Stranded
<1>4. ASSUME NEW w \in Workers, Claim(w)
      PROVE  dir'[j] = dir[j] /\ \A v \in Workers : ~Leases(v, j) => ~Leases(v, j)'
  <2> PICK k \in First(wk[w].todo) :
        /\ dir[k] = "pending"
        /\ dir' = [dir EXCEPT ![k] = "working"]
        /\ wk' = [wk EXCEPT ![w] = [wk[w] EXCEPT !.pc = "load", !.todo = wk[w].todo \ {k},
                                             !.job = k, !.req = job[k]]]
    BY <1>4 DEF Claim
  <2>1. j # k /\ dir'[j] = dir[j]
    BY <1>1, <1>t
  <2>2. wk'[w].job = k /\ \A v \in Workers \ {w} : wk'[v] = wk[v]
    BY <1>t DEF WkStates
  <2> QED
    BY <2>1, <2>2 DEF Leases
<1>5. ASSUME NEW w \in Workers, Archive(w)
      PROVE  dir'[j] = dir[j] /\ \A v \in Workers : ~Leases(v, j) => ~Leases(v, j)'
  <2>1. wk[w].pc \in Leasing /\ dir[wk[w].job] = "working"
    BY <1>5 DEF Archive, Leasing, OwnInv, OwnedTaken
  <2>2. j # wk[w].job
    BY <2>1 DEF Stranded, Leases
  <2>3. UNCHANGED dir \/ \E d : dir' = [dir EXCEPT ![wk[w].job] = d]
    BY <1>5 DEF Archive
  <2>4. wk'[w].pc \notin Leasing /\ \A v \in Workers \ {w} : wk'[v] = wk[v]
    BY <1>5, <1>t DEF Archive, Goto, WkStates, Leasing
  <2> QED
    BY <1>t, <2>2, <2>3, <2>4 DEF Leases
<1>6. ASSUME NEW w \in Workers, Step(w) \/ WorkerCrash(w), ~Claim(w), ~Archive(w)
      PROVE  dir'[j] = dir[j] /\ \A v \in Workers : ~Leases(v, j) => ~Leases(v, j)'
  BY <1>6, OtherStepOwners DEF Step, Leases, Owning
<1>7. CASE ReceiverNext /\ UNCHANGED wkVars
  <2>1. dir'[j] = dir[j]
    <3>1. CASE RxOpenJob
      <4> DEFINE k == [name |-> NameOf[rx.req.task], at |-> clock + 1]
      <4>1. k.at > clock /\ j.at <= clock
        BY <1>1, <1>t, ClockAssumption DEF OwnInv, FreshNames, Posted
      <4>2. j # k
        BY <1>t, <4>1 DEF Jobs, Ticks
      <4>3. dir' = dir \/ dir' = [dir EXCEPT ![k] = "pending"]
        BY <3>1 DEF RxOpenJob
      <4> QED
        BY <1>t, <4>2, <4>3
    <3>2. CASE ~RxOpenJob
      BY <1>7, <3>2 DEF ReceiverNext, Receive, Handle, Reject, Answer, Begin, RxOpenState,
                  RxCloseState, RxCloseJob, RxReply, RxCrash, shared
    <3> QED
      BY <3>1, <3>2
  <2> QED
    BY <1>2, <1>3, <1>7, <2>1 DEF Leases, wkVars
<1>8. CASE UNCHANGED vars
  BY <1>8 DEF vars, shared, wkVars, Stranded, Leases
<1> QED
  BY <1>2, <1>3, <1>4, <1>5, <1>6, <1>7, <1>8 DEF Next, WorkerNext

WorkersKnow ==
  \A w \in Workers :
    /\ wk[w].pc = "closeResult" => wk[w].req # NoRequest
    /\ wk[w].st.status = "success" =>
         /\ wk[w].req # NoRequest
         /\ wk[w].pc = "archive" \/ (wk[w].pc \in Owning \ Leasing
                                     /\ wk[w].req.task \in EarnedTasks)

FilesKnow == \A n \in FileNames : state[n].status = "success" => state[n].req.task \in EarnedTasks

RepliesKnow == \A r \in sent : r.status = "success" => r.task \in EarnedTasks

LEMMA KnownParts == SuccessKnown <=> WorkersKnow /\ FilesKnow /\ RepliesKnow
BY DEF SuccessKnown, WorkersKnow, FilesKnow, RepliesKnow

LEMMA ReplyKnown ==
  ASSUME RepliesKnow, EarnedTasks \subseteq EarnedTasks', NEW reply, Send(reply),
         reply.status = "success" => reply.task \in EarnedTasks'
  PROVE  RepliesKnow'
BY DEF RepliesKnow, Send

LEMMA FileKnown ==
  ASSUME TypeInv, FilesKnow, EarnedTasks \subseteq EarnedTasks',
         NEW st, CloseStateFile(st),
         st.status = "success" => st.req.task \in EarnedTasks'
  PROVE  FilesKnow'
<1>1. \A n \in FileNames : state'[n] = state[n] \/ state'[n] = st
  BY DEF CloseStateFile, TypeInv, TypeOK, QueueTypeOK
<1> QED
  BY <1>1 DEF FilesKnow

LEMMA FilesStillKnown ==
  ASSUME TypeInv, FilesKnow, EarnedTasks \subseteq EarnedTasks',
         NEW task, UNCHANGED state \/ OpenStateFile(task)
  PROVE  FilesKnow'
<1>1. \A n \in FileNames : state'[n] = state[n] \/ state'[n].status = "empty"
  BY DEF OpenStateFile, Empty, TypeInv, TypeOK, QueueTypeOK
<1> QED
  BY <1>1 DEF FilesKnow

LEMMA WorkerKnown ==
  ASSUME TypeInv, WorkersKnow, EarnedTasks \subseteq EarnedTasks',
         NEW w \in Workers, NEW r, wk' = [wk EXCEPT ![w] = r],
         r.pc = "closeResult" => r.req # NoRequest,
         r.st.status = "success" =>
           /\ r.req # NoRequest
           /\ r.pc = "archive" \/ (r.pc \in Owning \ Leasing /\ r.req.task \in EarnedTasks')
  PROVE  WorkersKnow'
<1>1. \A v \in Workers : wk'[v] = IF v = w THEN r ELSE wk[v]
  BY DEF TypeInv, TypeOK, WkTypeOK
<1> QED
  BY <1>1 DEF WorkersKnow

(* The receiver writes no "success" and repeats only what is in a file.    *)
LEMMA ReceiverKnown ==
  ASSUME TypeInv, SuccessKnown, EarnedTasks \subseteq EarnedTasks', ReceiverNext, UNCHANGED wkVars
  PROVE  SuccessKnown'
<1> SUFFICES WorkersKnow' /\ FilesKnow' /\ RepliesKnow'
  BY DEF SuccessKnown, WorkersKnow, FilesKnow, RepliesKnow
<1>a. WorkersKnow /\ FilesKnow /\ RepliesKnow
  BY KnownParts
<1>b. WorkersKnow'
  BY <1>a DEF WorkersKnow, wkVars
<1>c. UNCHANGED state => FilesKnow'
  BY <1>a, FilesStillKnown
<1>d. UNCHANGED sent => RepliesKnow'
  BY <1>a DEF RepliesKnow
<1>1. ASSUME NEW m \in Submits, Reject(m) PROVE FilesKnow' /\ RepliesKnow'
  <2> DEFINE reply == ReplyTo(Received(m), "failed")
  <2>1. Send(reply) /\ reply.status # "success"
    BY <1>1 DEF Reject, ReplyTo
  <2> HIDE DEF reply
  <2> QED
    BY <1>1, <1>a, <1>c, <2>1, ReplyKnown DEF Reject
<1>2. ASSUME NEW m \in Submits, Answer(m) PROVE FilesKnow' /\ RepliesKnow'
  <2> DEFINE n == StateFile(Received(m).task)
             reply == ReplyForState(state[n], Received(m).client)
  <2>1. clock \in Nat /\ (clock < MaxClock \/ m.task # Nil)
    BY <1>2, ClockAssumption DEF Answer, TakesReading, TypeInv, TypeOK, QueueTypeOK
  <2>2. n \in FileNames
    BY <2>1, CompletedType, NameAssumption DEF StateFile
  <2>3. Send(reply) /\ reply.task = state[n].req.task
        /\ (reply.status = "success" => state[n].status = "success")
    BY <1>2 DEF Answer, ReplyForState
  <2> HIDE DEF reply, n
  <2>4. reply.status = "success" => reply.task \in EarnedTasks'
    BY <1>a, <2>2, <2>3 DEF FilesKnow
  <2> QED
    BY <1>2, <1>a, <1>c, <2>3, <2>4, ReplyKnown DEF Answer
<1>3. ASSUME NEW m \in Submits, Begin(m) PROVE FilesKnow' /\ RepliesKnow'
  BY <1>3, <1>c, <1>d DEF Begin
<1>4. CASE RxOpenState
  <2>1. UNCHANGED state \/ OpenStateFile(rx.req.task)
    BY <1>4 DEF RxOpenState
  <2>2. FilesKnow'
    BY <1>a, <2>1, FilesStillKnown
  <2> QED
    BY <1>4, <1>b, <1>d, <2>2 DEF RxOpenState
<1>5. CASE RxCloseState
  <2> DEFINE st == [req |-> rx.req, status |-> rx.status]
  <2>1. UNCHANGED state \/ CloseStateFile(st)
    BY <1>5 DEF RxCloseState
  <2>2. st.status # "success"
    BY DEF TypeInv, TypeOK, RxTypeOK
  <2> HIDE DEF st
  <2>3. FilesKnow'
    BY <1>a, <1>c, <2>1, <2>2, FileKnown
  <2> QED
    BY <1>5, <1>b, <1>d, <2>3 DEF RxCloseState
<1>6. CASE RxOpenJob \/ RxCloseJob
  BY <1>6, <1>b, <1>c, <1>d DEF RxOpenJob, RxCloseJob
<1>7. CASE RxReply
  <2> DEFINE reply == ReplyTo(rx.req, IF rx.status = "pending" THEN "accepted" ELSE "failed")
  <2>1. Send(reply) /\ reply.status # "success"
    BY <1>7 DEF RxReply, ReplyTo
  <2> HIDE DEF reply
  <2> QED
    BY <1>7, <1>a, <1>b, <1>c, <2>1, ReplyKnown DEF RxReply
<1>8. CASE RxCrash
  BY <1>8, <1>b, <1>c, <1>d DEF RxCrash, shared
<1> QED
  BY <1>b, <1>1, <1>2, <1>3, <1>4, <1>5, <1>6, <1>7, <1>8 DEF ReceiverNext, Receive, Handle

(* A worker whose job succeeded earns its task when it archives the job,   *)
(* by moving the file to done/ or by leaving it stranded.                  *)
LEMMA ArchiveEarns ==
  ASSUME TypeInv, OwnInv, JobsKept, NEW w \in Workers, Archive(w),
         wk[w].st.status = "success", wk[w].req # NoRequest
  PROVE  wk[w].req.task \in EarnedTasks'
<1> DEFINE t == wk[w].req.task
<1>t. /\ wk \in [Workers -> WkStates] /\ dir \in [Jobs -> Dirs] /\ faults \in Nat
      /\ wk[w].pc = "archive" /\ UNCHANGED job
  BY Counts DEF TypeInv, TypeOK, WkTypeOK, QueueTypeOK, Archive
<1>j. PICK j \in Jobs : j = wk[w].job /\ dir[j] = "working"
  BY <1>t DEF OwnInv, OwnedTaken, Owning, Leasing
<1>1. j \in Jobs /\ j = wk[w].job /\ dir[j] = "working"
  BY <1>j
<1>2. job[j] = wk[w].req
  BY <1>t, <1>1 DEF JobsKept, Owning, Leasing
<1>3. t \in TaskIds
  BY <1>t DEF WkStates, Requests
<1>4. CASE dir' = [dir EXCEPT ![j] = "done"]
  <2>1. dir'[j] = "done"
    BY <1>t, <1>1, <1>4
  <2> QED
    BY <1>t, <1>1, <1>2, <1>3, <2>1 DEF EarnedTasks
<1>5. CASE Fails /\ UNCHANGED dir
  <2>1. faults' > 0
    BY <1>t, <1>5 DEF Fails
  <2>2. wk'[w].pc \notin Leasing /\ \A v \in Workers \ {w} : wk'[v] = wk[v]
    BY <1>t DEF Archive, Goto, WkStates, Leasing
  <2>3. \A v \in Workers \ {w} : wk[v].pc \in Leasing => wk[v].job # j
    BY <1>t, <1>1 DEF OwnInv, OneOwner, Owns, Owning, Leasing
  <2>4. dir'[j] = "working" /\ \A v \in Workers : ~Leases(v, j)'
    BY <1>1, <1>5, <2>2, <2>3 DEF Leases
  <2>5. Stranded(j)'
    BY <2>4 DEF Stranded
  <2> QED
    BY <1>t, <1>1, <1>2, <1>3, <2>1, <2>5 DEF EarnedTasks
<1> QED
  BY <1>1, <1>4, <1>5 DEF Archive

LEMMA WorkerStepKnown ==
  ASSUME TypeInv, TypeInv', OwnInv, AskedInv, JobsKept, SuccessKnown,
         EarnedTasks \subseteq EarnedTasks', WorkerNext, UNCHANGED rxVars
  PROVE  SuccessKnown'
<1> SUFFICES ASSUME NEW w \in Workers, Step(w) \/ WorkerCrash(w)
             PROVE  WorkersKnow' /\ FilesKnow' /\ RepliesKnow'
  BY DEF WorkerNext, SuccessKnown, WorkersKnow, FilesKnow, RepliesKnow
<1>a. WorkersKnow /\ FilesKnow /\ RepliesKnow
  BY KnownParts
<1>c. UNCHANGED state => FilesKnow'
  BY <1>a, FilesStillKnown
<1>d. UNCHANGED sent => RepliesKnow'
  BY <1>a DEF RepliesKnow
<1>wk. wk \in [Workers -> WkStates]
  BY DEF TypeInv, TypeOK, WkTypeOK
<1>e. /\ wk[w].pc = "closeResult" => wk[w].req # NoRequest
      /\ wk[w].st.status = "success" =>
           /\ wk[w].req # NoRequest
           /\ wk[w].pc = "archive" \/ (wk[w].pc \in Owning \ Leasing
                                       /\ wk[w].req.task \in EarnedTasks)
  BY <1>a DEF WorkersKnow
<1>1. ASSUME NEW pc, Goto(w, pc), pc # "closeResult", pc # "archive",
             wk[w].st.status = "success" =>
               pc \in Owning \ Leasing /\ wk[w].req.task \in EarnedTasks'
      PROVE  WorkersKnow'
  <2> DEFINE r == [wk[w] EXCEPT !.pc = pc]
  <2>1. r.pc = pc /\ r.req = wk[w].req /\ r.st = wk[w].st /\ wk' = [wk EXCEPT ![w] = r]
    BY <1>1, <1>wk DEF Goto, WkStates
  <2> HIDE DEF r
  <2> QED
    BY <1>1, <1>a, <1>e, <2>1, WorkerKnown
<1>2. ASSUME NEW r, wk' = [wk EXCEPT ![w] = r], r.st.status # "success", r.pc # "closeResult"
      PROVE  WorkersKnow'
  BY <1>2, <1>a, WorkerKnown
<1>3. ASSUME NEW todo, NextJob(w, todo) PROVE WorkersKnow'
  <2> DEFINE r == [WkIdle EXCEPT !.todo = todo, !.pc = IF todo = {} THEN "glob" ELSE "claim"]
  <2>1. wk' = [wk EXCEPT ![w] = r] /\ r.st.status # "success" /\ r.pc # "closeResult"
    BY <1>3 DEF NextJob, WkIdle, Absent
  <2> HIDE DEF r
  <2> QED
    BY <1>2, <2>1
<1>4. ASSUME NEW ok \in BOOLEAN, Processed(w, ok), ok => wk[w].req # NoRequest PROVE WorkersKnow'
  <2> DEFINE r == [wk[w] EXCEPT !.pc = "archive",
                                !.st.status = IF ok THEN "success" ELSE "failed"]
  <2>0. wk[w].st \in TaskStates \cup {Absent}
    BY <1>wk DEF WkStates
  <2>1. /\ wk' = [wk EXCEPT ![w] = r] /\ r.pc = "archive" /\ r.req = wk[w].req
        /\ r.st.status = "success" => ok
    BY <1>4, <1>wk, <2>0 DEF Processed, WkStates, TaskStates, Absent
  <2> HIDE DEF r
  <2> QED
    BY <1>4, <1>a, <2>1, WorkerKnown
<1>5. CASE Glob(w) \/ Claim(w) \/ LoadState(w) \/ WorkerCrash(w)
  <2>1. wk[w].pc \in {"glob", "claim", "load"} => wk[w].st.status # "success"
    BY <1>e DEF Owning, Leasing
  <2>2. \E r : wk' = [wk EXCEPT ![w] = r] /\ r.st.status # "success" /\ r.pc # "closeResult"
    <3>1. CASE Glob(w)
      <4> DEFINE r == [wk[w] EXCEPT !.pc = "claim", !.todo = In("pending")]
      <4>1. wk' = [wk EXCEPT ![w] = r] /\ r.st = wk[w].st /\ r.pc = "claim" /\ wk[w].pc = "glob"
        BY <1>wk, <3>1 DEF Glob, WkStates
      <4> QED
        BY <2>1, <4>1
    <3>2. CASE Claim(w)
      <4> PICK j \in First(wk[w].todo) :
            wk' = [wk EXCEPT ![w] = [wk[w] EXCEPT !.pc = "load", !.todo = wk[w].todo \ {j},
                                                 !.job = j, !.req = job[j]]]
        BY <3>2 DEF Claim
      <4> DEFINE r == [wk[w] EXCEPT !.pc = "load", !.todo = wk[w].todo \ {j},
                                    !.job = j, !.req = job[j]]
      <4>1. wk' = [wk EXCEPT ![w] = r] /\ r.st = wk[w].st /\ r.pc = "load" /\ wk[w].pc = "claim"
        BY <1>wk, <3>2 DEF WkStates, Claim
      <4> QED
        BY <2>1, <4>1
    <3>3. CASE LoadState(w)
      <4> DEFINE req   == wk[w].req
                 known == IF ReadTaskState(req.task) THEN state[StateFile(req.task)].req ELSE req
                 r     == [wk[w] EXCEPT !.pc = "openWorking",
                                        !.st = [req |-> known, status |-> "working"]]
      <4>1. wk' = [wk EXCEPT ![w] = r] /\ r.st.status = "working" /\ r.pc = "openWorking"
        BY <1>wk, <3>3 DEF LoadState, WkStates
      <4> QED
        BY <4>1
    <3>4. CASE WorkerCrash(w)
      <4>1. /\ wk' = [wk EXCEPT ![w] = WkIdle]
            /\ WkIdle.st.status # "success" /\ WkIdle.pc # "closeResult"
        BY <3>4 DEF WorkerCrash, WkIdle, Absent
      <4> QED
        BY <4>1
    <3> QED
      BY <1>5, <3>1, <3>2, <3>3, <3>4
  <2>3. UNCHANGED <<state, sent>>
    BY <1>5 DEF Glob, Claim, LoadState, WorkerCrash, shared
  <2> QED
    BY <1>2, <1>c, <1>d, <2>2, <2>3
<1>6. CASE SkipJob(w)
  BY <1>3, <1>6, <1>c, <1>d DEF SkipJob
<1>7. CASE OpenWorking(w)
  <2>1. \E pc \in {"closeWorking", "process"} : Goto(w, pc)
    BY <1>7 DEF OpenWorking, OpenState
  <2>2. wk[w].st.status # "success"
    BY <1>7, <1>e DEF OpenWorking, OpenState, Owning, Leasing
  <2>3. UNCHANGED state \/ OpenStateFile(wk[w].st.req.task)
    BY <1>7 DEF OpenWorking, OpenState
  <2> QED
    BY <1>1, <1>7, <1>a, <1>d, <2>1, <2>2, <2>3, FilesStillKnown DEF OpenWorking
<1>8. CASE CloseWorking(w)
  <2>1. wk[w].st.status # "success"
    BY <1>8, <1>e DEF CloseWorking, CloseState, Owning, Leasing
  <2>2. UNCHANGED state \/ CloseStateFile(wk[w].st)
    BY <1>8 DEF CloseWorking, CloseState
  <2>3. FilesKnow'
    BY <1>a, <1>c, <2>1, <2>2, FileKnown
  <2> QED
    BY <1>1, <1>8, <1>d, <2>1, <2>3 DEF CloseWorking
<1>9. CASE ProcessFail(w)
  BY <1>4, <1>9, <1>c, <1>d DEF ProcessFail, shared
<1>10. CASE OpenResult(w)
  <2> DEFINE r == [wk[w] EXCEPT !.pc = "closeResult"]
  <2>1. wk' = [wk EXCEPT ![w] = r] /\ r.req = wk[w].req /\ r.st = wk[w].st
    BY <1>10, <1>wk DEF OpenResult, Goto, WkStates
  <2> HIDE DEF r
  <2>2. wk[w].req # NoRequest
    BY <1>10 DEF OpenResult, NoRequest
  <2>3. wk[w].st.status # "success"
    BY <1>10, <1>e DEF OpenResult, Owning, Leasing
  <2>4. WorkersKnow'
    BY <1>a, <2>1, <2>2, <2>3, WorkerKnown
  <2> QED
    BY <1>10, <1>c, <1>d, <2>4 DEF OpenResult
<1>11. CASE CloseResult(w)
  <2>1. \E ok \in BOOLEAN : Processed(w, ok)
    BY <1>11 DEF CloseResult
  <2> QED
    BY <1>4, <1>11, <1>c, <1>d, <1>e, <2>1 DEF CloseResult
<1>12. CASE Archive(w)
  <2>1. wk[w].st.status = "success" => wk[w].req.task \in EarnedTasks'
    BY <1>12, <1>e, ArchiveEarns
  <2>2. Goto(w, "openFinal") /\ UNCHANGED <<state, sent>>
    BY <1>12 DEF Archive
  <2> QED
    BY <1>1, <1>c, <1>d, <2>1, <2>2 DEF Owning, Leasing
<1>f. wk[w].pc \in {"openFinal", "closeFinal", "reply"} =>
        /\ wk[w].st.status = "success" => wk[w].req.task \in EarnedTasks'
        /\ wk[w].st.req.task = wk[w].req.task
  BY <1>e DEF AskedInv, StatesInPlace, Owning, Leasing
<1>13. CASE OpenFinal(w)
  <2>1. \E pc \in {"closeFinal", "reply"} : Goto(w, pc)
    BY <1>13 DEF OpenFinal, OpenState
  <2>2. wk[w].pc = "openFinal" /\ UNCHANGED sent
    BY <1>13 DEF OpenFinal, OpenState
  <2>3. UNCHANGED state \/ OpenStateFile(wk[w].st.req.task)
    BY <1>13 DEF OpenFinal, OpenState
  <2>4. FilesKnow'
    BY <1>a, <2>3, FilesStillKnown
  <2> QED
    BY <1>1, <1>d, <1>f, <2>1, <2>2, <2>4 DEF Owning, Leasing
<1>14. CASE CloseFinal(w)
  <2>1. wk[w].pc = "closeFinal" /\ UNCHANGED sent /\ Goto(w, "reply")
    BY <1>14 DEF CloseFinal, CloseState
  <2>2. UNCHANGED state \/ CloseStateFile(wk[w].st)
    BY <1>14 DEF CloseFinal, CloseState
  <2>a. wk[w].st.status = "success" => wk[w].st.req.task \in EarnedTasks'
    BY <1>f, <2>1
  <2>3. FilesKnow'
    BY <1>a, <1>c, <2>2, <2>a, FileKnown
  <2> QED
    BY <1>1, <1>d, <1>f, <2>1, <2>3 DEF Owning, Leasing
<1>15. CASE Reply(w)
  <2> DEFINE reply == [to |-> wk[w].st.req.client, task |-> wk[w].req.task,
                       result |-> wk[w].req.result, status |-> wk[w].st.status]
  <2>1. Send(reply) /\ wk[w].pc = "reply"
    BY <1>15 DEF Reply
  <2>2. reply.status = "success" => reply.task \in EarnedTasks'
    BY <1>f, <2>1
  <2> HIDE DEF reply
  <2>3. RepliesKnow'
    BY <1>a, <2>1, <2>2, ReplyKnown
  <2> QED
    BY <1>3, <1>15, <1>c, <2>3 DEF Reply
<1> QED
  BY <1>5, <1>6, <1>7, <1>8, <1>9, <1>10, <1>11, <1>12, <1>13, <1>14, <1>15 DEF Step

LEMMA EarnedStep ==
  TypeInv /\ TypeInv' /\ OwnInv /\ AskedInv /\ EarnedInv /\ [Next]_vars => EarnedInv'
<1> SUFFICES ASSUME TypeInv, TypeInv', OwnInv, AskedInv, EarnedInv, [Next]_vars PROVE EarnedInv'
  OBVIOUS
<1>1. JobsKept /\ SuccessKnown
  BY DEF EarnedInv
<1>2. JobsKept' /\ EarnedTasks \subseteq EarnedTasks'
  BY <1>1, JobsKeptStep, EarnedGrows
<1>3. SuccessKnown'
  <2>1. CASE Next
    BY <1>1, <1>2, <2>1, ReceiverKnown, WorkerStepKnown DEF Next
  <2>2. CASE UNCHANGED vars
    BY <1>1, <1>2, <2>2 DEF SuccessKnown, vars, shared, wkVars
  <2> QED
    BY <2>1, <2>2
<1> QED
  BY <1>2, <1>3 DEF EarnedInv

LEMMA InitEarned == Init => EarnedInv
BY DEF Init, QueueInit, RxInit, WkInit, RxIdle, WkIdle, Absent, EarnedInv, JobsKept, SuccessKnown,
       Owning, Leasing

(* Where names tell tasks apart, "success" is never said of a task no job  *)
(* of which was seen through, by whichever way the word came: from the     *)
(* worker, or out of the state file at a later submit.                     *)
THEOREM SuccessIsEarned ==
  ASSUME NamesApart PROVE Spec => []SuccessEarned
<1>1. Inv /\ Inv' /\ AskedInv /\ AskedInv' /\ EarnedInv /\ [Next]_vars => EarnedInv'
  BY EarnedStep DEF Inv, OwnInv
<1>2. EarnedInv => SuccessEarned
  BY DEF EarnedInv, SuccessKnown, EarnedTasks, SuccessEarned, Stranded
<1>3. Inv /\ AskedInv /\ [Next]_vars => AskedInv'
  BY AskedStep DEF Inv
<1> QED
  BY <1>1, <1>2, <1>3, Invariance, InitAsked, InitEarned, PTL DEF Spec

-----------------------------------------------------------------------------
(* Results.                                                                *)

LEMMA ClaimMoves ==
  ASSUME NEW w \in Workers, Claim(w), wk \in [Workers -> WkStates]
  PROVE  \E k : /\ dir[k] = "pending"
                /\ dir' = [dir EXCEPT ![k] = "working"]
                /\ wk'[w].job = k /\ \A v \in Workers \ {w} : wk'[v] = wk[v]
<1> PICK k \in First(wk[w].todo) :
      /\ dir[k] = "pending"
      /\ dir' = [dir EXCEPT ![k] = "working"]
      /\ wk' = [wk EXCEPT ![w] = [wk[w] EXCEPT !.pc = "load", !.todo = wk[w].todo \ {k},
                                           !.job = k, !.req = job[k]]]
  BY DEF Claim
<1>1. wk'[w].job = k /\ \A v \in Workers \ {w} : wk'[v] = wk[v]
  BY DEF WkStates
<1> QED
  BY <1>1

(* A job that was taken and read stays taken, keeps its text, and gets no  *)
(* worker that has yet to write its result.                                *)
LEMMA TakenStays ==
  ASSUME TypeInv, OwnInv, JobsKept, [Next]_vars,
         NEW j \in Jobs, job[j] # NoRequest, dir[j] \notin {"none", "pending"}
  PROVE  /\ job'[j] = job[j]
         /\ dir'[j] \notin {"none", "pending"}
         /\ \A w \in Workers : ToWrite(w, j)' => ToWrite(w, j)
<1>t. /\ wk \in [Workers -> WkStates] /\ dir \in [Jobs -> Dirs] /\ clock \in 0 .. MaxClock
      /\ job \in [Jobs -> Requests \cup {NoRequest}]
  BY DEF TypeInv, TypeOK, WkTypeOK, QueueTypeOK
<1>1. ASSUME NEW w \in Workers, Claim(w)
      PROVE  /\ job'[j] = job[j]
             /\ dir'[j] \notin {"none", "pending"}
             /\ \A v \in Workers : ToWrite(v, j)' => ToWrite(v, j)
  <2>0. PICK k : /\ dir[k] = "pending"
                 /\ dir' = [dir EXCEPT ![k] = "working"]
                 /\ wk'[w].job = k /\ \A v \in Workers \ {w} : wk'[v] = wk[v]
    BY <1>1, ClaimMoves DEF TypeInv, TypeOK, WkTypeOK
  <2>1. j # k /\ dir'[j] = dir[j]
    BY <1>t, <2>0
  <2>2. UNCHANGED job
    BY <1>1 DEF Claim
  <2> QED
    BY <2>0, <2>1, <2>2 DEF ToWrite
<1>2. ASSUME NEW w \in Workers, Archive(w)
      PROVE  /\ job'[j] = job[j]
             /\ dir'[j] \notin {"none", "pending"}
             /\ \A v \in Workers : ToWrite(v, j)' => ToWrite(v, j)
  <2>1. dir'[j] = dir[j] \/ dir'[j] \in {"done", "failed"}
    BY <1>2, <1>t DEF Archive
  <2>2. wk'[w].pc \notin Unwritten /\ \A v \in Workers \ {w} : wk'[v] = wk[v]
    BY <1>2, <1>t DEF Archive, Goto, WkStates, Unwritten
  <2>3. UNCHANGED job
    BY <1>2 DEF Archive
  <2> QED
    BY <2>1, <2>2, <2>3 DEF ToWrite
<1>3. ASSUME NEW w \in Workers, Step(w) \/ WorkerCrash(w), ~Claim(w), ~Archive(w)
      PROVE  /\ job'[j] = job[j]
             /\ dir'[j] \notin {"none", "pending"}
             /\ \A v \in Workers : ToWrite(v, j)' => ToWrite(v, j)
  <2>1. UNCHANGED <<job, dir>>
    BY <1>3 DEF Step, shared, Glob, SkipJob, LoadState, OpenWorking, CloseWorking,
         ProcessFail, OpenResult, CloseResult, OpenFinal, CloseFinal, Reply, WorkerCrash
  <2>2. \A v \in Workers : wk'[v].pc \in Owning => wk[v].pc \in Owning /\ wk'[v].job = wk[v].job
    BY <1>3, OtherStepOwners DEF Step
  <2>3. /\ \A v \in Workers \ {w} : wk'[v] = wk[v]
        /\ wk'[w].pc \in Unwritten => wk[w].pc \in Unwritten
    <3>1. ASSUME NEW pc, Goto(w, pc), pc \in Unwritten => wk[w].pc \in Unwritten
          PROVE  /\ \A v \in Workers \ {w} : wk'[v] = wk[v]
                 /\ wk'[w].pc \in Unwritten => wk[w].pc \in Unwritten
      BY <3>1, <1>t DEF Goto, WkStates
    <3>2. ASSUME NEW todo, NextJob(w, todo)
          PROVE  /\ \A v \in Workers \ {w} : wk'[v] = wk[v]
                 /\ wk'[w].pc \in Unwritten => wk[w].pc \in Unwritten
      BY <3>2, <1>t DEF NextJob, WkIdle, Unwritten
    <3>3. CASE Glob(w)
      BY <3>3, <1>t DEF Glob, WkStates, Unwritten
    <3>4. CASE WorkerCrash(w)
      BY <3>4, <1>t DEF WorkerCrash, WkIdle, Unwritten
    <3>5. CASE SkipJob(w) \/ Reply(w)
      BY <3>2, <3>5 DEF SkipJob, Reply
    <3>6. CASE LoadState(w)
      BY <3>6, <1>t DEF LoadState, Unwritten
    <3>7. CASE OpenWorking(w) \/ CloseWorking(w) \/ OpenResult(w)
      BY <3>1, <3>7 DEF OpenWorking, CloseWorking, OpenResult, OpenState, CloseState, Unwritten
    <3>8. CASE ProcessFail(w) \/ CloseResult(w)
      <4>1. PICK ok \in BOOLEAN : Processed(w, ok)
        BY <3>8 DEF ProcessFail, CloseResult
      <4> QED
        BY <1>t, <4>1 DEF Processed, WkStates, Unwritten
    <3>9. CASE OpenFinal(w) \/ CloseFinal(w)
      BY <3>1, <3>9 DEF OpenFinal, CloseFinal, OpenState, CloseState, Unwritten
    <3> QED
      BY <1>3, <3>3, <3>4, <3>5, <3>6, <3>7, <3>8, <3>9 DEF Step
  <2> QED
    BY <2>1, <2>2, <2>3 DEF ToWrite, Unwritten, Owning, Leasing
<1>4. CASE RxOpenJob /\ UNCHANGED wkVars
  <2> DEFINE k == [name |-> NameOf[rx.req.task], at |-> clock + 1]
  <2>1. k.at > clock /\ j.at <= clock
    BY <1>t, ClockAssumption DEF OwnInv, FreshNames, Posted
  <2>2. j # k
    BY <1>t, <2>1 DEF Jobs, Ticks
  <2>3. dir' = dir \/ dir' = [dir EXCEPT ![k] = "pending"]
    BY <1>4 DEF RxOpenJob
  <2>4. dir'[j] = dir[j]
    BY <1>t, <2>2, <2>3
  <2> QED
    BY <1>4, <2>4 DEF RxOpenJob, wkVars, ToWrite
<1>5. CASE RxCloseJob /\ UNCHANGED wkVars
  <2>1. rx.job # j
    BY <1>5 DEF RxCloseJob, JobsKept
  <2>2. job'[j] = job[j]
    BY <1>t, <1>5, <2>1 DEF RxCloseJob
  <2> QED
    BY <1>5, <2>2 DEF RxCloseJob, wkVars, ToWrite
<1>6. CASE ReceiverNext /\ ~RxOpenJob /\ ~RxCloseJob /\ UNCHANGED wkVars
  <2>1. UNCHANGED <<job, dir>>
    BY <1>6 DEF ReceiverNext, Receive, Handle, Reject, Answer, Begin, RxOpenState,
                RxCloseState, RxReply, RxCrash, shared
  <2> QED
    BY <1>6, <2>1 DEF ToWrite, wkVars
<1>7. CASE UNCHANGED vars
  BY <1>7 DEF vars, shared, wkVars, ToWrite
<1> QED
  BY <1>1, <1>2, <1>3, <1>4, <1>5, <1>6, <1>7 DEF Next, WorkerNext

LEMMA WrittenStays ==
  ASSUME TypeInv, OwnInv, JobsKept, [Next]_vars,
         NEW j \in Jobs, NEW p \in Paths, WrittenBy(j, p)
  PROVE  WrittenBy(j, p)'
<1>1. job[j] # NoRequest
  BY PathAssumption DEF WrittenBy, NoRequest
<1> QED
  BY <1>1, TakenStays DEF WrittenBy

(* Who touches the result files.                                           *)
LEMMA ResultSteps ==
  [Next]_vars => UNCHANGED result \/ \E w \in Workers : OpenResult(w) \/ CloseResult(w)
BY DEF Next, vars, shared, ReceiverNext, Receive, Handle, WorkerNext, Step,
       Reject, Answer, Begin, RxOpenState, RxCloseState, RxOpenJob, RxCloseJob, RxReply, RxCrash,
       Glob, Claim, SkipJob, LoadState, OpenWorking, CloseWorking, ProcessFail,
       Archive, OpenFinal, CloseFinal, Reply, WorkerCrash

(* The job of a worker that is about to close its result is the one that   *)
(* will have written it.                                                   *)
LEMMA CloseWrites ==
  ASSUME TypeInv, OwnInv, JobsKept, NEW w \in Workers, CloseResult(w), wk[w].req # NoRequest,
         NEW j, j = wk[w].job, NEW p, p = wk[w].req.result
  PROVE  WrittenBy(j, p)'
<1>t. wk \in [Workers -> WkStates] /\ wk[w].pc = "closeResult"
  BY DEF TypeInv, TypeOK, WkTypeOK, CloseResult
<1>1. j \in Jobs /\ dir[j] \notin {"none", "pending"} /\ job[j].result = p
  BY <1>t DEF OwnInv, OwnedTaken, JobsKept, Owning, Leasing
<1>2. UNCHANGED <<job, dir>>
  BY DEF CloseResult
<1>3. PICK ok \in BOOLEAN : Processed(w, ok)
  BY DEF CloseResult
<1>4. wk'[w].pc = "archive" /\ \A v \in Workers \ {w} : wk'[v] = wk[v]
  BY <1>t, <1>3 DEF Processed, WkStates
<1>5. \A v \in Workers : ~ToWrite(v, j)'
  <2>1. \A v \in Workers \ {w} : ~ToWrite(v, j)
    BY <1>1, <1>t DEF OwnInv, OneOwner, Owns, ToWrite, Unwritten, Owning, Leasing
  <2> QED
    BY <1>4, <2>1 DEF ToWrite, Unwritten
<1> QED
  BY <1>1, <1>2, <1>5 DEF WrittenBy

LEMMA ResultsWrittenStep ==
  TypeInv /\ OwnInv /\ JobsKept /\ ResultsWritten /\ [Next]_vars => ResultsWritten'
<1> SUFFICES ASSUME TypeInv, OwnInv, JobsKept, ResultsWritten, [Next]_vars
             PROVE  ResultsWritten'
  OBVIOUS
<1>t. /\ wk \in [Workers -> WkStates] /\ result \in [Paths -> ResultTexts]
  BY DEF TypeInv, TypeOK, WkTypeOK, QueueTypeOK
<1>1. ASSUME NEW p \in Paths, result'[p] \in TaskIds PROVE \E j \in Jobs : WrittenBy(j, p)'
  <2>1. CASE result'[p] = result[p]
    BY <1>1, <2>1, WrittenStays DEF ResultsWritten
  <2>2. CASE result'[p] # result[p]
    <3>1. PICK w \in Workers : OpenResult(w) \/ CloseResult(w)
      BY <2>2, ResultSteps
    <3>2. ~OpenResult(w)
      BY <1>1, <1>t, <2>2, TextAssumption DEF OpenResult
    <3>3. p = wk[w].req.result /\ wk[w].req # NoRequest
      BY <1>t, <2>2, <3>1, <3>2 DEF CloseResult, ResultsWritten
    <3>4. wk[w].job \in Jobs
      BY <3>1, <3>2 DEF CloseResult, OwnInv, OwnedTaken, Owning, Leasing
    <3>5. PICK j \in Jobs : j = wk[w].job
      BY <3>4
    <3>6. WrittenBy(j, p)'
      BY <3>1, <3>2, <3>3, <3>5, CloseWrites
    <3> QED
      BY <3>6
  <2> QED
    BY <2>1, <2>2
<1>2. ASSUME NEW w \in Workers, wk'[w].pc = "closeResult" PROVE wk'[w].req # NoRequest
  <2>1. CASE wk'[w] = wk[w]
    BY <1>2, <2>1 DEF ResultsWritten
  <2>2. CASE OpenResult(w)
    BY <1>t, <2>2 DEF OpenResult, Goto, WkStates, NoRequest
  <2>3. CASE wk'[w] # wk[w] /\ ~OpenResult(w)
    <3>1. PICK v \in Workers : Step(v) \/ WorkerCrash(v)
      BY <2>3 DEF Next, WorkerNext, vars, wkVars
    <3>2. v = w
      BY <1>t, <2>3, <3>1 DEF Step, Goto, NextJob, Processed, Glob, Claim, SkipJob, LoadState,
           OpenWorking, CloseWorking, OpenState, CloseState, ProcessFail, OpenResult, CloseResult,
           Archive, OpenFinal, CloseFinal, Reply, WorkerCrash
    <3>3. CASE ProcessFail(w) \/ CloseResult(w)
      <4>1. \E ok \in BOOLEAN : Processed(w, ok)
        BY <3>3 DEF ProcessFail, CloseResult
      <4> QED
        BY <1>2, <1>t, <4>1 DEF Processed
    <3>4. CASE SkipJob(w) \/ Reply(w) \/ WorkerCrash(w)
      <4>1. WorkerCrash(w) \/ \E todo : NextJob(w, todo)
        BY <3>4 DEF SkipJob, Reply
      <4>2. ASSUME NEW todo, NextJob(w, todo) PROVE FALSE
        <5>1. wk'[w].pc \in {"glob", "claim"}
          BY <1>t, <4>2 DEF NextJob, WkIdle
        <5> QED
          BY <1>2, <5>1
      <4> QED
        BY <1>2, <1>t, <4>1, <4>2 DEF WorkerCrash, WkIdle
    <3>5. CASE Glob(w) \/ LoadState(w)
      BY <1>2, <1>t, <3>5 DEF Glob, LoadState, WkStates
    <3>8. CASE Claim(w)
      BY <1>2, <1>t, <3>8 DEF Claim, WkStates
    <3>6. CASE \E pc \in {"closeWorking", "process", "openFinal", "closeFinal", "reply"} : Goto(w, pc)
      BY <1>2, <1>t, <3>6 DEF Goto, WkStates
    <3>7. OpenWorking(w) \/ CloseWorking(w) \/ Archive(w) \/ OpenFinal(w) \/ CloseFinal(w)
            => \E pc \in {"closeWorking", "process", "openFinal", "closeFinal", "reply"} : Goto(w, pc)
      BY DEF OpenWorking, CloseWorking, Archive, OpenFinal, CloseFinal, OpenState, CloseState
    <3> QED
      BY <2>3, <3>1, <3>2, <3>3, <3>4, <3>5, <3>6, <3>7, <3>8 DEF Step
  <2> QED
    BY <2>1, <2>2, <2>3
<1> QED
  BY <1>1, <1>2 DEF ResultsWritten

LEMMA InitWritten == Init => JobsKept /\ ResultsWritten
BY TextAssumption
   DEF Init, QueueInit, RxInit, WkInit, RxIdle, WkIdle, JobsKept, ResultsWritten,
       Owning, Leasing

(* The worker that empties a result does so for a job that has yet to      *)
(* write it; the job that wrote it is another one.                         *)
LEMMA OpenedForAnother ==
  ASSUME TypeInv, OwnInv, JobsKept, ResultsWritten, [Next]_vars,
         NEW p \in Paths, result[p] \in TaskIds, result'[p] \notin TaskIds
  PROVE  \E j, k \in Jobs : j # k /\ job[j].result = p /\ job[k].result = p
<1>t. wk \in [Workers -> WkStates] /\ result \in [Paths -> ResultTexts]
  BY DEF TypeInv, TypeOK, WkTypeOK, QueueTypeOK
<1>1. PICK k \in Jobs : WrittenBy(k, p)
  BY DEF ResultsWritten
<1>2. PICK w \in Workers : OpenResult(w) \/ CloseResult(w)
  BY ResultSteps
<1>3. ~CloseResult(w)
  <2> SUFFICES ASSUME CloseResult(w) PROVE FALSE
    OBVIOUS
  <2>1. wk[w].req \in Requests
    BY <1>t DEF CloseResult, ResultsWritten, WkStates
  <2>2. wk[w].req.task \in TaskIds
    BY <2>1 DEF Requests
  <2> QED
    BY <1>t, <2>2 DEF CloseResult
<1>4. wk[w].pc = "process" /\ wk[w].req # NoRequest /\ p = wk[w].req.result
  BY <1>t, <1>2, <1>3 DEF OpenResult, NoRequest
<1>5. wk[w].job \in Jobs /\ job[wk[w].job].result = p
  BY <1>4 DEF OwnInv, OwnedTaken, JobsKept, Owning, Leasing
<1>6. wk[w].job # k
  BY <1>1, <1>4 DEF WrittenBy, ToWrite, Unwritten
<1> QED
  BY <1>1, <1>5, <1>6 DEF WrittenBy

(* No result that was written is emptied for the job that wrote it, kills  *)
(* and failing file operations included: a job is never run twice.         *)
THEOREM ResultsAreKept == Spec => ResultKept
<1>1. Inv /\ JobsKept /\ ResultsWritten /\ [Next]_vars => (JobsKept /\ ResultsWritten)'
  BY JobsKeptStep, ResultsWrittenStep DEF Inv, OwnInv
<1>2. Inv /\ JobsKept /\ ResultsWritten /\ [Next]_vars =>
        [\A p \in Paths : result[p] \in TaskIds /\ result'[p] \notin TaskIds =>
           \E j, k \in Jobs : j # k /\ job[j].result = p /\ job[k].result = p]_vars
  BY OpenedForAnother DEF Inv, OwnInv
<1> QED
  BY <1>1, <1>2, Invariance, InitWritten, PTL DEF Spec, ResultKept

-----------------------------------------------------------------------------
(* Where the results of "success" are.                                     *)

(* The next state keeps the result of that path.                           *)
KeptNext(p) ==
  \/ result'[p] \in TaskIds
  \/ \E w \in Workers : wk'[w].pc = "closeResult" /\ wk'[w].req.result = p

LEMMA WorkersCalmBefore ==
  ASSUME TypeInv, TypeInv', [Next]_vars, WorkersCalm'
  PROVE  WorkersCalm /\ ~Fails /\ \A w \in Workers : ~WorkerCrash(w)
BY FaultsGrow, CrashesGrow, Counts DEF WorkersCalm, Fails, WorkerCrash

LEMMA OthersStay ==
  ASSUME TypeInv, NEW w \in Workers, Step(w) \/ WorkerCrash(w), NEW v \in Workers, v # w
  PROVE  wk'[v] = wk[v]
BY DEF TypeInv, TypeOK, WkTypeOK, Step, Goto, NextJob, Processed, Glob, Claim, SkipJob, LoadState,
       OpenWorking, CloseWorking, OpenState, CloseState, ProcessFail, OpenResult, CloseResult,
       Archive, OpenFinal, CloseFinal, Reply, WorkerCrash

(* A result that was emptied has a worker that fills it.                   *)
LEMMA KeptStays ==
  ASSUME TypeInv, TypeInv', ResultsWritten, [Next]_vars, WorkersCalm', NEW p \in Paths, Kept(p)
  PROVE  KeptNext(p)
<1>t. wk \in [Workers -> WkStates] /\ result \in [Paths -> ResultTexts]
  BY DEF TypeInv, TypeOK, WkTypeOK, QueueTypeOK
<1>c. ~Fails /\ \A w \in Workers : ~WorkerCrash(w)
  BY WorkersCalmBefore
<1>1. ASSUME NEW w \in Workers, CloseResult(w)
      PROVE  \A q \in Paths : IF q = wk[w].req.result THEN result'[q] \in TaskIds
                                                      ELSE result'[q] = result[q]
  <2>1. wk[w].req \in Requests
    BY <1>t, <1>1 DEF CloseResult, ResultsWritten, WkStates
  <2>2. wk[w].req.task \in TaskIds
    BY <2>1 DEF Requests
  <2>3. result' = [result EXCEPT ![wk[w].req.result] = wk[w].req.task]
    BY <1>1, <1>c DEF CloseResult
  <2> QED
    BY <1>t, <2>2, <2>3
<1>2. ASSUME result[p] \in TaskIds PROVE KeptNext(p)
  <2>1. CASE UNCHANGED result
    BY <1>2, <2>1 DEF KeptNext
  <2>2. ASSUME NEW w \in Workers, OpenResult(w) PROVE KeptNext(p)
    <3>1. wk'[w].pc = "closeResult" /\ wk'[w].req = wk[w].req
      BY <1>t, <2>2 DEF OpenResult, Goto, WkStates
    <3>2. p = wk[w].req.result \/ result'[p] = result[p]
      BY <1>t, <2>2 DEF OpenResult
    <3> QED
      BY <1>2, <3>1, <3>2 DEF KeptNext
  <2> QED
    BY <1>1, <1>2, <2>1, <2>2, ResultSteps DEF KeptNext
<1>3. ASSUME NEW w \in Workers, wk[w].pc = "closeResult", wk[w].req.result = p PROVE KeptNext(p)
  <2>1. CASE CloseResult(w)
    BY <1>1, <1>3, <2>1 DEF KeptNext
  <2>2. CASE wk'[w] = wk[w]
    BY <1>3, <2>2 DEF KeptNext
  <2>3. CASE wk'[w] # wk[w]
    <3>1. Step(w)
      BY <1>c, <2>3, OthersStay DEF Next, WorkerNext, vars, wkVars
    <3>2. CloseResult(w)
      BY <1>3, <3>1 DEF Step, Glob, Claim, SkipJob, LoadState, OpenWorking, CloseWorking,
         OpenState, CloseState, ProcessFail, OpenResult, Archive, OpenFinal, CloseFinal, Reply
    <3> QED
      BY <2>1, <3>2
  <2> QED
    BY <2>2, <2>3
<1> QED
  BY <1>2, <1>3 DEF Kept

(* The paths of what was asked for, the one path of each task.             *)
LEMMA AskedPath ==
  ASSUME NEW now \in 0 .. MaxClock, NEW q \in AskedBy(now)
  PROVE  q.result \in Paths /\ q \in AskedBy(MaxClock)
<1>a. PICK m \in Submits : \E i \in IF m.task = Nil THEN 1 .. now ELSE {0} : q = Completed(m, i)
  BY DEF AskedBy
<1>1. PICK i \in IF m.task = Nil THEN 1 .. now ELSE {0} : q = Completed(m, i)
  BY <1>a
<1>2. m.task \in TaskIds \cup {Nil} /\ m.result \in RawPaths
  BY SubmitAssumption
<1>3. m.task = Nil => ClockId[i] \in TaskIds
  BY <1>1, ClockAssumption DEF Ticks
<1>4. q.result \in Paths
  BY <1>1, <1>2, <1>3, NameAssumption, PathAssumption DEF Completed
<1> QED
  BY <1>4, AskedStays, ClockAssumption

LEMMA SamePath ==
  ASSUME TypeInv, AskedInv, OnePathEach, NEW w \in Workers,
         wk[w].pc \in Owning \ {"load"}, wk[w].req # NoRequest
  PROVE  wk[w].st.req.result = wk[w].req.result
<1>1. wk[w].req \in Requests /\ wk[w].st.req.task = wk[w].req.task
  BY WorkerFields DEF TypeInv, TypeOK, AskedInv, StatesInPlace
<1>2. wk[w].st.req # NoRequest
  BY <1>1, NameAssumption DEF Requests, NoRequest
<1>3. clock \in 0 .. MaxClock /\ wk[w].req \in AskedBy(clock) /\ wk[w].st.req \in AskedBy(clock)
  BY <1>2 DEF TypeInv, TypeOK, QueueTypeOK, AskedInv, RequestsAsked, Asked
<1> QED
  BY <1>1, <1>3, AskedPath DEF OnePathEach

(* Who is told "success", and from where.                                  *)
LEMMA SuccessSteps ==
  ASSUME TypeInv, SuccessKnown, [Next]_vars, NEW w \in Workers, wk'[w].st.status = "success"
  PROVE  \/ wk[w].st.status = "success" /\ wk'[w].req = wk[w].req
         \/ CloseResult(w) /\ wk'[w].req = wk[w].req
<1>t. wk \in [Workers -> WkStates]
  BY DEF TypeInv, TypeOK, WkTypeOK
<1>k. wk[w].st.status = "success" => wk[w].pc \in Owning \ {"load"}
  BY DEF SuccessKnown, Owning, Leasing
<1>1. CASE wk'[w] = wk[w]
  BY <1>1
<1>2. CASE wk'[w] # wk[w]
  <2>1. Step(w) \/ WorkerCrash(w)
    BY <1>2, OthersStay DEF Next, WorkerNext, vars, wkVars
  <2>2. CASE \E pc : Goto(w, pc)
    BY <1>t, <2>2 DEF Goto, WkStates
  <2>3. CASE \E todo : NextJob(w, todo)
    BY <1>t, <2>3 DEF NextJob, WkIdle, Absent
  <2>4. CASE Glob(w)
    BY <1>t, <2>4 DEF Glob, WkStates
  <2>5. CASE Claim(w)
    BY <1>t, <1>k, <2>5 DEF Claim, WkStates, Owning, Leasing
  <2>6. CASE LoadState(w)
    BY <1>t, <2>6 DEF LoadState, WkStates
  <2>7. CASE ProcessFail(w)
    <3>1. wk[w].st \in TaskStates \cup {Absent} /\ Processed(w, FALSE)
      BY <1>t, <2>7 DEF WkStates, ProcessFail
    <3>2. wk'[w].st.status = "failed"
      BY <1>t, <3>1 DEF Processed, WkStates, TaskStates, Absent
    <3> QED
      BY <3>2
  <2>8. CASE CloseResult(w)
    <3>1. PICK ok \in BOOLEAN : Processed(w, ok)
      BY <2>8 DEF CloseResult
    <3>2. wk'[w].req = wk[w].req
      BY <1>t, <3>1 DEF Processed, WkStates
    <3> QED
      BY <2>8, <3>2
  <2>9. CASE WorkerCrash(w)
    BY <1>t, <2>9 DEF WorkerCrash, WkIdle, Absent
  <2> QED
    BY <2>1, <2>2, <2>3, <2>4, <2>5, <2>6, <2>7, <2>8, <2>9
       DEF Step, SkipJob, OpenWorking, CloseWorking, OpenFinal, CloseFinal, OpenState, CloseState,
           OpenResult, Archive, Reply
<1> QED
  BY <1>1, <1>2

LEMMA SuccessFiles ==
  ASSUME TypeInv, SuccessKnown, [Next]_vars, NEW n \in FileNames, state'[n].status = "success"
  PROVE  \/ state'[n] = state[n]
         \/ \E w \in Workers : /\ wk[w].pc \in Owning \ {"load"} /\ wk[w].st.status = "success"
                               /\ state'[n] = wk[w].st
<1>t. state \in [FileNames -> TaskStates \cup {Absent, Empty}]
  BY DEF TypeInv, TypeOK, QueueTypeOK
<1>1. ASSUME NEW st, CloseStateFile(st) PROVE state'[n] = state[n] \/ state'[n] = st
  BY <1>t, <1>1 DEF CloseStateFile
<1>2. ASSUME NEW task, OpenStateFile(task) PROVE state'[n] = state[n]
  <2>1. state'[n] = state[n] \/ state'[n] = Empty
    BY <1>t, <1>2 DEF OpenStateFile
  <2> QED
    BY <2>1 DEF Empty
<1>3. CASE ReceiverNext
  <2>1. rx.status # "success"
    BY DEF TypeInv, TypeOK, RxTypeOK
  <2>2. \/ UNCHANGED state \/ OpenStateFile(rx.req.task)
        \/ CloseStateFile([req |-> rx.req, status |-> rx.status])
    BY <1>3 DEF ReceiverNext, Receive, Handle, Reject, Answer, Begin, RxOpenState, RxCloseState,
                RxOpenJob, RxCloseJob, RxReply, RxCrash, shared
  <2>3. CASE CloseStateFile([req |-> rx.req, status |-> rx.status])
    <3> DEFINE st == [req |-> rx.req, status |-> rx.status]
    <3>1. st.status # "success" /\ CloseStateFile(st)
      BY <2>1, <2>3
    <3> HIDE DEF st
    <3> QED
      BY <1>1, <3>1
  <2> QED
    BY <1>2, <2>2, <2>3
<1>4. ASSUME NEW w \in Workers, Step(w) \/ WorkerCrash(w)
      PROVE  state'[n] = state[n] \/ (wk[w].pc \in Owning \ {"load"} /\ state'[n] = wk[w].st)
  <2>1. \/ UNCHANGED state \/ OpenStateFile(wk[w].st.req.task)
        \/ CloseStateFile(wk[w].st) /\ wk[w].pc \in {"closeWorking", "closeFinal"}
    BY <1>4 DEF Step, shared, Glob, Claim, SkipJob, LoadState, OpenWorking, CloseWorking, OpenState,
       CloseState, ProcessFail, OpenResult, CloseResult, Archive, OpenFinal, CloseFinal, Reply,
       WorkerCrash
  <2> QED
    BY <1>1, <1>2, <2>1 DEF Owning, Leasing
<1>5. CASE UNCHANGED vars
  BY <1>5 DEF vars, shared
<1> QED
  BY <1>3, <1>4, <1>5 DEF Next, WorkerNext

LEMMA SuccessReplies ==
  ASSUME TypeInv, [Next]_vars, NEW r \in sent', r.status = "success"
  PROVE  \/ r \in sent
         \/ \E n \in FileNames : state[n].status = "success" /\ r.result = state[n].req.result
         \/ \E w \in Workers : wk[w].st.status = "success" /\ r.result = wk[w].req.result
<1>1. ASSUME NEW m \in Submits, Reject(m) PROVE r \in sent
  BY <1>1 DEF Reject, Send, ReplyTo
<1>2. ASSUME NEW m \in Submits, Answer(m)
      PROVE  r \in sent \/ \E n \in FileNames : state[n].status = "success"
                                             /\ r.result = state[n].req.result
  <2>1. clock \in Nat /\ (clock < MaxClock \/ m.task # Nil)
    BY <1>2, ClockAssumption DEF Answer, TakesReading, TypeInv, TypeOK, QueueTypeOK
  <2>2. StateFile(Received(m).task) \in FileNames
    BY <2>1, CompletedType, NameAssumption DEF StateFile
  <2> QED
    BY <1>2, <2>2 DEF Answer, Send, ReplyForState
<1>3. CASE Handle \/ RxCrash \/ \E m \in Submits : Begin(m)
  <2>1. CASE RxReply
    <3> DEFINE reply == ReplyTo(rx.req, IF rx.status = "pending" THEN "accepted" ELSE "failed")
    <3>1. Send(reply) /\ reply.status # "success"
      BY <2>1 DEF RxReply, ReplyTo
    <3> HIDE DEF reply
    <3> QED
      BY <3>1 DEF Send
  <2>2. CASE ~RxReply
    BY <1>3, <2>2 DEF Handle, RxOpenState, RxCloseState, RxOpenJob, RxCloseJob, RxCrash, Begin, shared
  <2> QED
    BY <2>1, <2>2
<1>4. ASSUME NEW w \in Workers, Step(w) \/ WorkerCrash(w)
      PROVE  r \in sent \/ (wk[w].st.status = "success" /\ r.result = wk[w].req.result)
  <2>1. CASE Reply(w)
    BY <2>1 DEF Reply, Send
  <2>2. CASE ~Reply(w)
    BY <1>4, <2>2 DEF Step, shared, Glob, Claim, SkipJob, LoadState, OpenWorking, CloseWorking,
       ProcessFail, OpenResult, CloseResult, Archive, OpenFinal, CloseFinal, WorkerCrash
  <2> QED
    BY <2>1, <2>2
<1>5. CASE UNCHANGED vars
  BY <1>5 DEF vars, shared
<1> QED
  BY <1>1, <1>2, <1>3, <1>4, <1>5 DEF Next, ReceiverNext, Receive, WorkerNext

LEMMA ReadyStep ==
  ASSUME OnePathEach, TypeInv, TypeInv', AskedInv, SuccessKnown, ResultsWritten, SuccessReady,
         [Next]_vars
  PROVE  SuccessReady'
<1> SUFFICES ASSUME WorkersCalm' PROVE
      /\ \A w \in Workers : wk'[w].st.status = "success" => KeptNext(wk'[w].req.result)
      /\ \A n \in FileNames : state'[n].status = "success" => KeptNext(state'[n].req.result)
      /\ \A r \in sent' : r.status = "success" => KeptNext(r.result)
  BY DEF SuccessReady, Kept, KeptNext
<1>t. /\ wk \in [Workers -> WkStates] /\ clock \in 0 .. MaxClock
      /\ state \in [FileNames -> TaskStates \cup {Absent, Empty}]
  BY DEF TypeInv, TypeOK, WkTypeOK, QueueTypeOK
<1>c. WorkersCalm /\ ~Fails
  BY WorkersCalmBefore
<1>w. ASSUME NEW w \in Workers, wk[w].st.status = "success" PROVE KeptNext(wk[w].req.result)
  <2>1. wk[w].req \in Requests
    BY <1>t, <1>w DEF SuccessKnown, WkStates
  <2>2. wk[w].req.result \in Paths
    BY <2>1 DEF Requests
  <2> QED
    BY <1>c, <1>w, <2>2, KeptStays DEF SuccessReady
<1>n. ASSUME NEW n \in FileNames, state[n].status = "success" PROVE KeptNext(state[n].req.result)
  <2>1. state[n].req.task \in TaskIds
    BY <1>n DEF SuccessKnown, EarnedTasks
  <2>2. state[n].req \in Requests
    BY <1>t, <2>1, NameAssumption DEF TaskStates, Absent, Empty, NoRequest
  <2>3. state[n].req.result \in Paths
    BY <2>2 DEF Requests
  <2> QED
    BY <1>c, <1>n, <2>3, KeptStays DEF SuccessReady
<1>r. ASSUME NEW r \in sent, r.status = "success" PROVE KeptNext(r.result)
  <2>1. PICK q \in AskedBy(clock) : q.result = r.result
    BY DEF AskedInv, RepliesAsked, ReplyAsked
  <2>2. r.result \in Paths
    BY <1>t, <2>1, AskedPath
  <2> QED
    BY <1>c, <1>r, <2>2, KeptStays DEF SuccessReady
<1>1. ASSUME NEW w \in Workers, wk'[w].st.status = "success" PROVE KeptNext(wk'[w].req.result)
  <2>1. CASE wk[w].st.status = "success" /\ wk'[w].req = wk[w].req
    BY <1>w, <2>1
  <2>2. CASE CloseResult(w) /\ wk'[w].req = wk[w].req
    <3>1. wk[w].pc = "closeResult" /\ wk[w].req \in Requests
      BY <1>t, <2>2 DEF CloseResult, ResultsWritten, WkStates
    <3>2. wk[w].req.result \in Paths
      BY <3>1 DEF Requests
    <3> QED
      BY <2>2, <3>1, <3>2, KeptStays DEF Kept
  <2> QED
    BY <1>1, <2>1, <2>2, SuccessSteps
<1>2. ASSUME NEW n \in FileNames, state'[n].status = "success" PROVE KeptNext(state'[n].req.result)
  <2>1. CASE state'[n] = state[n]
    BY <1>2, <1>n, <2>1
  <2>2. ASSUME NEW w \in Workers, wk[w].pc \in Owning \ {"load"}, wk[w].st.status = "success",
               state'[n] = wk[w].st
        PROVE  KeptNext(state'[n].req.result)
    <3>1. wk[w].st.req.result = wk[w].req.result
      BY <2>2, SamePath DEF SuccessKnown
    <3> QED
      BY <1>w, <2>2, <3>1
  <2> QED
    BY <1>2, <2>1, <2>2, SuccessFiles
<1>3. ASSUME NEW r \in sent', r.status = "success" PROVE KeptNext(r.result)
  BY <1>3, <1>w, <1>n, <1>r, SuccessReplies
<1> QED
  BY <1>1, <1>2, <1>3

LEMMA InitReady == Init => SuccessReady
BY DEF Init, QueueInit, WkInit, WkIdle, Absent, SuccessReady

(* Where names tell tasks apart and no task is asked for with two result   *)
(* paths, "success" is said of no result that is not there, unless a worker*)
(* was killed or a file operation failed.                                  *)
THEOREM SuccessMeansResult ==
  ASSUME NamesApart, OnePathEach PROVE Spec => []SuccessHasResult
<1>1. Inv /\ Inv' /\ AskedInv /\ AskedInv' /\ EarnedInv /\ ResultsWritten /\ SuccessReady /\ [Next]_vars
        => (EarnedInv /\ ResultsWritten /\ SuccessReady)'
  BY EarnedStep, ResultsWrittenStep, ReadyStep DEF Inv, OwnInv, EarnedInv
<1>2. SuccessReady => SuccessHasResult
  BY DEF SuccessReady, SuccessHasResult
<1>3. Inv /\ AskedInv /\ [Next]_vars => AskedInv'
  BY AskedStep DEF Inv
<1> QED
  BY <1>1, <1>2, <1>3, Invariance, InitAsked, InitEarned, InitWritten, InitReady, PTL DEF Spec

-----------------------------------------------------------------------------
(* State files that are neglected.                                         *)
NeglectedFiles == {n \in FileNames : Neglected(n)}

NeglectedInv ==
  /\ IsFiniteSet(NeglectedFiles)
  /\ Cardinality(NeglectedFiles) <= Losses

LEMMA LossCounts ==
  /\ TypeInv => rxCrashes \in Nat /\ wkCrashes \in Nat /\ faults \in Nat
  /\ TypeInv' => rxCrashes' \in Nat /\ wkCrashes' \in Nat /\ faults' \in Nat
BY Counts, SubmitAssumption DEF TypeInv, TypeOK, RxTypeOK

(* A step that neglects one file more is counted, and none neglects two.   *)
LEMMA OneNeglected ==
  ASSUME TypeInv, TypeInv', NeglectedInv, NEW k,
         \A n \in FileNames : Neglected(n)' => Neglected(n) \/ (n = k /\ Losses' = Losses + 1),
         Losses <= Losses'
  PROVE  NeglectedInv'
<1>0. Losses \in Nat /\ Losses' \in Nat
  BY LossCounts DEF Losses
<1>1. CASE Losses' = Losses + 1
  <2>1. NeglectedFiles' \subseteq NeglectedFiles \cup {k}
    BY DEF NeglectedFiles
  <2>2. /\ IsFiniteSet(NeglectedFiles')
        /\ Cardinality(NeglectedFiles') <= Cardinality(NeglectedFiles) + 1
    BY <2>1, OneMore DEF NeglectedInv
  <2>3. Cardinality(NeglectedFiles) \in Nat /\ Cardinality(NeglectedFiles') \in Nat
    BY <2>2, FS_CardinalityType DEF NeglectedInv
  <2> QED
    BY <1>0, <1>1, <2>2, <2>3 DEF NeglectedInv
<1>2. CASE Losses' # Losses + 1
  <2>1. NeglectedFiles' \subseteq NeglectedFiles
    BY <1>2 DEF NeglectedFiles
  <2>2. IsFiniteSet(NeglectedFiles') /\ Cardinality(NeglectedFiles') <= Cardinality(NeglectedFiles)
    BY <2>1, FS_Subset DEF NeglectedInv
  <2>3. Cardinality(NeglectedFiles) \in Nat /\ Cardinality(NeglectedFiles') \in Nat
    BY <2>2, FS_CardinalityType DEF NeglectedInv
  <2> QED
    BY <1>0, <2>2, <2>3 DEF NeglectedInv
<1> QED
  BY <1>1, <1>2

LEMMA LossesGrow ==
  ASSUME TypeInv, TypeInv', [Next]_vars
  PROVE  /\ Losses <= Losses'
         /\ Fails \/ RxCrash \/ (\E w \in Workers : WorkerCrash(w)) => Losses' = Losses + 1
<1>1. UNCHANGED rxCrashes \/ RxCrash
  BY DEF Next, vars, rxVars, ReceiverNext, Receive, Handle, Reject, Answer, Begin, RxOpenState,
         RxCloseState, RxOpenJob, RxCloseJob, RxReply
<1>2. RxCrash => rxCrashes' = rxCrashes + 1 /\ UNCHANGED faults
  BY DEF RxCrash, shared
<1>3. ASSUME NEW w \in Workers, WorkerCrash(w)
      PROVE  wkCrashes' = wkCrashes + 1 /\ UNCHANGED faults
  BY <1>3 DEF WorkerCrash, shared
<1>4. ~(RxCrash /\ UNCHANGED rxCrashes) /\ ~(Fails /\ UNCHANGED faults)
  BY LossCounts DEF RxCrash, Fails
<1>5. UNCHANGED rxCrashes \/ UNCHANGED wkCrashes
  BY DEF Next, vars, rxVars, wkVars
<1>6. ASSUME NEW w \in Workers, WorkerCrash(w) PROVE UNCHANGED rxCrashes
  BY <1>3, <1>5, <1>6, LossCounts
<1>7. faults' = faults \/ faults' = faults + 1
  BY DEF Next, vars, shared, ReceiverNext, Receive, Handle, WorkerNext, Step, Works, Fails,
         Reject, Answer, Begin, RxOpenState, RxCloseState, RxOpenJob, RxCloseJob, RxReply, RxCrash,
         Glob, Claim, SkipJob, LoadState, OpenWorking, CloseWorking, OpenState, CloseState,
         ProcessFail, OpenResult, CloseResult, Archive, OpenFinal, CloseFinal, Reply, WorkerCrash
<1>8. Fails => faults' = faults + 1
  BY DEF Fails
<1>9. UNCHANGED wkCrashes \/ wkCrashes' = wkCrashes + 1
  BY <1>3, CrashesGrow
<1>10. rxCrashes' = rxCrashes \/ rxCrashes' = rxCrashes + 1
  BY <1>1, <1>2
<1>11. RxCrash => UNCHANGED wkCrashes
  BY <1>2, <1>4, <1>5, LossCounts
<1>12. Fails => UNCHANGED <<rxCrashes, wkCrashes>>
  BY <1>1, <1>2, <1>3, <1>4, CrashesGrow
<1> QED
  BY <1>2, <1>3, <1>6, <1>7, <1>8, <1>9, <1>10, <1>11, <1>12, LossCounts DEF Losses

(* What the steps do to the state files: opened and closed.                *)
LEMMA FileOpened ==
  ASSUME state \in [FileNames -> TaskStates \cup {Absent, Empty}], NEW task, OpenStateFile(task),
         NEW n \in FileNames, Unsettled(n)'
  PROVE  Unsettled(n) \/ n = StateFile(task)
BY DEF OpenStateFile, Unsettled

LEMMA FileClosed ==
  ASSUME state \in [FileNames -> TaskStates \cup {Absent, Empty}], NEW st, CloseStateFile(st),
         NEW n \in FileNames, Unsettled(n)'
  PROVE  IF n = StateFile(st.req.task) THEN st.status \in {"empty", "accepted", "working"}
                                       ELSE Unsettled(n)
BY DEF CloseStateFile, Unsettled

(* The receiver neglects no file but that of the task it is at, and that   *)
(* one only when it is killed or an operation fails.                       *)
LEMMA ReceiverNeglects ==
  ASSUME TypeInv, ReceiverNext, NEW n \in FileNames, Unsettled(n)', ~RxSettles(n)'
  PROVE  /\ Unsettled(n)
         /\ RxSettles(n) => n = StateFile(rx.req.task) /\ (Fails \/ RxCrash)
<1>t. /\ state \in [FileNames -> TaskStates \cup {Absent, Empty}]
      /\ rx \in [pc : {"recv", "openState", "closeState", "openJob", "closeJob", "reply"},
                 req : Requests \cup {NoRequest},
                 status : {"accepted", "pending", "failed"},
                 job : Jobs \cup {NoJob}]
  BY DEF TypeInv, TypeOK, QueueTypeOK, RxTypeOK
<1>0. RxSettles(n) => n = StateFile(rx.req.task)
  BY DEF RxSettles
<1>u. UNCHANGED state => Unsettled(n)
  BY DEF Unsettled
<1>1. CASE Receive
  BY <1>1, <1>u DEF Receive, Reject, Answer, Begin, RxSettles
<1>2. CASE RxOpenState
  <2>1. CASE Works /\ OpenStateFile(rx.req.task) /\ rx' = [rx EXCEPT !.pc = "closeState"]
    <3>1. rx'.pc = "closeState" /\ rx'.req = rx.req
      BY <1>t, <2>1
    <3>2. n # StateFile(rx.req.task)
      BY <3>1 DEF RxSettles, StateFile
    <3> QED
      BY <1>t, <1>0, <2>1, <3>2, FileOpened
  <2>2. CASE Fails /\ UNCHANGED state
    BY <1>0, <1>u, <2>2
  <2> QED
    BY <1>2, <2>1, <2>2 DEF RxOpenState
<1>3. CASE RxCloseState
  <2> DEFINE st == [req |-> rx.req, status |-> rx.status]
  <2>1. CASE Works /\ CloseStateFile(st) /\ RxStateWritten(TRUE)
    <3>1. rx.status = "accepted" => rx'.pc = "openJob" /\ rx'.req = rx.req
      BY <1>t, <2>1 DEF RxStateWritten
    <3>2. n = StateFile(rx.req.task) => rx.status # "accepted"
      BY <3>1 DEF RxSettles, StateFile
    <3>3. IF n = StateFile(st.req.task) THEN st.status \in {"empty", "accepted", "working"}
                                        ELSE Unsettled(n)
      BY <1>t, <2>1, FileClosed
    <3>4. n # StateFile(rx.req.task)
      BY <1>t, <3>2, <3>3
    <3> QED
      BY <1>0, <3>3, <3>4
  <2>2. CASE Fails /\ UNCHANGED state
    BY <1>0, <1>u, <2>2
  <2> QED
    BY <1>3, <2>1, <2>2 DEF RxCloseState
<1>4. CASE RxOpenJob
  <2>1. rx'.req = rx.req /\ (rx'.pc = "closeJob" \/ (rx'.pc = "openState" /\ rx'.status = "failed"))
    BY <1>t, <1>4 DEF RxOpenJob, RxJobWritten
  <2> QED
    BY <1>4, <1>u, <1>0, <2>1 DEF RxOpenJob, RxSettles, StateFile
<1>5. CASE RxCloseJob
  <2>1. rx'.req = rx.req /\ rx'.pc = "openState" /\ rx'.status # "accepted"
    BY <1>t, <1>5 DEF RxCloseJob, RxJobWritten
  <2> QED
    BY <1>5, <1>u, <1>0, <2>1 DEF RxCloseJob, RxSettles, StateFile
<1>6. CASE RxReply
  BY <1>6, <1>u DEF RxReply, RxSettles
<1>7. CASE RxCrash
  BY <1>7, <1>u, <1>0 DEF RxCrash, shared
<1> QED
  BY <1>1, <1>2, <1>3, <1>4, <1>5, <1>6, <1>7 DEF ReceiverNext, Handle

(* Nor does a worker.                                                      *)
LEMMA WorkerNeglects ==
  ASSUME TypeInv, NEW w \in Workers, Step(w) \/ WorkerCrash(w),
         NEW n \in FileNames, Unsettled(n)', ~WkSettles(w, n)'
  PROVE  /\ Unsettled(n)
         /\ WkSettles(w, n) => n = StateFile(wk[w].st.req.task) /\ (Fails \/ WorkerCrash(w))
<1>t. /\ state \in [FileNames -> TaskStates \cup {Absent, Empty}]
      /\ wk \in [Workers -> WkStates]
  BY DEF TypeInv, TypeOK, QueueTypeOK, WkTypeOK
<1>0. WkSettles(w, n) => n = StateFile(wk[w].st.req.task)
  BY DEF WkSettles
<1>u. UNCHANGED state => Unsettled(n)
  BY DEF Unsettled
<1>g. ASSUME NEW pc, Goto(w, pc) PROVE wk'[w].pc = pc /\ wk'[w].st = wk[w].st
  BY <1>t, <1>g DEF Goto, WkStates
<1>1. CASE Glob(w) \/ Claim(w) \/ SkipJob(w) \/ LoadState(w)
  <2>1. UNCHANGED state
    BY <1>1 DEF Glob, Claim, SkipJob, LoadState, shared
  <2>2. ~WkSettles(w, n)
    BY <1>1 DEF Glob, Claim, SkipJob, LoadState, WkSettles
  <2> QED
    BY <1>u, <2>1, <2>2
<1>2. ASSUME NEW from, NEW to \in {"closeWorking", "closeFinal"}, NEW skip, OpenState(w, from, to, skip),
             skip = "process" \/ from = "openFinal"
      PROVE  /\ Unsettled(n)
             /\ WkSettles(w, n) => Fails
  <2>1. CASE Works /\ OpenStateFile(wk[w].st.req.task) /\ Goto(w, to)
    <3>1. n # StateFile(wk[w].st.req.task)
      BY <1>g, <2>1 DEF WkSettles, StateFile
    <3> QED
      BY <1>t, <1>0, <2>1, <3>1, FileOpened
  <2>2. CASE Fails /\ UNCHANGED state
    BY <1>u, <2>2
  <2> QED
    BY <1>2, <2>1, <2>2 DEF OpenState
<1>3. CASE OpenWorking(w) \/ OpenFinal(w)
  BY <1>0, <1>2, <1>3 DEF OpenWorking, OpenFinal
<1>4. CASE CloseWorking(w)
  <2>1. wk'[w].pc = "process" /\ wk'[w].st = wk[w].st
    BY <1>4, <1>g DEF CloseWorking
  <2>2. n # StateFile(wk[w].st.req.task)
    BY <2>1 DEF WkSettles, StateFile
  <2>3. CloseStateFile(wk[w].st) \/ UNCHANGED state
    BY <1>4 DEF CloseWorking, CloseState
  <2> QED
    BY <1>t, <1>0, <1>u, <2>2, <2>3, FileClosed
<1>5. CASE CloseFinal(w)
  <2>1. CASE Works /\ CloseStateFile(wk[w].st)
    <3>1. Terminal(wk[w].st.status)
      BY <1>5 DEF CloseFinal, CloseState, TypeInv, OutcomeKnown
    <3>2. n # StateFile(wk[w].st.req.task)
      BY <1>t, <2>1, <3>1, FileClosed DEF Terminal
    <3> QED
      BY <1>t, <1>0, <2>1, <3>2, FileClosed
  <2>2. CASE Fails /\ UNCHANGED state
    BY <1>0, <1>u, <2>2
  <2> QED
    BY <1>5, <2>1, <2>2 DEF CloseFinal, CloseState
<1>6. CASE OpenResult(w) \/ Archive(w)
  <2>1. UNCHANGED state
    BY <1>6 DEF OpenResult, Archive
  <2>2. wk'[w].pc \in {"closeResult", "openFinal"} /\ wk'[w].st = wk[w].st
    BY <1>6, <1>g DEF OpenResult, Archive
  <2>3. ~WkSettles(w, n)
    BY <2>2 DEF WkSettles, StateFile
  <2> QED
    BY <1>u, <2>1, <2>3
<1>7. CASE ProcessFail(w) \/ CloseResult(w)
  <2>1. PICK ok \in BOOLEAN : Processed(w, ok)
    BY <1>7 DEF ProcessFail, CloseResult
  <2>2. UNCHANGED state
    BY <1>7 DEF ProcessFail, CloseResult, shared
  <2>3. wk[w].st \in TaskStates \cup {Absent}
    BY <1>t DEF WkStates
  <2>4. wk'[w].pc = "archive" /\ wk'[w].st.req = wk[w].st.req
    BY <1>t, <2>1, <2>3 DEF Processed, WkStates, TaskStates, Absent
  <2>5. ~WkSettles(w, n)
    BY <2>4 DEF WkSettles, StateFile
  <2> QED
    BY <1>u, <2>2, <2>5
<1>8. CASE Reply(w)
  BY <1>8, <1>u DEF Reply, WkSettles
<1>9. CASE WorkerCrash(w)
  BY <1>9, <1>u, <1>0 DEF WorkerCrash, shared
<1> QED
  BY <1>1, <1>3, <1>4, <1>5, <1>6, <1>7, <1>8, <1>9 DEF Step

LEMMA NeglectedStep == TypeInv /\ TypeInv' /\ NeglectedInv /\ [Next]_vars => NeglectedInv'
<1> SUFFICES ASSUME TypeInv, TypeInv', NeglectedInv, [Next]_vars PROVE NeglectedInv'
  OBVIOUS
<1>1. CASE ReceiverNext /\ UNCHANGED wkVars
  <2>1. \A w \in Workers, n \in FileNames : WkSettles(w, n)' <=> WkSettles(w, n)
    BY <1>1 DEF wkVars, WkSettles, StateFile
  <2>2. ASSUME NEW n \in FileNames, Neglected(n)'
        PROVE  Neglected(n) \/ (n = StateFile(rx.req.task) /\ Losses' = Losses + 1)
    <3>1. /\ Unsettled(n)
          /\ RxSettles(n) => n = StateFile(rx.req.task) /\ (Fails \/ RxCrash)
      BY <1>1, <2>2, ReceiverNeglects DEF Neglected
    <3> QED
      BY <2>1, <2>2, <3>1, LossesGrow DEF Neglected
  <2> QED
    BY <2>2, LossesGrow, OneNeglected
<1>2. ASSUME NEW w \in Workers, Step(w) \/ WorkerCrash(w), UNCHANGED rxVars PROVE NeglectedInv'
  <2>1. \A n \in FileNames : RxSettles(n)' <=> RxSettles(n)
    BY <1>2 DEF rxVars, RxSettles, StateFile
  <2>2. \A v \in Workers \ {w}, n \in FileNames : WkSettles(v, n)' <=> WkSettles(v, n)
    BY <1>2, OthersStay DEF WkSettles, StateFile
  <2>3. ASSUME NEW n \in FileNames, Neglected(n)'
        PROVE  Neglected(n) \/ (n = StateFile(wk[w].st.req.task) /\ Losses' = Losses + 1)
    <3>1. /\ Unsettled(n)
          /\ WkSettles(w, n) => n = StateFile(wk[w].st.req.task) /\ (Fails \/ WorkerCrash(w))
      BY <1>2, <2>3, WorkerNeglects DEF Neglected
    <3> QED
      BY <2>1, <2>2, <2>3, <3>1, LossesGrow DEF Neglected
  <2> QED
    BY <2>3, LossesGrow, OneNeglected
<1>3. CASE UNCHANGED vars
  <2>1. \A n \in FileNames : Neglected(n)' <=> Neglected(n)
    BY <1>3 DEF vars, shared, rxVars, wkVars, Neglected, Unsettled, RxSettles, WkSettles, StateFile
  <2> QED
    BY <2>1, LossesGrow, OneNeglected
<1> QED
  BY <1>1, <1>2, <1>3 DEF Next, WorkerNext

LEMMA InitNeglected == Init => NeglectedInv
<1> SUFFICES ASSUME Init PROVE NeglectedInv
  OBVIOUS
<1>1. NeglectedFiles = {}
  BY DEF Init, QueueInit, NeglectedFiles, Neglected, Unsettled, Absent
<1> QED
  BY <1>1, FS_EmptySet DEF Init, QueueInit, RxInit, WkInit, Losses, NeglectedInv

(* However many tasks and workers there are, and whatever their names:     *)
(* each state file that still says "accepted" or "working", or nothing, at *)
(* rest has cost a kill or a failed file operation of its own.             *)
THEOREM RestIsFinal == Spec => []QuiescentStatus
<1>1. Inv => TypeInv
  BY DEF Inv
<1>2. NeglectedInv => QuiescentStatus
  <2> SUFFICES ASSUME NeglectedInv, Quiet
               PROVE  Cardinality({n \in FileNames : Unsettled(n)}) <= Losses
    BY DEF QuiescentStatus
  <2>1. \A n \in FileNames : Neglected(n) <=> Unsettled(n)
    BY DEF Quiet, Neglected, RxSettles, WkSettles
  <2>2. {n \in FileNames : Unsettled(n)} = NeglectedFiles
    BY <2>1 DEF NeglectedFiles
  <2> QED
    BY <2>2 DEF NeglectedInv
<1> QED
  BY <1>1, <1>2, Invariance, InitNeglected, NeglectedStep, PTL DEF Spec

-----------------------------------------------------------------------------
(* What "accepted" stands for.                                             *)

(* A job file gets its text from the request it was made for.              *)
LEMMA JobNamesStep ==
  TypeInv /\ OwnInv /\ JobsKept /\ JobNames /\ [Next]_vars => JobNames'
<1> SUFFICES ASSUME TypeInv, OwnInv, JobsKept, JobNames, [Next]_vars PROVE JobNames'
  OBVIOUS
<1>t. /\ job \in [Jobs -> Requests \cup {NoRequest}]
      /\ rx \in [pc : {"recv", "openState", "closeState", "openJob", "closeJob", "reply"},
                 req : Requests \cup {NoRequest}, status : {"accepted", "pending", "failed"},
                 job : Jobs \cup {NoJob}]
  BY DEF TypeInv, TypeOK, QueueTypeOK, RxTypeOK
<1>1. ASSUME UNCHANGED job, rx'.pc # "closeJob", rx'.pc = "recv" \/ rx'.req # NoRequest
      PROVE  JobNames'
  BY <1>1 DEF JobNames
<1>2. CASE UNCHANGED <<job, rx>>
  BY <1>2 DEF JobNames
<1>3. CASE Receive
  <2>1. UNCHANGED job /\ (UNCHANGED rx \/ \E m \in Submits : Begin(m))
    BY <1>3 DEF Receive, Reject, Answer, Begin, rxVars
  <2>2. ASSUME NEW m \in Submits, Begin(m) PROVE JobNames'
    <3>1. Received(m) # NoRequest
      BY <2>2 DEF Begin, NoRequest
    <3>2. rx'.pc = "openState" /\ rx'.req = Received(m)
      BY <2>2 DEF Begin, RxIdle
    <3> QED
      BY <1>1, <2>1, <3>1, <3>2
  <2> QED
    BY <1>2, <2>1, <2>2
<1>4. CASE RxOpenState \/ RxCloseState
  <2>1. UNCHANGED job /\ \E pc \in {"closeState", "openJob", "reply"} : rx' = [rx EXCEPT !.pc = pc]
    BY <1>4 DEF RxOpenState, RxCloseState, RxStateWritten
  <2>2. rx'.pc # "closeJob" /\ rx'.req = rx.req /\ rx.pc # "recv"
    BY <1>t, <1>4, <2>1 DEF RxOpenState, RxCloseState
  <2> QED
    BY <1>1, <2>1, <2>2 DEF JobNames
<1>5. CASE RxOpenJob
  <2> DEFINE k == [name |-> NameOf[rx.req.task], at |-> clock + 1]
  <2>r. rx.req # NoRequest
    BY <1>5 DEF RxOpenJob, JobNames
  <2>1. CASE rx' = [rx EXCEPT !.pc = "closeJob", !.job = k]
    <3>1. rx'.job = k /\ rx'.req = rx.req
      BY <1>t, <2>1
    <3>2. k.name = NameOf[rx.req.task]
      OBVIOUS
    <3> HIDE DEF k
    <3> QED
      BY <1>5, <2>r, <3>1, <3>2 DEF RxOpenJob, JobNames
  <2>2. CASE RxJobWritten(FALSE, NoJob)
    <3>1. rx'.pc = "openState" /\ rx'.req = rx.req
      BY <1>t, <2>2 DEF RxJobWritten
    <3> QED
      BY <1>1, <1>5, <2>r, <3>1 DEF RxOpenJob
  <2> QED
    BY <1>5, <2>1, <2>2 DEF RxOpenJob
<1>6. CASE RxCloseJob
  <2>1. PICK ok \in BOOLEAN : RxJobWritten(ok, NoJob)
    BY <1>6 DEF RxCloseJob
  <2>2. rx'.pc = "openState" /\ rx'.req = rx.req /\ rx.req # NoRequest
    BY <1>t, <1>6, <2>1 DEF RxJobWritten, RxCloseJob, JobNames
  <2>3. \A j \in Jobs : job'[j] = job[j] \/ (j = rx.job /\ job'[j] = rx.req)
    BY <1>t, <1>6 DEF RxCloseJob
  <2>4. rx.job.name = NameOf[rx.req.task]
    BY <1>6 DEF RxCloseJob, JobNames
  <2> QED
    BY <2>2, <2>3, <2>4 DEF JobNames
<1>7. CASE RxReply \/ RxCrash
  <2>1. UNCHANGED job /\ rx'.pc = "recv"
    BY <1>7 DEF RxReply, RxCrash, RxIdle, shared
  <2> QED
    BY <1>1, <2>1
<1>8. ASSUME NEW w \in Workers, Step(w) \/ WorkerCrash(w), UNCHANGED rxVars PROVE JobNames'
  <2>1. UNCHANGED job
    BY <1>8 DEF Step, shared, Glob, Claim, SkipJob, LoadState, OpenWorking, CloseWorking,
         ProcessFail, OpenResult, CloseResult, Archive, OpenFinal, CloseFinal, Reply, WorkerCrash
  <2> QED
    BY <1>2, <1>8, <2>1 DEF rxVars
<1>9. CASE UNCHANGED vars
  BY <1>2, <1>9 DEF vars, shared, rxVars
<1> QED
  BY <1>3, <1>4, <1>5, <1>6, <1>7, <1>8, <1>9 DEF Next, ReceiverNext, Handle, WorkerNext

(* The state a worker writes is about a task the job of which has its text.*)
LEMMA WorkerHasText ==
  ASSUME TypeInv, OwnInv, AskedInv, JobsKept, JobNames,
         NEW w \in Workers, wk[w].pc \in Owning \ {"load"}, wk[w].st.req # NoRequest
  PROVE  HasText(NameOf[wk[w].st.req.task])
<1>1. wk[w].st.req \in Requests /\ wk[w].st.req.task = wk[w].req.task
  BY WorkerFields DEF TypeInv, TypeOK, AskedInv, StatesInPlace
<1>2. wk[w].req # NoRequest
  BY <1>1, NameAssumption DEF Requests, NoRequest
<1>3. /\ wk[w].job \in Jobs /\ job[wk[w].job] = wk[w].req
  BY <1>2 DEF OwnInv, OwnedTaken, JobsKept
<1>4. NameOf[wk[w].st.req.task] = wk[w].job.name
  BY <1>1, <1>2, <1>3 DEF JobNames
<1> QED
  BY <1>2, <1>3, <1>4 DEF HasText

(* What is in a job file stays there.                                      *)
LEMMA TextStays ==
  ASSUME TypeInv, JobsKept, [Next]_vars, NEW n, HasText(n)
  PROVE  HasText(n)'
<1>1. PICK j \in Jobs : j.name = n /\ job[j] # NoRequest
  BY DEF HasText
<1>2. UNCHANGED job \/ (RxCloseJob /\ job' = [job EXCEPT ![rx.job] = rx.req])
  BY DEF Next, vars, shared, ReceiverNext, Receive, Handle, WorkerNext, Step,
         Reject, Answer, Begin, RxOpenState, RxCloseState, RxOpenJob, RxCloseJob, RxReply, RxCrash,
         Glob, Claim, SkipJob, LoadState, OpenWorking, CloseWorking,
         ProcessFail, OpenResult, CloseResult, Archive, OpenFinal, CloseFinal, Reply, WorkerCrash
<1>3. job'[j] = job[j]
  BY <1>1, <1>2 DEF RxCloseJob, JobsKept, TypeInv, TypeOK, QueueTypeOK
<1> QED
  BY <1>1, <1>3 DEF HasText

LEMMA HasJobNext ==
  ASSUME TypeInv, [Next]_vars, NEW n, HasJob(n)
  PROVE  HasJob(n)'
BY PostedStays DEF HasJob

(* Only what was just handed over is told that was not told before.        *)
LEMMA ToldBy ==
  ASSUME NEW reply, Send(reply), NEW n, ToldAccepted(n)'
  PROVE  ToldAccepted(n) \/ (reply.status = "accepted" /\ NameOf[reply.task] = n)
BY DEF Send, ToldAccepted

(* What the names without a text may come to, and what one more costs.     *)
Spendable == 2 * rxCrashes + faults

Price(n) == IF HasJob(n) THEN 1 ELSE 2

TextlessNames == {n \in FileNames : Unqueued(n)}

JoblessNames == {n \in FileNames : Unqueued(n) /\ ~HasJob(n)}

QueuedInv == IsFiniteSet(TextlessNames) /\ QueuedBound

LEMMA SpendableFacts ==
  ASSUME TypeInv, TypeInv', [Next]_vars
  PROVE  /\ Spendable \in Nat /\ Spendable' \in Nat /\ Spendable <= Spendable'
         /\ Works /\ ~RxCrash => Spendable' = Spendable
         /\ Fails => Spendable' = Spendable + 1
         /\ RxCrash => Spendable' = Spendable + 2
<1>1. UNCHANGED rxCrashes \/ RxCrash
  BY DEF Next, vars, rxVars, ReceiverNext, Receive, Handle, Reject, Answer, Begin, RxOpenState,
         RxCloseState, RxOpenJob, RxCloseJob, RxReply
<1>2. RxCrash => rxCrashes' = rxCrashes + 1 /\ UNCHANGED faults
  BY DEF RxCrash, shared
<1>3. Fails => UNCHANGED rxCrashes /\ faults' = faults + 1
  BY <1>1, <1>2, LossCounts DEF Fails
<1> QED
  BY <1>1, <1>2, <1>3, LossCounts, FaultsGrow DEF Spendable, Works

LEMMA UntoldFacts == Untold \in {0, 1} /\ Untold' \in {0, 1}
BY DEF Untold

(* A step after which one name more is without a text, and pays for it.    *)
LEMMA OneUnqueued ==
  ASSUME TypeInv, TypeInv', [Next]_vars, QueuedInv, NEW k,
         Untold' + Spendable <= Untold + Spendable',
         \A n \in FileNames : Unqueued(n)' /\ ~Unqueued(n) =>
           n = k /\ Untold' + Spendable + Price(n)' <= Untold + Spendable'
  PROVE  QueuedInv'
<1> DEFINE T == Cardinality(TextlessNames)  J == Cardinality(JoblessNames)
           T2 == Cardinality(TextlessNames')  J2 == Cardinality(JoblessNames')
<1>1. JoblessNames \subseteq TextlessNames /\ JoblessNames' \subseteq TextlessNames'
  BY DEF JoblessNames, TextlessNames
<1>2. IsFiniteSet(JoblessNames) /\ T \in Nat /\ J \in Nat
  BY <1>1, FS_Subset, FS_CardinalityType DEF QueuedInv
<1>3. J + T + Untold <= Spendable
  BY DEF QueuedInv, QueuedBound, Spendable, TextlessNames, JoblessNames
<1>4. IsFiniteSet(TextlessNames') /\ T2 \in Nat /\ J2 \in Nat /\ J2 + T2 + Untold' <= Spendable'
  <2>1. \A n \in FileNames : ~HasJob(n)' => ~HasJob(n)
    BY HasJobNext
  <2>a. ASSUME IsFiniteSet(TextlessNames'), NEW c \in {0, 1}, NEW d \in {0, 1},
               T2 <= T + c, J2 <= J + d, Untold' + Spendable + (c + d) <= Untold + Spendable'
        PROVE  T2 \in Nat /\ J2 \in Nat /\ J2 + T2 + Untold' <= Spendable'
    <3>1. T2 \in Nat /\ J2 \in Nat
      BY <1>1, <2>a, FS_Subset, FS_CardinalityType
    <3> HIDE DEF T, J, T2, J2
    <3> QED
      BY <1>2, <1>3, <2>a, <3>1, SpendableFacts, UntoldFacts
  <2>2. CASE TextlessNames' \subseteq TextlessNames
    <3>1. JoblessNames' \subseteq JoblessNames
      BY <2>1, <2>2 DEF JoblessNames, TextlessNames
    <3>2. IsFiniteSet(TextlessNames') /\ T2 <= T /\ J2 <= J
      BY <1>2, <2>2, <3>1, FS_Subset DEF QueuedInv
    <3>3. T2 \in Nat /\ J2 \in Nat
      BY <1>1, <3>2, FS_Subset, FS_CardinalityType
    <3>4. T2 <= T + 0 /\ J2 <= J + 0
      <4> HIDE DEF T, J, T2, J2
      <4> QED
        BY <1>2, <3>2, <3>3
    <3> QED
      BY <2>a, <3>2, <3>4, SpendableFacts, UntoldFacts
  <2>3. CASE ~(TextlessNames' \subseteq TextlessNames)
    <3>1. PICK m \in FileNames : Unqueued(m)' /\ ~Unqueued(m)
      BY <2>3 DEF TextlessNames
    <3>2. m = k /\ Untold' + Spendable + Price(m)' <= Untold + Spendable'
      BY <3>1
    <3>3. TextlessNames' \subseteq TextlessNames \cup {m}
      BY <3>2 DEF TextlessNames
    <3>4. IsFiniteSet(TextlessNames') /\ T2 <= T + 1
      BY <3>3, OneMore DEF QueuedInv
    <3>5. CASE HasJob(m)'
      <4>1. JoblessNames' \subseteq JoblessNames
        BY <2>1, <3>2, <3>5 DEF JoblessNames
      <4>2. J2 <= J
        BY <1>2, <4>1, FS_Subset
      <4>3. J2 \in Nat
        BY <1>2, <4>1, FS_Subset, FS_CardinalityType
      <4>4. J2 <= J + 0
        <5> HIDE DEF J, J2
        <5> QED
          BY <1>2, <4>2, <4>3
      <4>5. Price(m)' = 1
        BY <3>5 DEF Price
      <4> QED
        BY <2>a, <3>2, <3>4, <4>4, <4>5
    <3>6. CASE ~HasJob(m)'
      <4>1. JoblessNames' \subseteq JoblessNames \cup {m}
        BY <2>1, <3>2 DEF JoblessNames
      <4>2. J2 <= J + 1
        BY <1>2, <4>1, OneMore
      <4>3. Price(m)' = 2
        BY <3>6 DEF Price
      <4> QED
        BY <2>a, <3>2, <3>4, <4>2, <4>3
    <3> QED
      BY <3>5, <3>6
  <2> QED
    BY <2>2, <2>3
<1>5. QueuedBound'
  BY <1>4 DEF QueuedBound, Spendable, TextlessNames, JoblessNames
<1> QED
  BY <1>4, <1>5 DEF QueuedInv

(* Only for the name it is at does the receiver leave a text out.          *)
LEMMA ReceiverQueues ==
  ASSUME TypeInv, TypeInv', AskedInv, JobsKept, JobNames, ReceiverNext, UNCHANGED wkVars
  PROVE  /\ Untold' + Spendable <= Untold + Spendable'
         /\ \A n \in FileNames : Unqueued(n)' /\ ~Unqueued(n) =>
              /\ n = NameOf[rx.req.task]
              /\ Untold' + Spendable + Price(n)' <= Untold + Spendable'
<1> DEFINE name == NameOf[rx.req.task]
           Goal == /\ Untold' + Spendable <= Untold + Spendable'
                   /\ \A n \in FileNames : Unqueued(n)' /\ ~Unqueued(n) =>
                        n = name /\ Untold' + Spendable + Price(n)' <= Untold + Spendable'
<1>n. [Next]_vars
  BY DEF Next
<1>t. /\ state \in [FileNames -> TaskStates \cup {Absent, Empty}]
      /\ job \in [Jobs -> Requests \cup {NoRequest}]
      /\ rx \in [pc : {"recv", "openState", "closeState", "openJob", "closeJob", "reply"},
                 req : Requests \cup {NoRequest}, status : {"accepted", "pending", "failed"},
                 job : Jobs \cup {NoJob}]
  BY DEF TypeInv, TypeOK, QueueTypeOK, RxTypeOK
<1>s. \A n \in FileNames : HasText(n) => HasText(n)'
  BY <1>n, TextStays
<1>p. \A n : Price(n)' \in {1, 2}
  BY DEF Price
<1>k. UNCHANGED sent => \A n \in FileNames : ToldAccepted(n)' => ToldAccepted(n)
  BY DEF ToldAccepted
<1>q. \A n \in FileNames : RxQueues(n) => n = name
  BY DEF RxQueues
\* What nobody adds to costs nothing.
<1>1. ASSUME \A n \in FileNames : Unqueued(n)' => Unqueued(n), Untold' + Spendable <= Untold + Spendable'
      PROVE  Goal
  BY <1>1
\* What is paid for in full may leave out the one name.
<1>2. ASSUME Untold' + Spendable + 2 <= Untold + Spendable',
             \A n \in FileNames : Unqueued(n)' => Unqueued(n) \/ n = name
      PROVE  Goal
  BY <1>2, <1>p, <1>n, SpendableFacts, UntoldFacts
<1> SUFFICES Goal
  OBVIOUS
<1> HIDE DEF Goal
<1>3. CASE Receive
  <2>1. PICK m \in Submits : Reject(m) \/ Answer(m) \/ Begin(m)
    BY <1>3 DEF Receive
  <2>2. UNCHANGED <<job, state>> /\ rx.pc = "recv"
    BY <2>1 DEF Reject, Answer, Begin
  <2>3. UNCHANGED rx \/ (rx'.pc = "openState" /\ rx'.status = "accepted")
    BY <2>1 DEF Reject, Answer, Begin, rxVars, RxIdle
  <2>4. Untold = 0 /\ Untold' = 0
    BY <2>2, <2>3 DEF Untold
  <2>5. \A n \in FileNames : ~RxQueues(n) /\ ~RxQueues(n)'
    BY <2>2, <2>3 DEF RxQueues
  <2>6. ASSUME NEW n \in FileNames, Unqueued(n)' PROVE Unqueued(n)
    <3>1. CASE ToldAccepted(n)' => ToldAccepted(n)
      BY <1>s, <2>2, <2>3, <2>5, <2>6, <3>1 DEF Unqueued
    <3>2. CASE ToldAccepted(n)' /\ ~ToldAccepted(n)
      <4>1. ~UNCHANGED sent
        BY <1>k, <3>2
      <4>2. ~Begin(m)
        BY <4>1 DEF Begin
      <4>3. ~Reject(m)
        <5> SUFFICES ASSUME Reject(m) PROVE FALSE
          OBVIOUS
        <5>1. Send(ReplyTo(Received(m), "failed"))
          BY DEF Reject
        <5>2. ReplyTo(Received(m), "failed").status = "failed"
          BY DEF ReplyTo
        <5> QED
          BY <3>2, <5>1, <5>2, ToldBy
      <4> DEFINE st == state[StateFile(Received(m).task)]
                 r == ReplyForState(st, Received(m).client)
      <4>4. Send(r) /\ st.req.task # Nil
        BY <2>1, <4>2, <4>3 DEF Answer, ReadTaskState
      <4>5. r.status = "accepted" /\ NameOf[r.task] = n
        BY <3>2, <4>4, ToldBy
      <4>6. st.status # "failed" /\ NameOf[st.req.task] = n
        BY <4>5 DEF ReplyForState, Terminal
      <4>7. StateFile(Received(m).task) \in FileNames
        <5>1. Received(m).task \in TaskIds
          <6>1. clock \in Nat /\ clock' \in 0 .. MaxClock /\ TakesReading(m)
            BY <2>1 DEF Reject, Answer, Begin, TypeInv, TypeOK, QueueTypeOK
          <6>2. Received(m) \in AskedBy(clock')
            BY <6>1, ReceivedAsked
          <6> QED
            BY <6>1, <6>2, AskedFacts
        <5> QED
          BY <5>1, NameAssumption DEF StateFile
      <4>8. st.req # NoRequest
        BY <4>4 DEF NoRequest
      <4>9. StateFile(Received(m).task) = n
        BY <4>6, <4>7, <4>8 DEF AskedInv, StatesInPlace
      <4>10. st = state[n]
        BY <4>9
      <4>11. state[n].req # NoRequest /\ state[n].status # "failed"
        BY <4>6, <4>8, <4>10
      <4> QED
        BY <1>s, <2>5, <2>6, <4>11 DEF Unqueued
    <3> QED
      BY <3>1, <3>2
  <2> QED
    BY <1>1, <1>n, <2>4, <2>6, SpendableFacts
<1>4. CASE RxOpenState
  <2>0. UNCHANGED <<job, sent>> /\ rx.pc = "openState"
    BY <1>4 DEF RxOpenState
  <2>1. CASE Works /\ OpenStateFile(rx.req.task) /\ rx' = [rx EXCEPT !.pc = "closeState"]
    <3>1. rx'.pc = "closeState" /\ rx'.req = rx.req /\ rx'.status = rx.status
      BY <1>t, <2>1
    <3>2. Untold' = Untold
      BY <2>0, <3>1 DEF Untold
    <3>3. \A n \in FileNames : state'[n] = IF n = name THEN Empty ELSE state[n]
      BY <1>t, <2>1 DEF OpenStateFile, StateFile
    <3>4. ASSUME NEW n \in FileNames, Unqueued(n)' PROVE Unqueued(n)
      <4>1. n = name => state'[n].req = NoRequest
        BY <3>3 DEF Empty
      <4>2. n # name => state'[n] = state[n] /\ ~RxQueues(n)
        BY <3>3, <1>q
      <4> QED
        BY <1>s, <1>k, <2>0, <3>1, <3>4, <4>1, <4>2 DEF Unqueued
    <3> QED
      BY <1>1, <1>n, <3>2, <3>4, SpendableFacts, UntoldFacts
  <2>2. CASE Fails /\ RxStateWritten(FALSE) /\ UNCHANGED state
    <3>1. rx'.pc = "reply" /\ rx'.req = rx.req /\ rx'.status = rx.status
      BY <1>t, <2>2 DEF RxStateWritten
    <3>2. Untold' = 0 /\ (rx.status = "failed" => Untold = 1)
      BY <2>0, <3>1 DEF Untold
    <3>3. \A n \in FileNames : Unqueued(n)' => Unqueued(n) \/ (n = name /\ RxQueues(n))
      BY <1>s, <1>k, <1>q, <2>0, <2>2, <3>1 DEF Unqueued
    <3>4. CASE rx.status = "failed"
      <4>1. Untold' + Spendable + 2 <= Untold + Spendable'
        BY <1>n, <2>2, <3>2, <3>4, SpendableFacts
      <4> QED
        BY <1>2, <3>3, <4>1
    <3>5. CASE rx.status # "failed"
      <4>1. \A n \in FileNames : ~RxQueues(n)
        BY <2>0, <3>5 DEF RxQueues
      <4> QED
        BY <1>1, <1>n, <2>2, <3>2, <3>3, <4>1, SpendableFacts, UntoldFacts
    <3> QED
      BY <3>4, <3>5
  <2> QED
    BY <1>4, <2>1, <2>2 DEF RxOpenState
<1>5. CASE RxCloseState
  <2> DEFINE st == [req |-> rx.req, status |-> rx.status]
  <2>0. UNCHANGED <<job, sent>> /\ rx.pc = "closeState"
    BY <1>5 DEF RxCloseState
  <2>r. \A ok \in BOOLEAN : RxStateWritten(ok) =>
          /\ rx'.req = rx.req /\ rx'.status = rx.status /\ rx'.pc \in {"openJob", "reply"}
          /\ ok /\ rx.status = "accepted" => rx'.pc = "openJob"
    BY <1>t DEF RxStateWritten
  <2>u. \A ok \in BOOLEAN : RxStateWritten(ok) => Untold' = 0
    BY <2>r DEF Untold
  <2>v. rx.status = "failed" => Untold = 1
    BY <2>0 DEF Untold
  <2>1. CASE Works /\ CloseStateFile(st) /\ RxStateWritten(TRUE)
    <3>1. \A n \in FileNames : state'[n] = IF n = name THEN st ELSE state[n]
      BY <1>t, <2>1 DEF CloseStateFile, StateFile
    <3>2. ASSUME NEW n \in FileNames, Unqueued(n)' PROVE Unqueued(n)
      <4>1. n # name => state'[n] = state[n] /\ ~RxQueues(n)
        BY <3>1, <1>q
      <4>2. n = name => state'[n].status = rx.status
        BY <3>1
      <4>3. n = name /\ rx.status = "accepted" => RxQueues(n)'
        BY <2>r, <2>1 DEF RxQueues
      <4>4. rx'.req = rx.req /\ rx'.status = rx.status
        BY <2>r, <2>1
      <4> QED
        BY <1>t, <1>s, <1>k, <2>0, <3>2, <4>1, <4>2, <4>3, <4>4 DEF Unqueued
    <3>3. Untold' = 0
      BY <2>1, <2>u
    <3>4. Untold' + Spendable <= Untold + Spendable'
      BY <1>n, <3>3, SpendableFacts, UntoldFacts
    <3> QED
      BY <1>1, <3>2, <3>4
  <2>2. CASE Fails /\ (\E ok \in BOOLEAN : RxStateWritten(ok)) /\ UNCHANGED state
    <3>1. rx'.req = rx.req /\ rx'.status = rx.status /\ Untold' = 0
      BY <2>2, <2>r, <2>u
    <3>3. \A n \in FileNames : Unqueued(n)' => Unqueued(n) \/ (n = name /\ RxQueues(n))
      BY <1>s, <1>k, <1>q, <2>0, <2>2, <3>1 DEF Unqueued
    <3>4. CASE rx.status = "failed"
      <4>1. Untold' + Spendable + 2 <= Untold + Spendable'
        BY <1>n, <2>2, <2>v, <3>1, <3>4, SpendableFacts
      <4> QED
        BY <1>2, <3>3, <4>1
    <3>5. CASE rx.status # "failed"
      <4>1. \A n \in FileNames : ~RxQueues(n)
        BY <2>0, <3>5 DEF RxQueues
      <4> QED
        BY <1>1, <1>n, <2>2, <3>1, <3>3, <4>1, SpendableFacts, UntoldFacts
    <3> QED
      BY <3>4, <3>5
  <2> QED
    BY <1>5, <2>1, <2>2 DEF RxCloseState
<1>6. CASE RxOpenJob
  <2>0. UNCHANGED <<job, state, sent>> /\ rx.pc = "openJob"
    BY <1>6 DEF RxOpenJob
  <2>u. Untold = 0
    BY <2>0 DEF Untold
  <2>1. \/ Works /\ rx'.pc = "closeJob" /\ rx'.req = rx.req /\ rx'.status = rx.status
        \/ Fails /\ rx'.pc = "openState" /\ rx'.req = rx.req /\ rx'.status = "failed"
    BY <1>t, <1>6 DEF RxOpenJob, RxJobWritten
  <2>2. \A n \in FileNames : RxQueues(n)' <=> RxQueues(n)
    BY <2>0, <2>1 DEF RxQueues
  <2>3. \A n \in FileNames : Unqueued(n)' => Unqueued(n)
    BY <1>s, <1>k, <2>0, <2>1, <2>2 DEF Unqueued
  <2>4. (Works /\ Untold' = 0) \/ Fails
    BY <2>1 DEF Untold
  <2> QED
    BY <1>1, <1>n, <2>u, <2>3, <2>4, SpendableFacts, UntoldFacts
<1>7. CASE RxCloseJob
  <2>0. UNCHANGED <<state, sent>> /\ rx.pc = "closeJob"
    BY <1>7 DEF RxCloseJob
  <2>u. Untold = 0
    BY <2>0 DEF Untold
  <2>j. rx.job \in Jobs /\ rx.job.name = name /\ rx.req # NoRequest
    BY <2>0 DEF JobsKept, JobNames
  <2>r. \A ok \in BOOLEAN : RxJobWritten(ok, NoJob) =>
          /\ rx'.pc = "openState" /\ rx'.req = rx.req
          /\ rx'.status = IF ok THEN "pending" ELSE "failed"
    BY <1>t DEF RxJobWritten
  <2>n. \A n \in FileNames : n # name => ~RxQueues(n) /\ ~RxQueues(n)'
    BY <1>q, <1>7, <2>r DEF RxQueues, RxCloseJob
  <2>1. CASE Works /\ job' = [job EXCEPT ![rx.job] = rx.req] /\ RxJobWritten(TRUE, NoJob)
    <3>a. job'[rx.job] = rx.req
      BY <1>t, <2>1, <2>j
    <3>1. \A n \in FileNames : n = name => HasText(n)'
      BY <2>j, <3>a DEF HasText
    <3>2. rx'.status = "pending" /\ rx'.req = rx.req /\ Untold' = 0
      BY <2>1, <2>r DEF Untold
    <3>3. \A n \in FileNames : Unqueued(n)' => Unqueued(n)
      BY <1>s, <1>k, <2>0, <2>n, <3>1, <3>2 DEF Unqueued
    <3> QED
      BY <1>1, <1>n, <2>u, <2>1, <3>2, <3>3, SpendableFacts
  <2>2. CASE Fails /\ RxJobWritten(TRUE, NoJob)
    <3>1. rx'.status = "pending" /\ rx'.req = rx.req /\ Untold' = 0
      BY <2>2, <2>r DEF Untold
    <3>2. UNCHANGED dir /\ Posted(rx.job)
      BY <1>7, <2>0 DEF RxCloseJob, JobsKept
    <3>3. \A n \in FileNames : n = name => Price(n)' = 1
      BY <2>j, <3>2 DEF Price, HasJob, Posted
    <3>4. \A n \in FileNames : Unqueued(n)' => Unqueued(n) \/ n = name
      BY <1>s, <1>k, <2>0, <2>n, <3>1 DEF Unqueued
    <3> QED
      BY <1>n, <2>u, <2>2, <3>1, <3>3, <3>4, SpendableFacts DEF Goal
  <2>3. CASE Fails /\ RxJobWritten(FALSE, NoJob)
    <3>1. rx'.pc = "openState" /\ rx'.status = "failed" /\ rx'.req = rx.req
      BY <2>3, <2>r
    <3>2. \A n \in FileNames : n = name => RxQueues(n)'
      BY <3>1 DEF RxQueues
    <3>3. \A n \in FileNames : Unqueued(n)' => Unqueued(n)
      BY <1>s, <1>k, <2>0, <2>n, <3>1, <3>2 DEF Unqueued
    <3> QED
      BY <1>1, <1>n, <2>u, <2>3, <3>3, SpendableFacts, UntoldFacts
  <2> QED
    BY <1>7, <2>1, <2>2, <2>3 DEF RxCloseJob
<1>8. CASE RxReply
  <2> DEFINE reply == ReplyTo(rx.req, IF rx.status = "pending" THEN "accepted" ELSE "failed")
  <2>1. /\ UNCHANGED <<job, state>> /\ rx.pc = "reply" /\ Send(reply)
        /\ rx'.pc = "recv" /\ rx'.status = "accepted"
        /\ reply.task = rx.req.task /\ (reply.status = "accepted" => rx.status = "pending")
    BY <1>8 DEF RxReply, RxIdle, ReplyTo
  <2> HIDE DEF reply
  <2>2. Untold = 0 /\ Untold' = 0 /\ \A n \in FileNames : ~RxQueues(n) /\ ~RxQueues(n)'
    BY <2>1 DEF Untold, RxQueues
  <2>3. \A n \in FileNames :
          ToldAccepted(n)' => ToldAccepted(n) \/ (n = name /\ rx.status = "pending")
    BY <2>1, ToldBy
  <2>4. \A n \in FileNames : Unqueued(n)' => Unqueued(n)
    BY <1>s, <2>1, <2>2, <2>3 DEF Unqueued
  <2> QED
    BY <1>1, <1>n, <2>2, <2>4, SpendableFacts
<1>9. CASE RxCrash
  <2>1. UNCHANGED <<job, state, sent>> /\ rx'.pc = "recv" /\ rx'.status = "accepted"
    BY <1>9 DEF RxCrash, shared, RxIdle
  <2>2. Untold' = 0
    BY <2>1 DEF Untold
  <2>3. \A n \in FileNames : Unqueued(n)' => Unqueued(n) \/ n = name
    BY <1>s, <1>k, <1>q, <2>1 DEF Unqueued
  <2>4. Untold' + Spendable + 2 <= Untold + Spendable'
    BY <1>n, <1>9, <2>2, SpendableFacts, UntoldFacts
  <2> QED
    BY <1>2, <2>3, <2>4
<1> QED
  BY <1>3, <1>4, <1>5, <1>6, <1>7, <1>8, <1>9 DEF ReceiverNext, Handle

(* A worker writes states of tasks that have their text, and accepts       *)
(* nothing.                                                                *)
LEMMA WorkerQueues ==
  ASSUME TypeInv, TypeInv', OwnInv, AskedInv, JobsKept, JobNames,
         NEW w \in Workers, Step(w) \/ WorkerCrash(w), UNCHANGED rxVars,
         NEW n \in FileNames, Unqueued(n)'
  PROVE  Unqueued(n)
<1>n. [Next]_vars
  BY DEF Next, WorkerNext
<1>t. UNCHANGED rx /\ state \in [FileNames -> TaskStates \cup {Absent, Empty}]
  BY DEF rxVars, TypeInv, TypeOK, QueueTypeOK
<1>s. ~HasText(n)
  BY <1>n, TextStays DEF Unqueued
<1>k. UNCHANGED sent => (ToldAccepted(n)' => ToldAccepted(n))
  BY DEF ToldAccepted
<1>1. ASSUME ToldAccepted(n)' => ToldAccepted(n),
             state'[n] = state[n] \/ state'[n].req = NoRequest
      PROVE  Unqueued(n)
  BY <1>1, <1>t, <1>s DEF Unqueued, RxQueues
<1>2. CASE OpenWorking(w) \/ OpenFinal(w)
  <2>1. UNCHANGED sent /\ (UNCHANGED state \/ OpenStateFile(wk[w].st.req.task))
    BY <1>2 DEF OpenWorking, OpenFinal, OpenState
  <2>2. state'[n] = state[n] \/ state'[n].req = NoRequest
    BY <1>t, <2>1 DEF OpenStateFile, Empty
  <2> QED
    BY <1>1, <1>k, <2>1, <2>2
<1>3. CASE CloseWorking(w) \/ CloseFinal(w)
  <2>1. /\ UNCHANGED sent /\ (UNCHANGED state \/ CloseStateFile(wk[w].st))
        /\ wk[w].pc \in Owning \ {"load"}
    BY <1>3 DEF CloseWorking, CloseFinal, CloseState, Owning, Leasing
  <2>2. state'[n] = state[n] \/ (n = NameOf[wk[w].st.req.task] /\ state'[n] = wk[w].st)
    BY <1>t, <2>1 DEF CloseStateFile, StateFile
  <2>3. state'[n] = state[n] \/ state'[n].req = NoRequest
    BY <1>s, <2>1, <2>2, WorkerHasText
  <2> QED
    BY <1>1, <1>k, <2>1, <2>3
<1>4. CASE Reply(w)
  <2> DEFINE reply == [to |-> wk[w].st.req.client, task |-> wk[w].req.task,
                       result |-> wk[w].req.result, status |-> wk[w].st.status]
  <2>1. Send(reply) /\ UNCHANGED state /\ reply.status # "accepted"
    BY <1>4 DEF Reply, TypeInv, OutcomeKnown, Terminal
  <2> HIDE DEF reply
  <2> QED
    BY <1>1, <2>1, ToldBy
<1>5. CASE ~OpenWorking(w) /\ ~CloseWorking(w) /\ ~OpenFinal(w) /\ ~CloseFinal(w) /\ ~Reply(w)
  <2>1. UNCHANGED <<state, sent>>
    BY <1>5 DEF Step, shared, Glob, Claim, SkipJob, LoadState, ProcessFail, OpenResult,
       CloseResult, Archive, WorkerCrash
  <2> QED
    BY <1>1, <1>k, <2>1
<1> QED
  BY <1>2, <1>3, <1>4, <1>5

LEMMA QueuedStep ==
  ASSUME TypeInv, TypeInv', OwnInv, AskedInv, JobsKept, JobNames, QueuedInv, [Next]_vars
  PROVE  QueuedInv'
<1>1. CASE ReceiverNext /\ UNCHANGED wkVars
  BY <1>1, ReceiverQueues, OneUnqueued
<1>2. ASSUME \A n \in FileNames : Unqueued(n)' => Unqueued(n), UNCHANGED rxVars PROVE QueuedInv'
  <2>1. Untold' = Untold
    BY <1>2 DEF rxVars, Untold
  <2> QED
    BY <1>2, <2>1, SpendableFacts, UntoldFacts, OneUnqueued
<1>3. CASE WorkerNext /\ UNCHANGED rxVars
  BY <1>2, <1>3, WorkerQueues DEF WorkerNext
<1>4. CASE UNCHANGED vars
  <2>1. \A n \in FileNames : Unqueued(n)' <=> Unqueued(n)
    BY <1>4 DEF vars, shared, rxVars, Unqueued, HasText, ToldAccepted, RxQueues
  <2> QED
    BY <1>2, <1>4, <2>1 DEF vars
<1> QED
  BY <1>1, <1>3, <1>4 DEF Next

LEMMA InitQueued == Init => JobsKept /\ JobNames /\ QueuedInv
<1> SUFFICES ASSUME Init PROVE JobsKept /\ JobNames /\ QueuedInv
  OBVIOUS
<1>1. JobsKept /\ JobNames
  BY DEF Init, QueueInit, RxInit, WkInit, RxIdle, WkIdle, JobsKept, JobNames, Owning, Leasing
<1>2. TextlessNames = {} /\ JoblessNames = {} /\ Untold = 0
  BY DEF Init, QueueInit, RxInit, RxIdle, Absent, TextlessNames, JoblessNames, Unqueued,
         ToldAccepted, Untold
<1>3. QueuedBound
  BY <1>2, FS_EmptySet DEF Init, QueueInit, RxInit, QueuedBound, TextlessNames, JoblessNames
<1> QED
  BY <1>1, <1>2, <1>3, FS_EmptySet DEF QueuedInv

LEMMA BoundFollows ==
  ASSUME TypeInv, JobsKept, QueuedInv
  PROVE  UnqueuedBound
<1> DEFINE A == {n \in FileNames : ToldAccepted(n) /\ ~HasJob(n)}
           B == {n \in FileNames : ToldAccepted(n) /\ ~HasText(n)}
<1>1. A \subseteq JoblessNames /\ B \subseteq TextlessNames /\ JoblessNames \subseteq TextlessNames
  BY DEF JobsKept, HasJob, HasText, JoblessNames, TextlessNames, Unqueued
<1>2. IsFiniteSet(TextlessNames) /\ IsFiniteSet(JoblessNames) /\ IsFiniteSet(A) /\ IsFiniteSet(B)
  BY <1>1, FS_Subset DEF QueuedInv
<1>3. Cardinality(A) <= Cardinality(JoblessNames) /\ Cardinality(B) <= Cardinality(TextlessNames)
  BY <1>1, <1>2, FS_Subset
<1>4. /\ Cardinality(A) \in Nat /\ Cardinality(JoblessNames) \in Nat
      /\ Cardinality(B) \in Nat /\ Cardinality(TextlessNames) \in Nat
  BY <1>2, FS_CardinalityType
<1>5. Cardinality(JoblessNames) + Cardinality(TextlessNames) + Untold <= Spendable
  BY DEF QueuedInv, QueuedBound, Spendable, TextlessNames, JoblessNames
<1>6. Spendable \in Nat
  BY LossCounts DEF Spendable
<1>7. Cardinality(A) + Cardinality(B) <= Spendable
  <2> HIDE DEF A, B
  <2> QED
    BY <1>3, <1>4, <1>5, <1>6, UntoldFacts
<1> QED
  BY <1>7 DEF UnqueuedBound, Spendable

(* Where names tell tasks apart, each task that a client was told is       *)
(* accepted, and that has no job, has cost the kill of the receiver or two *)
(* failed file operations, and each the job of which is empty a kill or one*)
(* failure, whatever the workers do and however often they are killed.     *)
THEOREM AcceptedIsAlmostQueued ==
  ASSUME NamesApart PROVE Spec => []UnqueuedBound
<1>1. Inv /\ Inv' /\ AskedInv /\ JobsKept /\ JobNames /\ QueuedInv /\ [Next]_vars
        => (JobsKept /\ JobNames /\ QueuedInv)'
  BY JobsKeptStep, JobNamesStep, QueuedStep DEF Inv, OwnInv
<1>2. Inv /\ JobsKept /\ QueuedInv => UnqueuedBound
  BY BoundFollows DEF Inv
<1>3. Inv /\ AskedInv /\ [Next]_vars => AskedInv'
  BY AskedStep DEF Inv
<1> QED
  BY <1>1, <1>2, <1>3, Invariance, InitAsked, InitQueued, PTL DEF Spec

=============================================================================
