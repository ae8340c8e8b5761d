--------------------------- MODULE EndToEndProofs ---------------------------
(***************************************************************************)
(* What the theorems about the service and about the client say of both    *)
(* together.                                                               *)
(***************************************************************************)
EXTENDS EndToEnd, TaskQueueProofs, CallerClientProofs

-----------------------------------------------------------------------------
(* A step of the whole is a step of the service or leaves it alone.        *)
LEMMA ServiceStep ==
  ASSUME SubmittedKnown, [EndToEndNext]_allVars
  PROVE  [Next]_vars
<1>1. CASE ServiceNext
  <2>1. CASE ReceiveSubmitted /\ UNCHANGED wkVars
    <3>1. Receive
      BY <2>1 DEF ReceiveSubmitted, Receive, SubmittedKnown
    <3> QED
      BY <2>1, <3>1 DEF Next, ReceiverNext
  <2>2. CASE (Handle \/ RxCrash) /\ UNCHANGED wkVars
    BY <2>2 DEF Next, ReceiverNext
  <2>3. CASE (\E w \in Workers : (Step(w) /\ Process(w)) \/ WorkerCrash(w)) /\ UNCHANGED rxVars
    BY <2>3 DEF Next, WorkerNext
  <2> QED
    BY <1>1, <2>1, <2>2, <2>3 DEF ServiceNext
<1>2. CASE UNCHANGED vars
  BY <1>2
<1> QED
  BY <1>1, <1>2 DEF EndToEndNext, allVars

(* What a call submits is among the datagrams the receiver may get.        *)
LEMMA CallSubmitsKnown ==
  ASSUME ClientInv, SubmittedKnown, CallNext
  PROVE  SubmittedKnown'
<1>1. PICK c \in Calls : CallStep(c) \/ Kill(c)
  BY DEF CallNext
<1>2. CASE SendAll(c)
  <2>1. RequestPath(c) \in Paths /\ ResultPath(c) \in Paths
    BY <1>2 DEF SendAll, ClientInv, Validated, Sockets
  <2>2. Datagram(c) \in Submits
    BY <2>1, DatagramAssumption, PathAssumption
  <2> QED
    BY <1>2, <2>2 DEF SendAll, SubmittedKnown
<1>3. CASE ~SendAll(c)
  BY <1>1, <1>3 DEF CallStep, Refuse, Start, OpenRequest, CloseRequest, Bind, Pass, TakeReply,
                    ReplyTimeout, TakeDone, DoneTimedOut, Conclude, Kill, SubmittedKnown
<1> QED
  BY <1>2, <1>3

LEMMA EndToEndInvStep ==
  EndToEndInv /\ [EndToEndNext]_allVars => EndToEndInv'
<1> SUFFICES ASSUME EndToEndInv, [EndToEndNext]_allVars PROVE EndToEndInv'
  OBVIOUS
<1> USE DEF EndToEndInv
<1>1. TypeInv'
  BY ServiceStep, TypeInvStep
<1>2. sent' \subseteq Replies /\ result' \in [Paths -> ResultTexts]
  BY <1>1 DEF TypeInv, TypeOK, QueueTypeOK
<1>3. CASE UNCHANGED callVars
  BY <1>1, <1>2, <1>3, ElsewhereInv DEF SubmittedKnown, callVars
<1>4. CASE CallNext /\ UNCHANGED vars
  <2>1. UNCHANGED <<result, sent>>
    BY <1>4 DEF vars, shared
  <2>2. ClientInv'
    BY <1>4, <2>1, CallStepInv DEF CallNext
  <2> QED
    BY <1>1, <1>4, <2>2, CallSubmitsKnown
<1> QED
  BY <1>3, <1>4 DEF EndToEndNext, allVars

LEMMA EndToEndStart == EndToEndInit => EndToEndInv
<1> SUFFICES ASSUME EndToEndInit PROVE EndToEndInv
  OBVIOUS
<1>1. TypeInv
  BY InitTypeInv DEF EndToEndInit
<1>2. ClientInv
  BY ClientInit DEF EndToEndInit, Init
<1>3. SubmittedKnown
  BY DEF EndToEndInit, CallInit, SubmittedKnown
<1> QED
  BY <1>1, <1>2, <1>3 DEF EndToEndInv

-----------------------------------------------------------------------------
(* The types of both sides, the account of the waits, and what may be      *)
(* submitted, together.                                                    *)
THEOREM EndToEndInvariance == EndToEndSpec => []EndToEndInv
BY EndToEndStart, EndToEndInvStep, PTL DEF EndToEndSpec

(* The service among its clients is the service of TaskQueue: what was     *)
(* proved of it for any datagrams holds for those the client library sends.*)
THEOREM ServiceImplemented == EndToEndSpec => Spec
<1>1. EndToEndInit => Init
  BY DEF EndToEndInit
<1>2. EndToEndInv /\ [EndToEndNext]_allVars => [Next]_vars
  BY ServiceStep DEF EndToEndInv
<1> QED
  BY <1>1, <1>2, EndToEndInvariance, PTL DEF EndToEndSpec, Spec

(* However clients submit and resubmit, no two workers ever process the    *)
(* same job.                                                               *)
THEOREM OwnersStayExclusive == EndToEndSpec => []OneOwner
BY ServiceImplemented, ExclusiveOwner, PTL

(* With the real service at the other end, too, the waits are bounded.     *)
THEOREM WaitsStayBounded == EndToEndSpec => []CallBound
<1>1. EndToEndInv => CallBound
  BY AccountBounds DEF EndToEndInv
<1> QED
  BY <1>1, EndToEndInvariance, PTL

=============================================================================
