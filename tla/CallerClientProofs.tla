------------------------- MODULE CallerClientProofs -------------------------
(***************************************************************************)
(* Theorems about CallerClient, for any calls, configurations, timeouts,   *)
(* retries, and whatever may come to the reply ports.                      *)
(***************************************************************************)
EXTENDS CallerClient, TLAPS

-----------------------------------------------------------------------------
(* One more attempt allows for one more wait.                              *)
LEMMA NextAllowance ==
  ASSUME NEW n \in Nat
  PROVE  /\ Allowance(n) \in Nat
         /\ Allowance(n + 1) = Allowance(n) + AcceptedTimeout
BY TimeoutAssumption DEF Allowance

(* Fewer attempts do not allow for more.                                   *)
LEMMA AllowanceGrows ==
  ASSUME NEW n \in Nat, NEW m \in Nat, n <= m
  PROVE  Allowance(n) <= Allowance(m)
<1>1. PICK d \in Nat : m = n + d
  <2>1. m - n \in Nat /\ m = n + (m - n)
    OBVIOUS
  <2> QED
    BY <2>1
<1>2. d * AcceptedTimeout \in Nat /\ n * AcceptedTimeout \in Nat
  BY TimeoutAssumption
<1>3. (n + d) * AcceptedTimeout = n * AcceptedTimeout + d * AcceptedTimeout
  BY TimeoutAssumption
<1> QED
  BY <1>1, <1>2, <1>3 DEF Allowance

LEMMA ConfigType ==
  ASSUME NEW c \in Calls
  PROVE  /\ Task(c) \in TaskIds /\ Config[c].at \in Addresses
         /\ Config[c].template \in Templates
         /\ RequestPath(c) \in Paths \cup {Nil}
         /\ ResultPath(c) \in Paths \cup {Nil}
<1>1. /\ Config[c].task \in TaskIds /\ Config[c].at \in Addresses
      /\ Config[c].template \in Templates
      /\ Config[c].request \in RawPaths /\ Config[c].result \in RawPaths
  BY CallAssumption
<1>2. NameOf[Task(c)] \in FileNames
  BY <1>1, NameAssumption DEF Task
<1> QED
  BY <1>1, <1>2, CallAssumption, PathAssumption DEF Task, RequestPath, ResultPath

LEMMA CallFields ==
  ASSUME NEW k \in CallStates
  PROVE  /\ k.attempt \in 0 .. Retries + 1 /\ k.left \in Nat /\ k.waited \in Nat
         /\ k.attempt \in Nat
         /\ k.path \in Paths \cup {Nil} /\ k.read \in ResultTexts
         /\ k.outcome \in Outcomes
         /\ k.status \in {"none", "accepted", "success", "failed", "other"}
BY TimeoutAssumption DEF CallStates

(* A reply a call may take.                                                *)
LEMMA HeardType ==
  ASSUME ClientTypeOK, NEW c \in Calls, NEW r \in Heard(c)
  PROVE  /\ r.result \in Paths \cup {Nil}
         /\ r.status \in {"accepted", "success", "failed", "other"}
BY ForeignAssumption DEF Heard, ClientTypeOK, Replies

(* A step that changes one call, and keeps the files and counts in type.   *)
LEMMA BecomeInv ==
  ASSUME ClientInv, UNCHANGED <<result, sent>>, NEW c \in Calls,
         NEW k \in CallStates, Become(c, k), Accounted(k), Validated(c, k),
         request' \in [Paths -> RequestTexts],
         submitted' \subseteq [task : TaskIds, input : Paths, result : Paths,
                               reply : Addresses, peer : Addresses],
         callFaults' \in 0 .. MaxCallFaults
  PROVE  ClientInv'
<1>1. call \in [Calls -> CallStates]
  BY DEF ClientInv, ClientTypeOK, CallTypeOK
<1>2. /\ call' \in [Calls -> CallStates] /\ call'[c] = k
      /\ \A d \in Calls \ {c} : call'[d] = call[d]
  BY <1>1 DEF Become
<1>3. ClientTypeOK'
  BY <1>2 DEF ClientInv, ClientTypeOK, CallTypeOK
<1>4. \A d \in Calls : Accounted(call[d])' /\ Validated(d, call[d])'
  BY <1>2 DEF ClientInv, Accounted, Validated, Allowance, RequestPath, ResultPath, Task
<1> QED
  BY <1>3, <1>4 DEF ClientInv

-----------------------------------------------------------------------------
LEMMA ClientInit ==
  QueueInit /\ CallInit => ClientInv
<1> SUFFICES ASSUME QueueInit, CallInit PROVE ClientInv
  OBVIOUS
<1>1. Fresh \in CallStates
  BY TimeoutAssumption DEF Fresh, CallStates, Outcomes, ResultTexts
<1>2. ClientTypeOK
  BY <1>1, CallAssumption
     DEF ClientTypeOK, CallTypeOK, QueueInit, CallInit, RequestTexts, ResultTexts
<1>3. Accounted(Fresh) /\ \A c \in Calls : Validated(c, Fresh)
  BY DEF Fresh, Accounted, Validated, Sockets
<1> QED
  BY <1>2, <1>3 DEF CallInit, ClientInv

(* Every step of a call keeps the account of its waits and its paths.      *)
LEMMA CallStepInv ==
  ASSUME ClientInv, NEW c \in Calls, CallStep(c) \/ Kill(c), UNCHANGED <<result, sent>>
  PROVE  ClientInv'
<1> DEFINE k == call[c]
<1>0. /\ call \in [Calls -> CallStates] /\ k \in CallStates
      /\ Accounted(k) /\ Validated(c, k)
      /\ request \in [Paths -> RequestTexts]
      /\ submitted \subseteq [task : TaskIds, input : Paths, result : Paths,
                              reply : Addresses, peer : Addresses]
      /\ callFaults \in 0 .. MaxCallFaults
  BY DEF ClientInv, ClientTypeOK, CallTypeOK
<1>a. CallWorks \/ CallFails \/ UNCHANGED callFaults => callFaults' \in 0 .. MaxCallFaults
  BY <1>0, CallAssumption DEF CallWorks, CallFails
<1>b. /\ k.attempt \in 0 .. Retries + 1 /\ k.attempt \in Nat /\ k.left \in Nat /\ k.waited \in Nat
      /\ k.path \in Paths \cup {Nil} /\ k.outcome \in Outcomes /\ k.read \in ResultTexts
      /\ k.status \in {"none", "accepted", "success", "failed", "other"}
      /\ Allowance(k.attempt) \in Nat
      /\ Allowance(k.attempt + 1) = Allowance(k.attempt) + AcceptedTimeout
      /\ AcceptedTimeout \in Nat /\ DoneTimeout \in Nat /\ Retries \in Nat
  BY <1>0, CallFields, NextAllowance, TimeoutAssumption
<1> HIDE DEF k
<1>c. k.pc \in {"start", "openRequest", "closeRequest", "bind", "send", "conclude"}
        => k.left = 0 /\ k.waited <= Allowance(k.attempt) + DoneTimeout
  BY <1>0, <1>b DEF Accounted
<1>d. ASSUME NEW o \in Outcomes, End(c, o),
             k.pc \in {"start", "openRequest", "closeRequest", "bind", "send", "conclude"},
             CallWorks \/ CallFails \/ UNCHANGED callFaults, UNCHANGED <<request, submitted>>
      PROVE  ClientInv'
  <2> DEFINE v == [k EXCEPT !.pc = "over", !.outcome = o]
  <2>1. Become(c, v)
    BY <1>d DEF End, k
  <2>2. v \in CallStates
    BY <1>0 DEF CallStates
  <2>3. Accounted(v) /\ Validated(c, v)
    BY <1>0, <1>b, <1>c, <1>d DEF CallStates, Accounted, Validated, Sockets
  <2> QED
    BY <1>0, <1>a, <1>d, <2>1, <2>2, <2>3, BecomeInv
<1>1. CASE Refuse(c)
  BY <1>1, <1>d DEF Refuse, Outcomes, k
<1>2. CASE Start(c)
  <2> DEFINE v == [k EXCEPT !.pc = "openRequest", !.path = ResultPath(c)]
  <2>1. k.pc = "start" /\ Become(c, v)
    BY <1>2 DEF Start, k
  <2>2. RequestPath(c) \in Paths /\ ResultPath(c) \in Paths /\ Config[c].template # "none"
    BY <1>2, ConfigType DEF Start
  <2>3. v \in CallStates
    BY <1>0, <2>2 DEF CallStates
  <2>4. Accounted(v) /\ Validated(c, v)
    BY <1>0, <1>b, <2>1, <2>2 DEF CallStates, Accounted, Validated, Sockets
  <2> QED
    BY <1>0, <1>2, <1>a, <2>1, <2>3, <2>4, BecomeInv DEF Start
<1>3. CASE OpenRequest(c)
  <2>1. k.pc = "openRequest" /\ RequestPath(c) \in Paths /\ UNCHANGED submitted
    BY <1>0, <1>3 DEF OpenRequest, Validated, k
  <2>2. CASE CallFails /\ End(c, "write") /\ UNCHANGED request
    BY <1>d, <2>1, <2>2 DEF Outcomes
  <2>3. CASE /\ CallWorks
             /\ request' = [request EXCEPT ![RequestPath(c)] = "empty"]
             /\ CallGoto(c, "closeRequest")
    <3> DEFINE v == [k EXCEPT !.pc = "closeRequest"]
    <3>1. Become(c, v)
      BY <2>3 DEF CallGoto, k
    <3>2. v \in CallStates
      BY <1>0 DEF CallStates
    <3>3. Accounted(v) /\ Validated(c, v)
      BY <1>0, <1>b, <2>1 DEF CallStates, Accounted, Validated, Sockets
    <3>4. request' \in [Paths -> RequestTexts]
      BY <1>0, <2>1, <2>3 DEF RequestTexts
    <3> QED
      BY <1>0, <1>a, <2>1, <2>3, <3>1, <3>2, <3>3, <3>4, BecomeInv
  <2> QED
    BY <1>3, <2>2, <2>3 DEF OpenRequest
<1>4. CASE CloseRequest(c)
  <2>1. k.pc = "closeRequest" /\ RequestPath(c) \in Paths /\ UNCHANGED submitted
    BY <1>0, <1>4 DEF CloseRequest, Validated, k
  <2>2. CASE CallFails /\ End(c, "write") /\ UNCHANGED request
    BY <1>d, <2>1, <2>2 DEF Outcomes
  <2>3. ASSUME CallGoto(c, "bind"), CallWorks \/ CallFails,
               request' \in [Paths -> RequestTexts]
        PROVE  ClientInv'
    <3> DEFINE v == [k EXCEPT !.pc = "bind"]
    <3>1. Become(c, v)
      BY <2>3 DEF CallGoto, k
    <3>2. v \in CallStates
      BY <1>0 DEF CallStates
    <3>3. Accounted(v) /\ Validated(c, v)
      BY <1>0, <1>b, <2>1 DEF CallStates, Accounted, Validated, Sockets
    <3> QED
      BY <1>0, <1>a, <2>1, <2>3, <3>1, <3>2, <3>3, BecomeInv
  <2>4. CASE /\ CallWorks
             /\ request' = [request EXCEPT ![RequestPath(c)] = Config[c].template]
             /\ CallGoto(c, "bind")
    <3>1. Config[c].template \in RequestTexts
      BY <1>0, <2>1, ConfigType DEF Validated, Templates, RequestTexts
    <3> QED
      BY <1>0, <2>1, <2>3, <2>4, <3>1
  <2>5. CASE CallFails /\ CallGoto(c, "bind") /\ UNCHANGED request
    BY <1>0, <2>3, <2>5
  <2> QED
    BY <1>4, <2>2, <2>4, <2>5 DEF CloseRequest
<1>5. CASE Bind(c)
  <2>1. k.pc = "bind" /\ UNCHANGED <<request, submitted>>
    BY <1>5 DEF Bind, k
  <2>2. CASE (CallWorks \/ CallFails) /\ End(c, "bind")
    BY <1>d, <2>1, <2>2 DEF Outcomes
  <2>3. CASE CallWorks /\ CallGoto(c, "send")
    <3> DEFINE v == [k EXCEPT !.pc = "send"]
    <3>1. Become(c, v)
      BY <2>3 DEF CallGoto, k
    <3>2. v \in CallStates
      BY <1>0 DEF CallStates, Sockets
    <3>3. Accounted(v) /\ Validated(c, v)
      BY <1>0, <1>b, <2>1 DEF CallStates, Accounted, Validated, Sockets
    <3> QED
      BY <1>0, <1>a, <2>1, <2>3, <3>1, <3>2, <3>3, BecomeInv
  <2> QED
    BY <1>5, <2>2, <2>3 DEF Bind
<1>6. CASE SendAll(c)
  <2>1. /\ k.pc = "send" /\ k.attempt <= Retries /\ UNCHANGED request
        /\ RequestPath(c) \in Paths /\ ResultPath(c) \in Paths /\ k.path \in Paths
        /\ k.waited <= Allowance(k.attempt)
    BY <1>0, <1>6 DEF SendAll, Validated, Accounted, Sockets, k
  <2>2. CASE CallFails /\ End(c, "sendto") /\ UNCHANGED submitted
    BY <1>d, <2>1, <2>2 DEF Outcomes
  <2>3. CASE /\ CallWorks
             /\ submitted' = submitted \cup {Datagram(c)}
             /\ Become(c, [k EXCEPT !.pc = "waitReply", !.attempt = k.attempt + 1,
                                    !.left = AcceptedTimeout])
    <3> DEFINE v == [k EXCEPT !.pc = "waitReply", !.attempt = k.attempt + 1,
                              !.left = AcceptedTimeout]
    <3>0. k.attempt + 1 \in 0 .. Retries + 1 /\ AcceptedTimeout \in Nat
      BY <1>b, <2>1
    <3>1. v \in CallStates
      BY <1>0, <3>0 DEF CallStates, Sockets
    <3>2. Accounted(v) /\ Validated(c, v)
      BY <1>0, <1>b, <2>1 DEF CallStates, Accounted, Validated, Sockets
    <3>3. submitted' \subseteq [task : TaskIds, input : Paths, result : Paths,
                                reply : Addresses, peer : Addresses]
      BY <1>0, <2>1, <2>3, ConfigType DEF Datagram
    <3> QED
      BY <1>0, <1>a, <2>1, <2>3, <3>1, <3>2, <3>3, BecomeInv
  <2> QED
    BY <1>6, <2>2, <2>3 DEF SendAll, k
<1>7. CASE Pass(c)
  <2> DEFINE v == [k EXCEPT !.left = k.left - 1, !.waited = k.waited + 1]
  <2>1. k.pc \in {"waitReply", "waitDone"} /\ k.left > 0 /\ Become(c, v)
    BY <1>7 DEF Pass, Waiting, k
  <2>0. k.left - 1 \in Nat /\ k.waited + 1 \in Nat
    BY <1>b, <2>1
  <2>2. v \in CallStates
    BY <1>0, <2>0 DEF CallStates
  <2>3. Accounted(v) /\ Validated(c, v)
    <3>1. /\ v.pc = k.pc /\ v.attempt = k.attempt /\ v.path = k.path
          /\ v.left = k.left - 1 /\ v.waited = k.waited + 1
      BY <1>0 DEF CallStates
    <3>2. v.waited + v.left = k.waited + k.left
      BY <1>b, <3>1
    <3> HIDE DEF v
    <3> QED
      BY <1>0, <2>1, <3>1, <3>2 DEF Accounted, Validated
  <2> QED
    BY <1>0, <1>7, <1>a, <2>1, <2>2, <2>3, BecomeInv DEF Pass
<1>8. ASSUME NEW path \in Paths, k.pc = "waitReply", Retry(c, path),
             CallWorks \/ CallFails \/ UNCHANGED callFaults, UNCHANGED <<request, submitted>>
      PROVE  ClientInv'
  <2> DEFINE more == k.attempt <= Retries
             v == [k EXCEPT !.path = path, !.left = 0,
                            !.pc = IF more THEN "send" ELSE "over",
                            !.outcome = IF more THEN "none" ELSE "noReply"]
  <2>1. Become(c, v)
    BY <1>8 DEF Retry, k
  <2>2. v \in CallStates
    BY <1>0, <1>b DEF CallStates, Outcomes, Sockets
  <2>3. Accounted(v) /\ Validated(c, v)
    BY <1>0, <1>b, <1>8 DEF CallStates, Accounted, Validated, Sockets
  <2> QED
    BY <1>0, <1>8, <1>a, <2>1, <2>2, <2>3, BecomeInv
<1>9. ASSUME NEW r \in Heard(c), k.pc \in {"waitReply", "waitDone"} PROVE PathOf(c, r) \in Paths
  BY <1>0, <1>9, HeardType DEF ClientInv, PathOf, Validated, Sockets, k
<1>10. ASSUME NEW r \in Heard(c), k.pc \in {"waitReply", "waitDone"},
              Become(c, [k EXCEPT !.pc = "conclude", !.left = 0,
                                  !.path = PathOf(c, r), !.status = r.status]),
              UNCHANGED <<request, submitted, callFaults>>
       PROVE  ClientInv'
  <2> DEFINE v == [k EXCEPT !.pc = "conclude", !.left = 0,
                            !.path = PathOf(c, r), !.status = r.status]
  <2>1. PathOf(c, r) \in Paths /\ r.status \in {"accepted", "success", "failed", "other"}
    BY <1>9, <1>10, HeardType DEF ClientInv
  <2>2. v \in CallStates
    BY <1>0, <1>b, <2>1 DEF CallStates
  <2>3. Accounted(v) /\ Validated(c, v)
    BY <1>0, <1>b, <1>10, <2>1 DEF CallStates, Accounted, Validated, Sockets
  <2> QED
    BY <1>0, <1>10, <1>a, <2>2, <2>3, BecomeInv
<1>11. CASE TakeReply(c)
  <2>1. k.pc = "waitReply" /\ UNCHANGED <<request, submitted, callFaults>>
    BY <1>11 DEF TakeReply, k
  <2>2. PICK r \in Heard(c) :
          \/ Become(c, [k EXCEPT !.pc = "waitDone", !.left = DoneTimeout,
                                 !.path = PathOf(c, r)])
          \/ Become(c, [k EXCEPT !.pc = "conclude", !.left = 0,
                                 !.path = PathOf(c, r), !.status = r.status])
          \/ Retry(c, PathOf(c, r))
    BY <1>11 DEF TakeReply, k
  <2>3. PathOf(c, r) \in Paths
    BY <1>9, <2>1
  <2>4. ASSUME Become(c, [k EXCEPT !.pc = "waitDone", !.left = DoneTimeout,
                                   !.path = PathOf(c, r)])
        PROVE  ClientInv'
    <3> DEFINE v == [k EXCEPT !.pc = "waitDone", !.left = DoneTimeout, !.path = PathOf(c, r)]
    <3>1. v \in CallStates
      BY <1>0, <1>b, <2>3 DEF CallStates, Sockets
    <3>2. Accounted(v) /\ Validated(c, v)
      BY <1>0, <1>b, <2>1, <2>3 DEF CallStates, Accounted, Validated, Sockets
    <3> QED
      BY <1>0, <1>a, <2>1, <2>4, <3>1, <3>2, BecomeInv
  <2> QED
    BY <1>8, <1>10, <2>1, <2>2, <2>3, <2>4
<1>12. CASE ReplyTimeout(c)
  <2>1. k.pc = "waitReply" /\ k.path \in Paths
    BY <1>0, <1>12 DEF ReplyTimeout, Validated, Sockets, k
  <2>2. Retry(c, k.path) /\ (CallWorks \/ CallFails) /\ UNCHANGED <<request, submitted>>
    BY <1>12 DEF ReplyTimeout, WaitEnds, k
  <2> QED
    BY <1>8, <2>1, <2>2
<1>13. CASE TakeDone(c)
  BY <1>10, <1>13 DEF TakeDone, k
<1>14. CASE DoneTimedOut(c)
  <2> DEFINE v == [k EXCEPT !.pc = "over", !.left = 0, !.outcome = "noDone"]
  <2>1. k.pc = "waitDone" /\ Become(c, v) /\ (CallWorks \/ CallFails)
    BY <1>14 DEF DoneTimedOut, WaitEnds, k
  <2>2. v \in CallStates
    BY <1>0 DEF CallStates, Outcomes
  <2>3. Accounted(v) /\ Validated(c, v)
    BY <1>0, <1>b, <2>1 DEF CallStates, Accounted, Validated, Sockets
  <2> QED
    BY <1>0, <1>14, <1>a, <2>1, <2>2, <2>3, BecomeInv DEF DoneTimedOut
<1>15. CASE Conclude(c)
  <2>1. k.pc = "conclude" /\ result[k.path] \in ResultTexts
    BY <1>0, <1>15 DEF Conclude, Validated, ClientInv, ClientTypeOK, k
  <2>2. PICK t \in ResultTexts, o \in Outcomes :
          Become(c, [k EXCEPT !.pc = "over", !.read = t, !.outcome = o])
    <3>1. CASE ReadResult(c)
      BY <2>1, <3>1 DEF ReadResult, Outcomes, k
    <3>2. ASSUME NEW o \in Outcomes, End(c, o)
          PROVE  Become(c, [k EXCEPT !.pc = "over", !.read = k.read, !.outcome = o])
      BY <1>0, <3>2 DEF End, CallStates, k
    <3> QED
      BY <1>15, <1>b, <3>1, <3>2 DEF Conclude, Outcomes
  <2> DEFINE v == [k EXCEPT !.pc = "over", !.read = t, !.outcome = o]
  <2>3. v \in CallStates
    BY <1>0 DEF CallStates
  <2>4. Accounted(v) /\ Validated(c, v)
    BY <1>0, <1>b, <2>1 DEF CallStates, Accounted, Validated, Sockets
  <2> QED
    BY <1>0, <1>15, <1>a, <2>2, <2>3, <2>4, BecomeInv DEF Conclude
<1>16. CASE Kill(c)
  <2> DEFINE v == [k EXCEPT !.pc = "over", !.left = 0, !.outcome = "killed"]
  <2>1. Become(c, v)
    BY <1>16 DEF Kill, k
  <2>2. v \in CallStates
    BY <1>0 DEF CallStates, Outcomes
  <2>3. Accounted(v) /\ Validated(c, v)
    BY <1>0, <1>b DEF CallStates, Accounted, Validated, Sockets
  <2> QED
    BY <1>0, <1>16, <1>a, <2>1, <2>2, <2>3, BecomeInv DEF Kill
<1> QED
  BY <1>1, <1>2, <1>3, <1>4, <1>5, <1>6, <1>7, <1>11, <1>12, <1>13, <1>14, <1>15, <1>16
     DEF CallStep

(* What others do to the result files and to the replies, and a stutter.   *)
LEMMA ElsewhereInv ==
  ASSUME ClientInv, UNCHANGED callVars,
         sent' \subseteq Replies, result' \in [Paths -> ResultTexts]
  PROVE  ClientInv'
BY DEF ClientInv, ClientTypeOK, CallTypeOK, callVars, Accounted, Validated, Allowance,
       RequestPath, ResultPath, Task

LEMMA ClientInvStep ==
  ClientInv /\ [(CallNext /\ UNCHANGED shared) \/ Elsewhere]_<<shared, callVars>> => ClientInv'
<1> SUFFICES ASSUME ClientInv,
                    [(CallNext /\ UNCHANGED shared) \/ Elsewhere]_<<shared, callVars>>
             PROVE  ClientInv'
  OBVIOUS
<1>1. CASE CallNext /\ UNCHANGED shared
  BY <1>1, CallStepInv DEF CallNext, shared
<1>2. CASE Elsewhere
  <2>1. result' \in [Paths -> ResultTexts] /\ sent' \subseteq Replies
    BY <1>2 DEF Elsewhere, ClientInv, ClientTypeOK
  <2> QED
    BY <1>2, <2>1, ElsewhereInv DEF Elsewhere
<1>3. CASE UNCHANGED <<shared, callVars>>
  BY <1>3, ElsewhereInv DEF shared, ClientInv, ClientTypeOK
<1> QED
  BY <1>1, <1>2, <1>3

-----------------------------------------------------------------------------
(* The inductive invariant: the types, the paths that are known, and the   *)
(* account of the waits, attempt by attempt.                               *)
THEOREM ClientInvariance == ClientSpec => []ClientInv
BY ClientInit, ClientInvStep, PTL DEF ClientSpec, InitAnywhere

(* The variables of the client hold values of their kinds.                 *)
THEOREM ClientTypeCorrect == ClientSpec => []ClientTypeOK
<1>1. ClientInv => ClientTypeOK
  BY DEF ClientInv
<1> QED
  BY <1>1, ClientInvariance, PTL

LEMMA AccountBounds == ClientInv => CallBound
<1> SUFFICES ASSUME ClientInv, NEW c \in Calls
             PROVE  call[c].waited + call[c].left <= Budget
  BY DEF CallBound
<1> DEFINE k == call[c]
<1>1. k \in CallStates /\ Accounted(k)
  BY DEF ClientInv, ClientTypeOK, CallTypeOK
<1>2. /\ k.attempt \in Nat /\ k.attempt <= Retries + 1 /\ k.left \in Nat /\ k.waited \in Nat
      /\ Retries + 1 \in Nat /\ DoneTimeout \in Nat
  BY <1>1, CallFields, TimeoutAssumption
<1>3. /\ Allowance(k.attempt) <= Allowance(Retries + 1)
      /\ Allowance(k.attempt) \in Nat /\ Allowance(Retries + 1) \in Nat
  BY <1>2, AllowanceGrows, NextAllowance
<1>4. Budget = Allowance(Retries + 1) + DoneTimeout
  BY DEF Budget, Allowance
<1>5. k.attempt = 0 => Allowance(k.attempt) >= 0
  BY <1>3
<1> HIDE DEF k
<1>6. k.waited + k.left <= Allowance(k.attempt) + DoneTimeout
  BY <1>1, <1>2, <1>3 DEF Accounted, CallStates, Sockets
<1> QED
  BY <1>2, <1>3, <1>4, <1>6 DEF k

(* Whatever arrives on the port, and however much of it, the waits of a    *)
(* call take no longer than its attempts and its wait for the end allow.   *)
THEOREM WaitsAreBounded == ClientSpec => []CallBound
BY ClientInvariance, AccountBounds, PTL

=============================================================================
