--------------------------- MODULE MCCallerClient ---------------------------
(***************************************************************************)
(* Calls of the client library against any service whatever: what may come *)
(* back is chosen by Foreign, not by a model of the service.               *)
(***************************************************************************)
EXTENDS CallerClient

MCName == [t \in TaskIds \cup {Nil} |-> IF t = "b" THEN "B" ELSE "A"]

MCRank == [n \in FileNames |-> IF n = "A" THEN 1 ELSE 2]

MCClock == [i \in Ticks |-> "a"]

MCNormalForm == [p \in RawPaths |-> IF p \in Paths THEN p ELSE Nil]

MCRequest == [n \in FileNames |-> "p"]

MCResult == [n \in FileNames |-> "p"]

Port == [ip |-> "h1", port |-> 1]

Told(task, request_relpath, template) ==
  [task |-> task, request |-> request_relpath, result |-> Nil, template |-> template,
   at |-> Port]

(* A call, and one whose request path is refused.                          *)
MCConfig == [c \in Calls |-> IF c = 1 THEN Told("a", Nil, "good")
                                      ELSE Told("b", "../up", "good")]

(* Replies to either task and to none, with every status, that name a      *)
(* result path or do not.                                                  *)
MCForeign ==
  {[to |-> Port, task |-> t, result |-> p, status |-> s] :
     t \in {"a", "b", Nil}, p \in {Nil, "q"},
     s \in {"accepted", "success", "failed", "other"}}

=============================================================================
