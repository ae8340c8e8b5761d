----------------------------- MODULE MCEndToEnd -----------------------------
(***************************************************************************)
(* A few calls and the whole service.  Each task has a request and a result*)
(* path of its own; the runs differ in the calls and in what may fail.     *)
(***************************************************************************)
EXTENDS EndToEnd

(* "task" is the name of the state file for an empty id.                   *)
MCName == [t \in TaskIds \cup {Nil} |->
             IF t = Nil THEN "task" ELSE IF t = "a" THEN "A" ELSE "B"]

MCRank == [n \in FileNames |-> IF n = "A" THEN 1 ELSE IF n = "B" THEN 2 ELSE 3]

(* Every call gives its task an id, so that the service makes none.        *)
MCClock == [i \in Ticks |-> "a"]

MCNormalForm == [p \in RawPaths |-> IF p \in Paths THEN p ELSE Nil]

MCRequest == [n \in FileNames |-> IF n = "B" THEN "in_b" ELSE "in_a"]

MCResult == [n \in FileNames |-> IF n = "B" THEN "out_b" ELSE "out_a"]

Told(task, template) ==
  [task |-> task, request |-> Nil, result |-> Nil, template |-> template,
   at |-> [ip |-> "h1", port |-> 1]]

(* One after the other on one port.                                        *)
SharedPort == [c \in Calls |-> IF c = 1 THEN Told("a", "good")
                                        ELSE Told("b", "bad")]

(* The same task twice.                                                    *)
SameTask == [c \in Calls |-> Told("a", "good")]

MCSubmits == {Datagram(c) : c \in Calls}

=============================================================================
