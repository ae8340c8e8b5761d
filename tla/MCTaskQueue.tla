---------------------------- MODULE MCTaskQueue -----------------------------
(***************************************************************************)
(* TaskQueue on small instances.  The strings stand for classes of values; *)
(* what tells the runs apart is the datagrams, the bounds and the names.   *)
(***************************************************************************)
EXTENDS TaskQueue, TLC

MCRank == [n \in FileNames |-> IF n = "A" THEN 1 ELSE 2]

(* "task" is the name made of an empty id.                                 *)
OwnName == [t \in TaskIds \cup {Nil} |-> IF t = Nil THEN "task" ELSE IF t = "a" THEN "A" ELSE t]

(* An id made from the clock is never one a client made up; where every    *)
(* datagram has an id none is made.                                        *)
ClockIds == [i \in Ticks |-> IF i = 1 THEN "1" ELSE IF i = 2 THEN "2" ELSE "3"]

NoClockIds == [i \in Ticks |-> "a"]

MCNormalForm ==
  [p \in RawPaths |-> IF p = "./in" THEN "in" ELSE IF p \in Paths THEN p ELSE Nil]

MCDefault == [n \in FileNames |-> "out_a"]

Submit(task, input, out, reply, peer) ==
  [task |-> task, input |-> input, result |-> out, reply |-> reply, peer |-> peer]

At(ip, port) == [ip |-> ip, port |-> port]

SubmitA == {Submit("a", "./in", "out_a", At("h1", 1), At("h1", 1))}

(* No id and half an address; a path that is refused; no result path and   *)
(* the other half of an address.                                           *)
SubmitOdd == {Submit(Nil, "./in", Nil, At("h2", 0), At("h1", 1)),
              Submit("a", "../up", "out_a", At(Nil, 0), At("h1", 2)),
              Submit("a", "./in", Nil, At(Nil, 1), At("h2", 2))}

AllWorkers == Permutations(Workers)

=============================================================================
