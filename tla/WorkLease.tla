----------------------------- MODULE WorkLease ------------------------------
(***************************************************************************)
(* What the queue of directories promises the workers, with no files in it:*)
(* a job is posted once, waits until one worker takes it, and is then held *)
(* by that worker alone until it is finished, or lost to a crash or to a   *)
(* move that failed.  A job that was taken never waits again.              *)
(***************************************************************************)
CONSTANTS Jobs, Workers, None

VARIABLES
  waiting,    \* jobs posted and not taken
  lease,      \* the job each worker holds, or None
  finished,   \* jobs a worker saw to the end
  stranded    \* jobs taken and given up: nobody will take them again

vars == <<waiting, lease, finished, stranded>>

Held == {lease[w] : w \in Workers} \ {None}

Init ==
  /\ waiting = {}
  /\ lease = [w \in Workers |-> None]
  /\ finished = {}
  /\ stranded = {}

Post(j) ==
  /\ j \notin waiting \cup Held \cup finished \cup stranded
  /\ waiting' = waiting \cup {j}
  /\ UNCHANGED <<lease, finished, stranded>>

Take(w, j) ==
  /\ lease[w] = None
  /\ j \in waiting
  /\ waiting' = waiting \ {j}
  /\ lease' = [lease EXCEPT ![w] = j]
  /\ UNCHANGED <<finished, stranded>>

Finish(w) ==
  /\ lease[w] # None
  /\ finished' = finished \cup {lease[w]}
  /\ lease' = [lease EXCEPT ![w] = None]
  /\ UNCHANGED <<waiting, stranded>>

GiveUp(w) ==
  /\ lease[w] # None
  /\ stranded' = stranded \cup {lease[w]}
  /\ lease' = [lease EXCEPT ![w] = None]
  /\ UNCHANGED <<waiting, finished>>

Next ==
  \/ \E j \in Jobs : Post(j)
  \/ \E w \in Workers : (\E j \in Jobs : Take(w, j)) \/ Finish(w) \/ GiveUp(w)

Spec == Init /\ [][Next]_vars

=============================================================================
