----------------------------- MODULE RemoteCall -----------------------------
(***************************************************************************)
(* What a client may count on, with no datagrams, files or processes in it:*)
(* a task is seen through only after it was asked for, a call ends once,   *)
(* and with a result only when its task was seen through, and with its own.*)
(* Whether a call that ends with an error had its task seen through it     *)
(* cannot know.                                                            *)
(***************************************************************************)
CONSTANTS
  Calls,
  TaskOf    \* the task of each call

VARIABLES
  asked,    \* the tasks that were asked for
  seen,     \* the tasks that were seen through
  verdict   \* what each call ended with: "none" so far, its result, or an error

vars == <<asked, seen, verdict>>

Init ==
  /\ asked = {}
  /\ seen = {}
  /\ verdict = [c \in Calls |-> "none"]

Ask(c) ==
  /\ asked' = asked \cup {TaskOf[c]}
  /\ UNCHANGED <<seen, verdict>>

SeeThrough(tasks) ==
  /\ tasks \subseteq asked
  /\ seen' = seen \cup tasks
  /\ UNCHANGED <<asked, verdict>>

ReturnResult(c) ==
  /\ verdict[c] = "none"
  /\ TaskOf[c] \in seen
  /\ verdict' = [verdict EXCEPT ![c] = "result"]
  /\ UNCHANGED <<asked, seen>>

ReturnError(c) ==
  /\ verdict[c] = "none"
  /\ verdict' = [verdict EXCEPT ![c] = "error"]
  /\ UNCHANGED <<asked, seen>>

Next ==
  \/ \E c \in Calls : Ask(c) \/ ReturnResult(c) \/ ReturnError(c)
  \/ \E tasks \in SUBSET asked : SeeThrough(tasks)

Spec == Init /\ [][Next]_vars

=============================================================================
