# end2end in TLA+

A verification project for the end2end inference service: a UDP receiver and
inference workers that exchange tasks through a directory tree, and the C++
client library that calls them. Paths below are those of the repository
(`src/udp_service.cpp` etc.).

## The system

    client --UDP submit--> receiver --state/<task>.json, pending/<job>.json--> worker(s)
    client <--UDP accepted / done-- receiver            working/, done/, failed/, results
    client <--UDP done-------------------------------------------------------- worker

| Component | State | Operations | What makes it correct |
|---|---|---|---|
| Receiver (`RunUdpReceiver`) | none of its own between datagrams | default and normalise fields, refuse, answer from the state file, write state, job, state, reply | a task is queued once; "accepted" means queued; replies name the right task |
| Queue directory | `pending/ working/ done/ failed/` job files, `state/` files | write (open = empty, close = fill), rename, glob | a job has one owner, is run once, is not lost |
| Worker (`RunWorkerLoop`, `ProcessTask`) | the list of pending jobs, the job in hand | glob, claim by rename, mark "working", infer and write the result, archive, final status, reply | success only for what was done; the result is there; the queue is worked off |
| JSON protocol (`service_protocol.cpp`, `protocol.cpp` of the client) | none | build, escape, parse by key, replace a field of a template | what is parsed is what was built; a field is set where it is read |
| Path and name rules | none | `NormalizeRelativePath`, `SanitizeFileName`, `JoinPath` | nothing outside the shared root; names tell tasks apart |
| Base64 (`Base64Decode`) | accumulator, bits held | take a digit, skip, stop | every byte is the one its digits stand for |
| Detector (`yolov8.hpp`) | tensor, output buffers, the size of the last picture | letterbox, run, take boxes back to the picture | boxes are those of the picture they are reported for, inside it, and where the objects are |
| Caller client (`caller_client_cpp`) | attempt, deadlines, last reply | write request, submit, wait for a reply, retry, wait for done | ends in time; reports what the service did |
| Batch inference (`RunBatchInference`) | none | the detector in a loop over pictures or frames | one picture's boxes are not another's |
| Command lines, scripts, demo client, the network | | | not modelled, see below |

Behaviours that are hard here: receiver and worker processes write the same
state file without a lock; a file is visible before its text is in it; either
process may be killed between two writes and systemd starts it again
(`Restart=always`, docs/jetson-deployment-guide.md 7.1, 7.2); file operations
fail and most of their results are not looked at; datagrams are lost, repeated
and reordered, and clients resubmit. In the parts that only compute, what is
hard is hidden in the data: texts that look like keys, an accumulator that
overflows, three numbers of one sum rounded apart, and output buffers that keep
what they had when a CUDA call fails and nobody looks.

## Modules

| Module | Models |
|---|---|
| `QueueDir` | the shared constants and variables, what files hold, and the file operations: `OpenStateFile`/`CloseStateFile` (`WriteTaskState`), `ReadTaskState`, `Send` (`SendUdpMessage`), `Works`/`Fails` |
| `Receiver` | `RunUdpReceiver`: `Reject`, `Answer`, `Begin`, `RxOpenState`, `RxCloseState`, `RxOpenJob`, `RxCloseJob`, `RxReply`, `RxCrash` |
| `Worker` | `RunWorkerLoop` and the outcome of `ProcessTask`: `Glob`, `Claim`, `SkipJob`, `LoadState`, `OpenWorking`, `CloseWorking`, `ProcessFail`, `OpenResult`, `CloseResult`, `Archive`, `OpenFinal`, `CloseFinal`, `Reply`, `WorkerCrash` |
| `TaskQueue` | receiver and workers around one directory; the properties, the invariant, the refinement mapping |
| `WorkLease` | abstract: jobs wait, are leased to one worker, are finished or stranded |
| `CallerClient` | `RunClient` with `WaitForReply`, `WaitForDone`, `ReceiveResponse`: `Refuse`, `Start`, `OpenRequest`, `CloseRequest`, `Bind`, `SendAll`, `Pass`, `TakeReply`, `ReplyTimeout`, `TakeDone`, `DoneTimedOut`, `Conclude`, `Kill` |
| `EndToEnd` | calls, network, receiver and workers together: the receiver is sent what calls submitted, calls hear what the service sent, workers read the request files that calls wrote |
| `RemoteCall` | abstract: tasks are asked for, seen through, and calls end with a result or an error |
| `PathRules` | `NormalizeRelativePath`, `JoinPath`, `ResolveSharedPath`, `EnsureParentDirectory`, `SanitizeFileName`, `BuildStateFilePath`, `BuildRequestRelPath`, of service and client |
| `JsonFields` | the builders, `EscapeJsonString`, `FindKey`, `FindValueStart`, `ParseJsonStringValue`, `ExtractJsonNumber`, the field parsers of both sides, `UpsertJsonString`; its state is a message in which one value is being typed |
| `Base64` | `Base64Decode`: `TakeDigit`, `SkipChar`, `StopAtPad` |
| `Inference` | the detector and its two callers, one picture after the other: `Decode`, `RefusePicture`, `DecodeNothing`, `CopyFromMat`, `CopyNothing`, `Infer`, `InferUnset`, `InferInVain`, `CheckFails`, `Postprocess`, `EndBatch`; `Defect` and `ComputePhysicalCoordinate` |
| `MCTaskQueue`, `MCCallerClient`, `MCEndToEnd`, `MCPure` | instances for TLC; the last holds the four parts that only compute, a behaviour being one of one of them |
| `TaskQueueProofs`, `TaskQueueOutcomes` | theorems about the service: owners and lease, what is left behind and what is said |
| `CallerClientProofs`, `EndToEndProofs`, `EndToEndOutcomes` | theorems about the client, about both, and about what a call may rely on |
| `ProtocolProofs`, `InferenceProofs`, `PathRulesProofs` | theorems about the JSON and Base64, the detector and the path rules |

`QueueDir` is extended by `Receiver`, `Worker` and `CallerClient`; `TaskQueue`
extends the first two, `EndToEnd` extends `TaskQueue` and `CallerClient`.
`PathRules`, `JsonFields`, `Base64` and `Inference` stand alone.

How the state corresponds to the code:

* `state[n]` is `state/<n>.json`: the request fields in it and the status.
  `Empty` is the file between open and close, `Absent` no file. A text without
  a task id (written for a job file that was read while empty) is a state whose
  `req` is `NoRequest`; `ReadTaskState` refuses it as the code does.
* `dir[j]` is the directory the file of job `j` is in; `j` is its name, a file
  name and a reading of the clock. `job[j]` is its text. The text follows the
  file: a receiver that closes the file after a worker moved it fills the moved
  file.
* `result[p]` says whose result the file at `p` holds.
* `sent` is the set of replies handed to the network. `Submits` is the set of
  datagrams that may come; each may come at any time, any number of times.
  Loss, repetition and reordering of either direction need nothing more.
* `rx` and `wk[w]` hold the local variables that live across steps.
* `call[c]` is one run of `RunClient`: `attempt` counts submissions, `left` is
  what the current deadline leaves, `path` is `result_relpath`, `status` and
  `read` are what the final reply and the result file said, and `outcome` is the
  `error` it returns with. `waited` counts the time in waits; no variable of the
  code holds it, `CallBound` is about it.
* `request[p]` is the request file at `p`: its template has an image the service
  can process (`good`) or not (`bad`). `submitted` is the set of datagrams
  handed to the network.

What one step is. A file write is two steps, because the file is empty and
visible in between; everything local between two file operations is part of
one of them. Reading a file right after renaming it is one step with the
rename: only the close by the receiver could come between, and it commutes
with the rename. `rename` is atomic and fails when the source is gone (Linux,
the deployment platform of the docs). Of two writers that have a state file
open at once the last to close wins: its text starts the file, and the parser
takes the first occurrence of a key.

Failures. `Fails` is a write that cannot be opened (or whose directory cannot
be made), one that is lost at the close, or a rename that is refused;
`MaxFaults` bounds their number. `WriteTextFile` takes its result before the
stream is closed, so a loss at the close may be reported (a text longer than
the stream's buffer) or not; both are modelled. A failed write leaves no part
of the text. Reads are taken to work, and the readings of
`high_resolution_clock` to differ and not to go back.

The client. Time passes in units (`Pass`) while a call waits, at any moment as
long as the deadline is not reached; the timeouts are multiples of the unit.
A reply may be taken until the deadline, a wait ends at it, or before it when
`select` or `recvfrom` fails. A port is held by one socket of the host at a
time, and what was sent to the port by or for an earlier call may be heard by a
later one. Alone (`ClientSpec`), the client faces any replies whatever, those of
`Foreign`, and result files that change at will; in `EndToEnd` it faces the
service. Request files and result files are kept apart (no path is both), a
worker reads the request as it begins to process, and opening the result is the
same step. Of `reply_ip` only the host counts, and reply ports that are not
positive or need more than 16 bits are left out. In the model a call always has
an id: one made from the clock is one more id.

Paths. A string is a sequence of the five characters that the rules tell apart:
a letter, which stands for all other characters, `.`, `/`, `\` and `:`. What
the functions make of it is compared with the names that the operating system
finds between the slashes.

JSON. A key is one letter, a text a sequence of characters of which quote,
backslash, one control character with an escape of its own, and the letters of
some keys matter. Both sides have the same text for most of these functions;
where they differ (the earlier names of two fields, which only the service
reads) the form of the message decides. Which field is read under a key is
stated by `Field` without looking at the text: the field that has the key,
unless a value before it ends in that key in quotes. `BuildResultJson` only
writes, and its file is one content.

Base64. A character of the alphabet is the number it stands for; the width of
the accumulator is a constant.

The detector. A length is a number of pixels, a place on the canvas an exact
fraction of one; where a fraction is half way between two pixels it may be
rounded to either, as a float may fall on either side of it, and no other float
error is modelled. Borders are rounded by `std::round` on exact tenths as in the
code. A picture holds one object or none, which is enough for boxes to be mixed
up between pictures. `InferInVain` is `enqueueV3` or the wait for the stream
failing: their results are not looked at, so the output buffers keep what they
had, at first what the warm-up on unset memory left. Where the error stays with
the stream, the next call that is looked at ends the program. A picture that
`imread` does not read is passed on by the batch (`DecodeNothing`) and its sizes
are divided by zero. Either `resize` throws, or the canvas is all border and has
the one channel of an empty picture, while three are copied out of it
(`CopyNothing`): the program ends there, or the engine works on what comes next
in memory and finds anything (`InferUnset`). Properties of what is found are
about pictures that were read.

`SanitizeFileName`, `NormalizeRelativePath` and the default result path are
constants of the core (`NameOf`, `NormalForm`, `DefaultResult`), constrained
only by their types: what is proved holds whatever they are, and the runs
choose cases (two ids with one name, a path that is refused). `Nil` is the
empty string.

The definitions called variants are slips the code could have had; no
specification uses them, they show that each property can fail.

## What TLC checks

| Run | Instance | Shows |
|---|---|---|
| `tq_crash` | 2 workers, 1 task, 2 jobs; one kill of the receiver, one of a worker, one failing file operation | `TypeOK`; `OneOwner`; `SuccessEarned`; `StrandedBound`; `QuiescentStatus`: unsettled state files at rest are paid for by kills and failures; `SuccessHasResult`; `ResultKept` (a result is emptied only for another job); `LeaseSpec` (refinement of `WorkLease`) |
| `tq_rest` | 1 worker; datagrams without id, path or part of the address, or refused, for up to 2 tasks; one kill of the receiver, two failing file operations | `UnqueuedBound`: an accepted task without a job file costs the kill or both failures, one whose job file is empty the kill or one failure; `QuiescentStatus`; `ReplyNamesItsTask` |
| `tq_live` | fairness, 2 workers, one kill of a worker | `JobsDrain` |
| `cl_calls` | fairness; a call with two retries and a call that is refused; replies of every kind; two kills or failing system calls | `ClientTypeOK`; `CallBound`: the waits take at most (retries + 1) * accepted timeout + done timeout; `CallsEnd` |
| `e2e_calls` | 2 calls for 2 tasks on one port, one retry, 1 worker, a kill of it | `OkIsOwn`; `OkWasDone`; `FailedHasCause`; `RemoteSpec` (refinement of `RemoteCall`) |
| `pure_all` | paths: all strings of up to 6 characters, 3 roots | `StaysBelow`, `FileKept`, `SidesMeet`, `ResolvedBelowRoot`, `ParentsExist`, `StateFileInPlace`, `DefaultAccepted` |
| | JSON: every value of up to 3 of 6 characters, in every field of every message | `FieldsReadBack`: every field is read back, or the one after a value that names its key; `UpsertIsSet`: setting a string gives the message with that field set, or added, unless a value before it names its key |
| | Base64: every text of up to 6 characters, an accumulator of 14 bits | `DecodedExactly` |
| | pictures of 9 shapes, one after the other, calls that fail, for worker and batch | `CanvasFilled`, `ShapeServed`, `OwnDefects`, `InsidePicture`, `PhysicalOrdered` |
| `tq_overwritten` | nothing fails | the code does not keep `DoneIsFinal` |
| `tq_unanswered` | nothing fails, fairness | the code does not keep `AcceptedGetsDone` |
| `tq_orphan` | one kill of the receiver | nor `AcceptedIsQueued`; `UnqueuedBound` is what holds, and counts the kill |
| `e2e_noread` | one call, nothing fails | nor `SuccessIsReadable` |
| `e2e_rewritten` | two calls for one task, nothing fails | nor `FailedHasCause` then |
| `json_template` | JSON: a template with any value of up to 3 characters of a key and quotes | nor `TaskIdOverwritten` |

The last six each quote, in `PROJECT.json` "findings", the line of the
documents that says otherwise. In short:

1. the receiver writes "pending" after the job is visible, and so over a
   worker's final status;
2. a worker that claims a job file before it is closed processes an empty
   request, and nobody is told;
3. a receiver killed between state file and job file leaves a task that is
   "accepted" for ever;
4. a datagram that comes again while a worker has the state file open queues
   its task again, and the second run empties the result under a client that
   was told "success";
5. a second call for a task that is under way rewrites the request file in
   place: a worker that reads it then fails the task, for good;
6. in a template, a value before the task id that is `task_id` (or ends in it
   after a quote) is taken for the key, and the value after it is overwritten in
   place of the task id.

Five more limits are seen in the model and have no run of their own. A result
text that is lost when the stream is closed is announced as success, because
`WriteTextFile` takes `good()` before the close; `SuccessHasResult` leaves
failures out for that. The same loss of the text of a job file leaves an accepted
task with an empty job, and two failures that are reported one with no job at
all, where the state that would say so cannot be written either; `UnqueuedBound`
counts both. The path the client makes up for a request is refused by the service
when the id begins with two dots; `DefaultAccepted` says for which ids it is not.
Ids that sanitise to one name share a state file: the second task is never queued
and the reply to it names the first (`ReplyNamesItsTask` fails with a `NameOf`
that takes two ids to one name). And `UpsertJsonString` replaces strings: a template with a number under
`task_id` stays as it is. No message of the model has one there, and neither
`UpsertIsSet` nor `TaskIdOverwritten` says anything of it.

`UnqueuedBound` adds up two sets, the accepted tasks without a job file and those
without the text of one, so that a task with no file counts twice. A kill of the
receiver between the state file and the job costs two; a close that loses the
text costs the one failure it is. A job file that cannot be opened is a task with
no file, but the next answer tells of it unless the writing of "failed" fails as
well, which makes two failures for two.

`ParentsExist` is about which directories are made; that they are made from the
outside in is how `EnsureParentDirectory` walks the path and is not stated, and
none of the roots begins with a drive.

Bounds. `MaxClock` bounds the readings of the clock, and so the jobs. The two of
`tq_crash` are two jobs of one task, with one result path between them, and
lists of both workers that are stale for the second; the three of `tq_rest` are
a task with an id and one with an id made from the clock. Two workers suffice
for every conflict over a job, which is between the holder and one other; the
documents deploy one or two. One kill and one failure of each kind at any step
cover each recovery path; two of a kind only add stranded jobs, which
`StrandedBound` counts. `tq_rest` has two failures, as it takes a second one to
hide the first. Deadlock is not checked: a service to which no datagram comes
stops, as it should. Symmetry is used on the workers, in safety runs only: the
specification names none of them. For the client two retries
and timeouts of two and three units have a wait end after some replies, before
some and between any two attempts. Two calls suffice for a port that is used
again and for a request file that is rewritten: both are between a call and one
before it. Six characters hold every pattern that the path rules look for
(`..` with a slash on either side, a drive, runs of `./` and of `/`, in
both orders). Three characters hold a quoted key at the end of a value (`"r` and
what escaping makes of it) with something before it; six Base64 characters
overflow an accumulator of 14 bits with any number of bits held. A canvas of side 6 and lengths of 1, 4 and 13 give a side that is exactly
half a pixel, borders that split an odd and an even slack, and a picture longer
than two canvases; two pictures suffice for the boxes of one to be reported for
another.

Fairness. `Handle` (the receiver ends what it began) and `Step(w)` (each worker
goes on) are weakly fair: the processes loop for ever and are restarted when
they end. `CallFairness`: a call that was made goes on, time included; that a
call is made, or a datagram arrives, or anything is killed is not assumed.

## What is proved

In `TaskQueueProofs`, for all values of the constants that meet the named
assumptions (`NameAssumption`, `ClockAssumption`, `PathAssumption`,
`AddressAssumption`, `SubmitAssumption`, `WorkerAssumption`, all about types):

* `TypeCorrect`: `Spec => []TypeOK`. `TypeOK` alone is not inductive: the job
  name needs a reading of the clock within its bound (`ClockRoom`), and a
  worker's reply a final status (`OutcomeKnown`).
* `Invariance`: `Spec => []Inv`, adding `FreshNames` (no job bears a future
  reading of the clock, so that a new job file never meets an old one) and
  `OwnedTaken` (a worker's job is out of pending/, so that a claim never meets
  an owner) to `OneOwner`. The first is what a step of the receiver needs, the
  second what a claim needs.
* `ExclusiveOwner`: `Spec => []OneOwner`.
* `QueueIsLease`: `Spec => LeaseSpec`, the refinement: opening a job file is
  `Post`, the rename is `Take`, the archiving `Finish`, a kill or failed
  archiving `GiveUp`, and everything else a stutter.

In `CallerClientProofs`, from `CallAssumption`, `TimeoutAssumption` and
`ForeignAssumption`, for any calls, configurations, replies, retries and
timeouts:

* `ClientInvariance`: `ClientSpec => []ClientInv`. Beside the types it has
  `Accounted`, which says for each place in `RunClient` what the call may have
  waited by then: the attempts made times the timeout for a reply, and the
  timeout for the end once in the second wait. `CallBound` alone says nothing of
  the attempts left and is not inductive. `Validated` has what `Start` checked.
* `ClientTypeCorrect` and `WaitsAreBounded` (`CallBound`) follow.

In `EndToEndProofs`:

* `EndToEndInvariance`: both invariants hold together, and what is submitted are
  datagrams the receiver knows.
* `ServiceImplemented`: `EndToEndSpec => Spec`; the service among its clients is
  the service of `TaskQueue`, so that its theorems carry over
  (`OwnersStayExclusive`).
* `WaitsStayBounded`: `EndToEndSpec => []CallBound`.

In `TaskQueueOutcomes`, for any number of jobs, workers, kills and failures:

* `StrandedIsBounded` (`StrandedBound`): the set of stranded jobs is finite and
  no step adds more than one to it; one that does counts a kill or a failure
  (`OneStranded`).
* `RepliesReachTheirClients` (`ReplyNamesItsTask`), by `AskedInv`: every request
  in a variable or a file is one that a datagram becomes (`RequestsAsked`), a
  state file is about the task whose name it bears, and the state a worker goes
  on with about the task of its job (`StatesInPlace`), and so a reply is made of
  two requests for one task (`RepliesAsked`).
* `SuccessIsEarned` (`SuccessEarned`), by `EarnedInv`: a job file is filled once
  and what a worker read of it stays true (`JobsKept`); "success" is in a state
  file, a reply or a worker past its archive only for a task in `EarnedTasks`,
  which no step takes anything from (`SuccessKnown`, `EarnedGrows`).
* `ResultsAreKept` (`ResultKept`), by `ResultsWritten`: a result file with text
  was written by a job that left pending/ and that no worker has still to write
  (`TakenStays`: no step gives such a job to a worker again). A worker that
  empties the file still has its own job to write, and so another one.
* `AcceptedIsAlmostQueued` (`UnqueuedBound`), by `QueuedInv`. What a client was
  told rests on what a state file says, and so the invariant is about files: the
  names whose state file says the task is on its way and that have no job, or no
  text of one, once the receiver has left them (`Unqueued`), are not many.
  Kills and failures pay for them (`Spendable`). One failure is held back while the
  receiver has met it and is about to write it down (`Untold`); it is spent when
  that write fails as well. A worker writes states of tasks that have a job
  (`WorkerHasText`); a job file keeps its text (`TextStays`). It assumes
  `NamesApart`, as otherwise the answer about one task tells of another.
* `SuccessMeansResult` (`SuccessHasResult`), by `SuccessReady`: whoever says
  "success", a worker, a state file or a reply, names a result that is kept, and
  a worker that empties one is about to fill it (`KeptStays`). The request a
  worker writes the result of and the one in its state may be two; it assumes
  `OnePathEach`, that no task is asked for with two result paths, as otherwise
  the state can name a path nobody wrote.

* `RestIsFinal` (`QuiescentStatus`), by `NeglectedInv`. At rest there is no
  telling who left a file unsettled; before, each unsettled file is about to be
  written once more by the receiver (`RxSettles`) or by a worker (`WkSettles`),
  or is `Neglected`, and there are no more of these than `Losses`. The receiver
  that closes a file and the worker that closes it need not be ordered: a step
  by which one of the two stops to settle a file leaves a status in it that may
  stay, unless it is a kill or a failure. No step neglects more than one file.

All but `StrandedIsBounded`, `ResultsAreKept` and `RestIsFinal` assume
`NamesApart`: that `NameOf` tells tasks apart. Without it they are out of reach,
as two ids then share a state file.

In `EndToEndOutcomes`, for any calls, of any number of clients:

* `SuccessIsTrue` (`OkWasDone`): what a call hears of "success" was sent by the
  service for its own task (`HeardIsOwn`), and so was earned. It assumes
  `NamesApart`, and `ForeignApart`: nobody else sends replies for the tasks of
  the calls, or without a task.
* `ResultsAreOwn` (`OkIsOwn`), by `ResultsOwned`: there is a function from paths
  to tasks, their owners; a result is written where its owner's are, and the
  path a call holds, its own or one it was told, is owned by its task. It
  assumes `ResultsApart` of that function: no two tasks ask for one result path.
* `FailuresAreDeserved` (`FailedHasCause`): as long as no call was killed or
  failed to write its request (`CallsUnharmed`), a call that is told "failed"
  gave a request that could not be processed. It assumes what the run `e2e_calls`
  has: no file operation of the service fails (`MaxFaults = 0`), calls are about
  tasks and request files of their own (`CallsApart`; the run `e2e_rewritten` is
  what happens without it), the service takes the paths that the client
  normalised as they are (`RequestsNormal`; a path normalised once may be changed
  or refused when it is normalised again), and `NamesApart` and `ForeignApart`.
  What carries it is that a request file has been there since before its
  datagram was sent and is what the call was given (`RequestsThere`), that what
  the receiver and the workers carry was submitted (`CarriedSubmitted`), and that
  wherever "failed" is said, in a worker, a state file, a reply or a call, it is
  said of no task with a good request (`FailuresDeserved`).
* `CallsAreRemote`, `EndToEndSpec => RemoteSpec` under the assumptions of
  `ResultsAreOwn`. Submitting is `Ask`, the archiving of a job (or, once a file
  operation has failed, its being left where it is) is `SeeThrough`, and the
  end of a call is `ReturnResult` or `ReturnError`. Beside the two above it
  takes that no request in the service is for a task that was not submitted
  (`CarriedAsked`) and that a call has its outcome when and only when it is
  over (`OutcomeAtEnd`).

In `ProtocolProofs`, for values of any length over any characters, whatever is
typed into whatever field:

* `StringReadBack`: where `EscapeJsonString` has put a text between quotes,
  `ParseJsonStringValue` gives that text and `FindStringEnd` its closing quote.
  Both walk over the characters of the text and not over those that are
  written (`LookAhead`): each takes one or two places (`Escaped`).
* `ReadBack` (`FieldsReadBack`): each field, the quotes of its key, its colon and
  its value have their places in the text (`LaidOut`). A key in quotes stands at
  a field of that key or at the end of a value that names it, and nowhere else
  (`KeyStands`, `HitStands`), so that the least of these places is that of the
  field `Field` says (`KeyFound`, `ValueStart`).
* `UpsertSets` (`UpsertIsSet`): unless a value before it names the key (`Misled`),
  the field that is found is the key's own. What is before the old value and behind it is what
  is before the new one and behind it (`ReplacedPart`, `ValueReplaced`), as no
  message has a field twice (`WrittenApart`). Where the key is not found, the
  last brace is the one the message ends in (`UpsertUnknown`).

The functions that recur on the text are proved to exist (`SumsExist`,
`RestFacts`, `EndFacts`) and are reasoned about by least counterexamples
(`CountingUp`), which need no theorem with an operator for a parameter.

There too: `Base64Exact` (`DecodedExactly`), for texts of any length and
any accumulator whose range is a multiple of 2^12. What carries it is that the
lowest twelve bits, which hold the last two digits, are exact whatever was lost
above them (`LowBitsExact`); a byte is taken from these.

In `InferenceProofs`, for pictures, canvases, objects, leftovers of the warm-up
and scales of any size:

* `TensorIsFilled` (`CanvasFilled`), for pictures that were read: the scaled side and the two borders, each
  rounded, add up to the canvas.
* `ShapesAreServed` (`ShapeServed`): `resize` throws only for a picture at least
  two canvas sides times longer than wide or wider than long.
* `DefectsAreOwn` (`OwnDefects`): an edge comes back within one pixel of the
  canvas and half a pixel of the picture. The borders are not quite half the
  slack that `postprocess` takes off, and the scaled side is not quite the
  scaled length: each is off by at most half a canvas pixel.
* `DefectsAreInside` (`InsidePicture`) and `PhysicalIsOrdered`
  (`PhysicalOrdered`): rounding, clamping and scaling keep order, the last as
  long as the larger of two coordinates is an int before it is cast to one. Boxes
  of another picture are clamped to this one as well.

In `PathRulesProofs`, for strings and roots of any length. A root has no `\`
(`RootAssumption`), which the code takes for a separator at its end and Linux for
a letter; of the letters only those of the model are told apart.

* `NeverAbove` (`StaysBelow`): a name `..` is the whole path or has a slash on one
  side, and those are the texts `ContainsParentTraversal` looks for.
* `NamesAreKept` (`FileKept`): what `NormalizeRelativePath` takes away is a
  beginning of slashes and of dots with a slash behind them (`Trimmed`), in which
  there is no name.
* `ResolvedUnderRoot` (`ResolvedBelowRoot`) and `SidesAgree` (`SidesMeet`), by
  `JoinFacts` and, for the second, because normalising again takes no name away.
* `ParentsAreMade` (`ParentsExist`): `EnsureParentDirectory` makes a directory for
  each slash there is something before.
* `MadeUpAccepted` (`DefaultAccepted`) and `StateFileStays` (`StateFileInPlace`).

They rest on `ConcatNames`: where the first of two strings is empty or ends in a
slash, the names of both together are those of the one and then of the other.
`Names` picks the n-th place where a name begins by counting the places before
it; the proof lists the places in order (`Ordered`), the list being there because
a finite set has a greatest member (`OrderedExists`), and shows that the list is
what is picked (`NamesInOrder`).

Only model-checked is liveness (`JobsDrain`, `CallsEnd`), which is out of the
prover's reach.

## What is left

`EndToEnd` with a kill of the receiver and two workers at once is beyond a run
of minutes; the theorems cover it for all that is proved. `FailuresAreDeserved`
says nothing where a file operation of the service may fail: `ProcessFail` stands
for the result file that cannot be opened as well as for the request that cannot
be processed, and does not count the former in `faults`.

## What is not modelled

* The network and what it finds; CUDA and TensorRT beyond their failing. Boxes
  and labels drawn into pictures.
* `num_dets` of an engine that has failed before its first run is memory that
  nobody has set; the model has a box or none there. A physical coordinate past
  a `long` is left out.
* Of `RunBatchInference` the choice of files, timing, window and video output.
* `ResolveImagePath`, which tries the path as it is before it tries it below
  the input: it depends on what is on the disk. `BuildResultJson`.
* The readings of `high_resolution_clock` that are equal, and two receivers on
  one directory.
* Command lines (`main.cpp` of both sides): texts to options, no state that
  outlives them. The run scripts start processes. The demo client in `tests/`
  submits once and waits once, of which `CallerClient` does more.
* Windows, where an open file cannot be renamed and paths have other
  separators.
