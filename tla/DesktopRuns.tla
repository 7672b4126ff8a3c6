------------------------------ MODULE DesktopRuns ------------------------------
(***************************************************************************)
(* What the desktop adapter starts and collects by itself: jobs, one-shot   *)
(* executions and the model hub's catalog (apps/desktop/adapter.mjs) and    *)
(* the PDF renderer (documents-parity.mjs).  A collection gathers what its   *)
(* source, a child process or a response, emits, up to a limit.  The two    *)
(* streams of a process are alike: one is counted, the other one's limit is *)
(* a failure that may come at any time.  A kill is a signal: the process     *)
(* ends when it likes, and its pipes end with the last process that holds   *)
(* them.                                                                    *)
(***************************************************************************)
EXTENDS Naturals

CONSTANTS
  Jobs, Collections,
  OutputLimit,   \* the 64 KiB, 4 MiB and 64 KiB of the three kinds
  MaxOutput      \* bound of the model: chunks a source emits

ASSUME OutputAssumption ==
  OutputLimit \in Nat /\ MaxOutput \in Nat /\ Jobs \intersect Collections = {}

RunKinds == {"execute", "pdf", "catalog"}

VARIABLES
  alive,         \* the adapter's process
  source,        \* of a job or collection: not there, emitting, or over with its pipes closed
  emitted, taken,   \* chunks of a collection's source, and those the adapter was handed
  run,           \* a collection: its kind and place, its pendingError, the chunks kept
  job            \* the job table: a job's state, its child and its timer

runVars == <<alive, source, emitted, taken, run, job>>

Answered == {"ok", "error"}
RunOf == [kind : RunKinds, at : {"new", "collects", "writes"} \union Answered,
          failing : BOOLEAN, kept : 0 .. OutputLimit]
JobOf == [state : {"none", "RUNNING", "STOPPING", "TIMED_OUT", "EXITED"},
          child : BOOLEAN, timer : BOOLEAN]
DesktopRunsTypeOK ==
  /\ alive \in BOOLEAN
  /\ source \in [Jobs \union Collections -> {"none", "open", "over"}]
  /\ emitted \in [Collections -> 0 .. MaxOutput] /\ taken \in [Collections -> 0 .. MaxOutput]
  /\ run \in [Collections -> RunOf] /\ job \in [Jobs -> JobOf]

DesktopRunsInit ==
  /\ alive = TRUE
  /\ source = [x \in Jobs \union Collections |-> "none"]
  /\ emitted = [c \in Collections |-> 0] /\ taken = emitted
  /\ run \in [Collections -> [kind : RunKinds, at : {"new"}, failing : {FALSE}, kept : {0}]]
  /\ job = [j \in Jobs |-> [state |-> "none", child |-> FALSE, timer |-> FALSE]]

-------------------------------------------------------------------------------
(* The world: a source emits and comes to its end.                            *)
Emits(c) ==
  /\ source[c] = "open" /\ emitted[c] < MaxOutput
  /\ emitted' = [emitted EXCEPT ![c] = @ + 1]
  /\ UNCHANGED <<alive, source, taken, run, job>>
SourceEnds(x) ==
  /\ source[x] = "open" /\ source' = [source EXCEPT ![x] = "over"]
  /\ UNCHANGED <<alive, emitted, taken, run, job>>

-------------------------------------------------------------------------------
(* A collection is refused by its checks (of paths, of the endpoint, of the response's *)
(* head), begins, or has no process: then 'error' and 'close' follow.            *)
Refused(c) == run' = [run EXCEPT ![c].at = "error"] /\ UNCHANGED source
Opened(c) == run' = [run EXCEPT ![c].at = "collects"] /\ source' = [source EXCEPT ![c] = "open"]
NoProcess(c) ==
  /\ run[c].kind # "catalog"
  /\ run' = [run EXCEPT ![c].at = "collects", ![c].failing = TRUE]
  /\ source' = [source EXCEPT ![c] = "over"]
Begins(c) ==
  /\ run[c].at = "new" /\ (Refused(c) \/ Opened(c) \/ NoProcess(c))
  /\ UNCHANGED <<alive, emitted, taken, job>>

(* fail: a process is killed and its close awaited; a body's reader is cancelled.  *)
Failed(c) == [run EXCEPT ![c].failing = TRUE,
                         ![c].at = IF run[c].kind = "catalog" THEN "error" ELSE @]
Takes(c) ==
  /\ run[c].at = "collects" /\ taken[c] < emitted[c]
  /\ taken' = [taken EXCEPT ![c] = @ + 1]
  /\ run' = IF run[c].kept < OutputLimit THEN [run EXCEPT ![c].kept = @ + 1] ELSE Failed(c)
  /\ UNCHANGED <<alive, source, emitted, job>>
(* The timer, the other stream's limit, or a broken body.                      *)
Breaks(c) ==
  /\ run[c].at = "collects" /\ ~run[c].failing /\ run' = Failed(c)
  /\ UNCHANGED <<alive, source, emitted, taken, job>>

(* 'close', after the last chunk; the body's done.  An execution's exit code is its *)
(* caller's business; a document and a catalog must also be well formed.         *)
Exited(c) == source[c] = "over"     \* mutant: 'exit' instead of 'close'
Closed(c) == source[c] = "over" /\ taken[c] = emitted[c]
Document == {"writes", "error"}
Catalog == Answered
AfterClose(c) ==
  IF run[c].failing THEN {"error"}
  ELSE CASE run[c].kind = "execute" -> {"ok"} [] run[c].kind = "pdf" -> Document [] OTHER -> Catalog
Closes(c) ==
  /\ run[c].at = "collects" /\ Closed(c)
  /\ \E at \in AfterClose(c) : run' = [run EXCEPT ![c].at = at]
  /\ UNCHANGED <<alive, source, emitted, taken, job>>
(* The create-only write of the document.                                      *)
WritesDocument(c) ==
  /\ run[c].at = "writes"
  /\ \E at \in Answered : run' = [run EXCEPT ![c].at = at]
  /\ UNCHANGED <<alive, source, emitted, taken, job>>

-------------------------------------------------------------------------------
(* A job; a spawn that fails is an 'error' event nobody listens to: the adapter's  *)
(* process ends.                                                              *)
StartJob(j) ==
  /\ job[j].state = "none"
  /\ job' = [job EXCEPT ![j] = [state |-> "RUNNING", child |-> TRUE, timer |-> TRUE]]
  /\ \/ source' = [source EXCEPT ![j] = "open"] /\ UNCHANGED alive
     \/ alive' = FALSE /\ UNCHANGED source
  /\ UNCHANGED <<emitted, taken, run>>
AnyJob(j) == job[j].state # "none"     \* mutant: stop without the test of the child
Stoppable(j) == job[j].child
StopJob(j) ==
  /\ Stoppable(j) /\ job' = [job EXCEPT ![j].state = "STOPPING"]
  /\ UNCHANGED <<alive, source, emitted, taken, run>>
JobTimeout(j) ==
  /\ job[j].timer
  /\ job' = [job EXCEPT ![j].timer = FALSE, ![j].state = IF job[j].child THEN "TIMED_OUT" ELSE @]
  /\ UNCHANGED <<alive, source, emitted, taken, run>>
JobCloses(j) ==
  /\ job[j].child /\ source[j] = "over"
  /\ job' = [job EXCEPT ![j] = [state |-> "EXITED", child |-> FALSE, timer |-> FALSE]]
  /\ UNCHANGED <<alive, source, emitted, taken, run>>

DesktopRunsNext ==
  /\ alive
  /\ \/ \E x \in Jobs \union Collections : SourceEnds(x)
     \/ \E c \in Collections :
          Emits(c) \/ Begins(c) \/ Takes(c) \/ Breaks(c) \/ Closes(c) \/ WritesDocument(c)
     \/ \E j \in Jobs : StartJob(j) \/ StopJob(j) \/ JobTimeout(j) \/ JobCloses(j)

DesktopRunsSpec == DesktopRunsInit /\ [][DesktopRunsNext]_runVars

-------------------------------------------------------------------------------
(* Outcomes can be relied on: a job that is EXITED was left by its process and    *)
(* stays so, whatever stop or timer comes late; and a collection is answered with   *)
(* a result only if its source came to its end by itself, within limit and time,    *)
(* and every chunk it emitted, however late, is in the answer.                   *)
Whole(c) == source[c] = "over" /\ ~run[c].failing /\ run[c].kept = emitted[c]
JobIsOver(j) == job[j].state = "EXITED" /\ source[j] = "over"
OutcomesStand ==
  [][ /\ \A j \in Jobs : job[j].state = "EXITED" => JobIsOver(j)'
      /\ \A c \in Collections : run'[c].at = "ok" => Whole(c)' ]_runVars
===============================================================================
