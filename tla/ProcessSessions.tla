--------------------------- MODULE ProcessSessions ---------------------------
(***************************************************************************)
(* Interactive process sessions of the desktop adapter                     *)
(* (apps/desktop/process-sessions.mjs): the table of sessions, their       *)
(* operating-system processes, the lifetime timer and the ring of retained *)
(* output, of which one stream is modelled (both are treated alike).       *)
(* STARTING is invisible: Node emits 'spawn' or 'error' before any other   *)
(* code of the adapter can run, so that spawn and its outcome are one      *)
(* action.  child.kill() emits 'error' at once when the signal cannot be   *)
(* sent, and that runs the handler meant for a failed spawn.               *)
(***************************************************************************)
EXTENDS Naturals, FiniteSets, Sequences

CONSTANTS
  Sids,        \* session ids
  MaxActive,
  Retained,    \* MAX_RETAINED, in bytes
  MaxBytes,    \* bound of the model: what a process writes
  PageSize     \* maxBytes of a read

ASSUME BoundAssumption ==
  /\ MaxActive \in Nat \ {0} /\ Retained \in Nat \ {0}
  /\ MaxBytes \in Nat /\ PageSize \in Nat \ {0}

VARIABLES
  start,       \* where DesktopSessions.start is for this id
  table,       \* ids in this.sessions
  state,
  ended,       \* endedAt: not set, set, or longer than RETAIN_MS ago
  child,       \* sessions whose child is not null
  timer,       \* sessions whose lifetime timer is armed
  alive,       \* processes that run
  unkillable,  \* history: processes a signal could not be sent to
  produced,    \* bytes a process has written
  ring,        \* retained output, each byte named by its position
  page         \* the last page a read returned, and the offset it was asked for

slot == <<start, table, state, ended, child, timer>>
os == <<alive, unkillable>>
output == <<produced, ring, page>>
vars == <<slot, os, output>>

ActiveStates == {"RUNNING", "STOPPING"}
NoPage == [offset |-> 0, bytes |-> <<>>]

TypeOK ==
  /\ start \in [Sids -> {"new", "cwd", "done", "refused"}]
  /\ table \subseteq {i \in Sids : start[i] = "done"}
  /\ state \in [Sids -> ActiveStates \union {"none", "EXITED", "TIMED_OUT", "SPAWN_FAILED"}]
  /\ ended \in [Sids -> {"no", "yes", "aged"}]
  /\ child \subseteq Sids /\ timer \subseteq child
  /\ alive \subseteq child /\ unkillable \subseteq Sids
  /\ produced \in [Sids -> 0 .. MaxBytes]
  /\ ring \in [Sids -> Seq(0 .. MaxBytes)]
  /\ page \in [offset : Nat, bytes : Seq(Nat)]

Init ==
  /\ start = [i \in Sids |-> "new"] /\ table = {}
  /\ state = [i \in Sids |-> "none"] /\ ended = [i \in Sids |-> "no"]
  /\ child = {} /\ timer = {} /\ alive = {} /\ unkillable = {}
  /\ produced = [i \in Sids |-> 0] /\ ring = [i \in Sids |-> <<>>] /\ page = NoPage

-------------------------------------------------------------------------------
Active == {i \in table : state[i] \in ActiveStates}

(* What prune leaves: every operation starts with it.                         *)
KeptInactive == {i \in table : state[i] \in ActiveStates}   \* mutant: endedAt is not looked at
Kept == {i \in table : state[i] \in ActiveStates \/ ended[i] # "aged"}

(* start, up to the await of the working directory: the capacity check.       *)
StartBegin(i) ==
  /\ start[i] = "new"
  /\ start' = [start EXCEPT ![i] =
                 IF Cardinality(Active) >= MaxActive THEN "refused" ELSE "cwd"]
  /\ table' = Kept
  /\ UNCHANGED <<state, ended, child, timer, os, output>>

ArmsNothing(i) == {}   \* mutant: no lifetime timer
Arms(i) == {i}

(* The rest of start: the directory is not safe or the spawn fails, which      *)
(* leaves no session, or the process runs.                                    *)
StartFails(i) ==
  /\ start[i] = "cwd"
  /\ start' = [start EXCEPT ![i] = "refused"]
  /\ UNCHANGED <<table, state, ended, child, timer, os, output>>
StartSpawns(i) ==
  /\ start[i] = "cwd"
  /\ start' = [start EXCEPT ![i] = "done"]
  /\ table' = table \union {i} /\ child' = child \union {i} /\ alive' = alive \union {i}
  /\ state' = [state EXCEPT ![i] = "RUNNING"]
  /\ timer' = timer \union Arms(i)
  /\ UNCHANGED <<ended, unkillable, output>>

(* child.kill(): the signal is sent, or the 'error' handler runs.             *)
KillSent(i, reason) ==
  /\ state' = [state EXCEPT ![i] = reason]
  /\ UNCHANGED <<ended, unkillable>>
KillFails(i) ==
  /\ unkillable' = unkillable \union {i}
  /\ state' = [state EXCEPT ![i] = "SPAWN_FAILED"]
  /\ ended' = [ended EXCEPT ![i] = "yes"]

StoppableAlways(i) == TRUE   \* mutant: the child and the state are not looked at
Stoppable(i) == i \in child /\ state[i] \in ActiveStates
Stop(i) ==
  /\ table' = Kept
  /\ i \in table' /\ Stoppable(i)
  /\ \/ KillSent(i, "STOPPING") /\ UNCHANGED timer
     \/ KillFails(i) /\ timer' = timer \ {i}
  /\ UNCHANGED <<start, child, alive, output>>
Timeout(i) ==
  /\ i \in timer
  /\ timer' = timer \ {i}
  /\ IF i \in child THEN KillSent(i, "TIMED_OUT") \/ KillFails(i)
     ELSE UNCHANGED <<state, ended, unkillable>>
  /\ UNCHANGED <<start, table, child, alive, output>>

(* The process ends by itself or on a signal, or never: a signal may be       *)
(* ignored.  'close' may follow, once nobody holds the other end of its pipes. *)
Exit(i) ==
  /\ i \in alive
  /\ alive' = alive \ {i}
  /\ UNCHANGED <<slot, unkillable, output>>
Keeps(i) == state[i] = "TIMED_OUT"
Disarms(i) == timer \ {i}
Close(i) ==
  /\ i \in child \ alive
  /\ child' = child \ {i}
  /\ timer' = Disarms(i)
  /\ state' = [state EXCEPT ![i] = IF Keeps(i) THEN @ ELSE "EXITED"]
  /\ ended' = [ended EXCEPT ![i] = "yes"]
  /\ UNCHANGED <<start, table, os, output>>

(* RETAIN_MS goes by.                                                         *)
Age(i) ==
  /\ ended[i] = "yes"
  /\ ended' = [ended EXCEPT ![i] = "aged"]
  /\ UNCHANGED <<start, table, state, child, timer, os, output>>

(* list, and the part of the other operations that comes before find.         *)
Prune ==
  /\ table' = Kept /\ table' # table
  /\ UNCHANGED <<start, state, ended, child, timer, os, output>>

-------------------------------------------------------------------------------
(* collect: a chunk arrives, and the ring keeps the newest bytes.             *)
OldestOf(s) == IF Len(s) > Retained THEN SubSeq(s, 1, Retained) ELSE s   \* mutant: the oldest bytes are kept
NewestOf(s) == IF Len(s) > Retained THEN SubSeq(s, Len(s) - Retained + 1, Len(s)) ELSE s
Collect(i, n) ==
  /\ i \in child /\ produced[i] + n <= MaxBytes
  /\ ring' = [ring EXCEPT ![i] = NewestOf(@ \o [k \in 1 .. n |-> produced[i] + k - 1])]
  /\ produced' = [produced EXCEPT ![i] = @ + n]
  /\ UNCHANGED <<slot, os, page>>

(* read: the cursor lies in the retained range, or the read is refused.       *)
First(i) == produced[i] - Len(ring[i])
Read(i, offset) ==
  /\ table' = Kept
  /\ i \in table' /\ offset >= First(i) /\ offset <= produced[i]
  /\ LET from == offset - First(i)
     IN  page' = [offset |-> offset,
                  bytes |-> [k \in 1 .. IF PageSize < Len(ring[i]) - from THEN PageSize
                                        ELSE Len(ring[i]) - from |-> ring[i][from + k]]]
  /\ UNCHANGED <<start, state, ended, child, timer, os, produced, ring>>

Next ==
  \/ Prune
  \/ \E i \in Sids :
       \/ StartBegin(i) \/ StartFails(i) \/ StartSpawns(i)
       \/ Stop(i) \/ Timeout(i) \/ Exit(i) \/ Close(i) \/ Age(i)
       \/ \E n \in 1 .. MaxBytes : Collect(i, n)
       \/ \E offset \in 0 .. MaxBytes : Read(i, offset)

(* Node runs a due timer; nothing obliges a process to end.                   *)
Fairness == \A i \in Sids : WF_vars(Timeout(i))
Spec == Init /\ [][Next]_vars
FairSpec == Spec /\ Fairness

-------------------------------------------------------------------------------
(* A running process never drops out of the table, where its owner can see    *)
(* and stop it, unless a signal to it failed: then prune forgets the session  *)
(* while the process runs (prune, and the 'error' handler of start).          *)
LiveIsHeld == alive \subseteq table \union unkillable

(* Once a process has closed, its session keeps the outcome it reported: no    *)
(* late timer or stop turns an exit into a timeout or a running session.      *)
OutcomeIsFinal ==
  [][\A i \in Sids : ended[i] # "no" /\ i \notin child => state'[i] = state[i]]_vars

(* A reader that follows the cursors sees the output as it was written: a page *)
(* holds the bytes from the offset asked for, whatever the ring has dropped.   *)
PageIsFaithful ==
  \A k \in 1 .. Len(page.bytes) : page.bytes[k] = page.offset + k - 1

(* "maximum 30-minute lifetime" (docs/DESKTOP-COMMANDER-PARITY-ACCEPTANCE-     *)
(* 20261024.md), as far as the adapter can see to it: no session is forgotten  *)
(* by its lifetime timer.  Its process closes, or the timer marks it and sends *)
(* it the signal, also when it has ignored a stop, unless a signal failed.     *)
LifetimeIsEnforced ==
  \A i \in Sids :
    i \in child ~> i \notin child \/ state[i] = "TIMED_OUT" \/ i \in unkillable

(* "At most eight active local sessions per desktop adapter" (the same         *)
(* document).                                                                  *)
ActiveBound == Cardinality(Active) <= MaxActive

===============================================================================
