---------------------------- MODULE PhoneWorkstation ----------------------------
(***************************************************************************)
(* The phone's workstation worker (clients/phone-workstation/worker.mjs) and  *)
(* the remote controller (clients/remote-controller/client.mjs), with the    *)
(* relay between them: what it holds it may deliver once, often or never.  The *)
(* worker handles the commands that arrive concurrently; its receipts are a  *)
(* file whose append may fail.                                               *)
(***************************************************************************)
EXTENDS Naturals

CONSTANTS
  Controllers,   \* runs of the controller, each with its one command
  Handlings,     \* handlers of a command message
  MaxSockets     \* bound of the model: connections of the worker

ASSUME WorkstationAssumption == MaxSockets \in Nat

VARIABLES
  console,       \* a controller: its place, or what it has printed or exited with
  commands,      \* commands the relay holds for the worker
  results,       \* results the relay holds for the controllers
  station,       \* the worker's process and its connection
  handling,      \* a handler: its place, command and connection, and whether it took effect
  kept           \* receipts.jsonl: the handler and its status

workVars == <<console, commands, results, station, handling, kept>>

Statuses == {"PASS", "FAIL", "BLOCKED"}

HandlingOf == [at : {"idle", "execute", "over"}, cmd : Controllers \union {"none"},
               socket : 0 .. MaxSockets, did : BOOLEAN]
WorkTypeOK ==
  /\ console \in [Controllers -> {"start", "hello", "sent", "ok", "failed", "exit"}]
  /\ commands \subseteq Controllers /\ results \subseteq [cmd : Controllers, ok : BOOLEAN]
  /\ station \in [alive : BOOLEAN, socket : 0 .. MaxSockets, open : BOOLEAN]
  /\ handling \in [Handlings -> HandlingOf]
  /\ kept \subseteq Handlings \X Statuses

WorkInit ==
  /\ console = [c \in Controllers |-> "start"] /\ commands = {} /\ results = {}
  /\ station = [alive |-> FALSE, socket |-> 0, open |-> FALSE]
  /\ handling = [t \in Handlings |-> [at |-> "idle", cmd |-> "none", socket |-> 0, did |-> FALSE]]
  /\ kept = {}

-------------------------------------------------------------------------------
(* The controller: hello, and the command at every acknowledgement of it; a result of *)
(* its own id is printed, also one that comes while its socket closes; a timer, or an  *)
(* error of the socket, ends it.                                                *)
ControllerHello(c) ==
  /\ console[c] = "start" /\ console' = [console EXCEPT ![c] = "hello"]
  /\ UNCHANGED <<commands, results, station, handling, kept>>
ControllerSends(c) ==
  /\ console[c] \in {"hello", "sent"} /\ console' = [console EXCEPT ![c] = "sent"]
  /\ commands' = commands \union {c}
  /\ UNCHANGED <<results, station, handling, kept>>
ControllerPrints(c, ok) ==
  /\ console[c] \notin {"start", "exit"} /\ [cmd |-> c, ok |-> ok] \in results
  /\ console' = [console EXCEPT ![c] = IF ok THEN "ok" ELSE "failed"]
  /\ UNCHANGED <<commands, results, station, handling, kept>>
ControllerExits(c) ==
  /\ console[c] \in {"start", "hello", "sent"} /\ console' = [console EXCEPT ![c] = "exit"]
  /\ UNCHANGED <<commands, results, station, handling, kept>>

-------------------------------------------------------------------------------
(* The worker's process ends, killed or by a receipt that cannot be written where     *)
(* nothing catches the error; its handlers end with it.                         *)
Gone == [t \in Handlings |-> IF handling[t].at = "execute" THEN [handling[t] EXCEPT !.at = "over"]
                             ELSE handling[t]]
WorkerEnds ==
  /\ station.alive /\ station' = [station EXCEPT !.alive = FALSE, !.open = FALSE]
  /\ handling' = Gone
  /\ UNCHANGED <<console, commands, results, kept>>
(* It starts; a connection opens, at first or some backoff after the last has closed, and *)
(* its hello is acknowledged.                                                   *)
WorkerStarts ==
  /\ ~station.alive /\ station' = [station EXCEPT !.alive = TRUE]
  /\ UNCHANGED <<console, commands, results, handling, kept>>
SocketOpens ==
  /\ station.alive /\ ~station.open /\ station.socket < MaxSockets
  /\ station' = [station EXCEPT !.socket = @ + 1, !.open = TRUE]
  /\ UNCHANGED <<console, commands, results, handling, kept>>
SocketCloses ==
  /\ station.open /\ station' = [station EXCEPT !.open = FALSE]
  /\ UNCHANGED <<console, commands, results, handling, kept>>

(* A command arrives; execute takes effect or not, and answers or throws.          *)
CommandArrives(t, c) ==
  /\ station.open /\ c \in commands /\ handling[t].at = "idle"
  /\ handling' = [handling EXCEPT ![t] = [at |-> "execute", cmd |-> c, socket |-> station.socket, did |-> FALSE]]
  /\ UNCHANGED <<console, commands, results, station, kept>>
Execute(t) ==
  /\ handling[t].at = "execute" /\ ~handling[t].did
  /\ handling' = [handling EXCEPT ![t].did = TRUE]
  /\ UNCHANGED <<console, commands, results, station, kept>>

(* The receipt, then the result on the handler's own connection, in one turn: a       *)
(* receipt of the effect that fails is caught and told as BLOCKED.                *)
Returns(t, ok) ==
  results' = IF station.open /\ station.socket = handling[t].socket
             THEN results \union {[cmd |-> handling[t].cmd, ok |-> ok]} ELSE results
SentFirst(t, status) ==     \* mutant: the result is sent before its receipt is written
  \/ Returns(t, status = "PASS") /\ kept' = kept \union {<<t, status>>}
  \/ Returns(t, status = "PASS") /\ UNCHANGED kept
ReceiptFirst(t, status) ==
  \/ Returns(t, status = "PASS") /\ kept' = kept \union {<<t, status>>}
  \/ Returns(t, FALSE) /\ kept' = kept \union {<<t, "BLOCKED">>}
Outcomes(t) == IF handling[t].did THEN Statuses ELSE {"FAIL", "BLOCKED"}
HandlingEnds(t) ==
  /\ handling[t].at = "execute" /\ handling' = [handling EXCEPT ![t].at = "over"]
  /\ \E status \in Outcomes(t) : ReceiptFirst(t, status)
  /\ UNCHANGED <<console, commands, station>>

WorkNext ==
  \/ WorkerEnds \/ WorkerStarts \/ SocketOpens \/ SocketCloses
  \/ \E c \in Controllers :
       \/ ControllerHello(c) \/ ControllerSends(c) \/ ControllerExits(c)
       \/ \E ok \in BOOLEAN : ControllerPrints(c, ok)
  \/ \E t \in Handlings : Execute(t) \/ HandlingEnds(t) \/ \E c \in Controllers : CommandArrives(t, c)
WorkSpec == WorkInit /\ [][WorkNext]_workVars

-------------------------------------------------------------------------------
(* What a controller prints can be found on the phone: an ok is the ok of an execution  *)
(* that took effect and has its PASS receipt, a failure has the receipt of its own, in   *)
(* spite of repeated commands, receipts that fail, lost connections and restarts.      *)
Proven(c, ok) ==
  \E t \in Handlings :
    /\ handling[t].at = "over" /\ handling[t].cmd = c
    /\ IF ok THEN handling[t].did /\ <<t, "PASS">> \in kept
       ELSE <<t, "FAIL">> \in kept \/ <<t, "BLOCKED">> \in kept
PrintedIsReceipted ==
  \A c \in Controllers :
    /\ console[c] = "ok" => Proven(c, TRUE)
    /\ console[c] = "failed" => Proven(c, FALSE)
===============================================================================
