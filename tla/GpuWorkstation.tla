----------------------------- MODULE GpuWorkstation -----------------------------
(***************************************************************************)
(* The paired GPU workstation (packages/gpu-inference/remote-service.mjs).   *)
(* A client seals a request and stamps it with its own clock; the network    *)
(* may deliver what was sent again at any time; the server admits a request  *)
(* by its stamp and its replay table, which is in its memory.               *)
(***************************************************************************)
EXTENDS Integers, FiniteSets

CONSTANTS
  Ids,                    \* request ids
  Handlers,               \* connections the server handles at a time
  Window, ReplayLimit,    \* WINDOW_MS, REPLAY_LIMIT
  Skew, MaxClock          \* bounds of the model: of the client's clock error, of time

ASSUME GpuWindowAssumption ==
  /\ Window \in Nat /\ ReplayLimit \in Nat \ {0} /\ Skew \in Nat /\ MaxClock \in Nat
  /\ Ids # {}

Stamps == -Skew .. MaxClock + Skew
Messages == [id : Ids, issued : Stamps]

VARIABLES
  clock,
  client,        \* a request of the client: not sent, waiting with its stamp, answered, given up
  wire,          \* requests that were sent
  answers,       \* answers that were sent
  table,         \* seen: ids with the time they were admitted
  handler,       \* a connection: whether its inference runs, and its request
  first,         \* history: when a request was first admitted
  again,         \* history: requests that were admitted more than once
  evicted,       \* history: ids removed to keep the table within its limit
  forgotten      \* history: ids whose window was open when the server restarted

wsVars == <<clock, client, wire, answers, table, handler, first, again, evicted, forgotten>>

Never == -Skew - 1
GpuWorkstationTypeOK ==
  /\ clock \in 0 .. MaxClock
  /\ client \in [Ids -> [at : {"new", "waits", "ok", "failed"}, issued : Stamps]]
  /\ wire \subseteq Messages /\ answers \subseteq Messages
  /\ table \subseteq [id : Ids, at : 0 .. MaxClock]
  /\ handler \in [Handlers -> [at : {"idle", "runs"}, id : Ids, issued : Stamps]]
  /\ first \in [Messages -> 0 .. MaxClock \union {Never}]
  /\ again \subseteq Messages /\ evicted \subseteq Ids /\ forgotten \subseteq Ids

GpuWorkstationInit ==
  /\ clock = 0 /\ wire = {} /\ answers = {} /\ table = {}
  /\ client = [i \in Ids |-> [at |-> "new", issued |-> 0]]
  /\ handler = [h \in Handlers |-> [at |-> "idle", id |-> CHOOSE i \in Ids : TRUE, issued |-> 0]]
  /\ first = [m \in Messages |-> Never] /\ again = {} /\ evicted = {} /\ forgotten = {}

-------------------------------------------------------------------------------
(* createRemoteGpuClient.infer: sent once, answered for its own id and stamp.     *)
Infer(i, issued) ==
  /\ client[i].at = "new" /\ issued - clock \in -Skew .. Skew
  /\ client' = [client EXCEPT ![i] = [at |-> "waits", issued |-> issued]]
  /\ wire' = wire \union {[id |-> i, issued |-> issued]}
  /\ UNCHANGED <<clock, answers, table, handler, first, again, evicted, forgotten>>
ClientReceives(i) ==
  /\ client[i].at = "waits" /\ [id |-> i, issued |-> client[i].issued] \in answers
  /\ client' = [client EXCEPT ![i].at = "ok"]
  /\ UNCHANGED <<clock, wire, answers, table, handler, first, again, evicted, forgotten>>
ClientFails(i) ==
  /\ client[i].at = "waits" /\ client' = [client EXCEPT ![i].at = "failed"]
  /\ UNCHANGED <<clock, wire, answers, table, handler, first, again, evicted, forgotten>>

(* The server: expiry, replay, then the table is extended, cleared of what is      *)
(* older than the window and cut to its limit, all before infer is awaited.  (Of   *)
(* entries of one tick any may be the first in the table.)                       *)
Recent(m) == clock - m.issued \in -Window .. Window
Unseen(m) == \A e \in table : e.id # m.id
BriefWindow(e) == clock - e.at < Window      \* mutant: an entry leaves the table a tick early
InWindow(e) == clock - e.at <= Window
Oldest(entries) == {e \in entries : \A f \in entries : e.at <= f.at}
Admit(h, m) ==
  LET kept == {e \in table : InWindow(e)}
      over == Cardinality(kept) >= ReplayLimit
  IN /\ handler[h].at = "idle" /\ m \in wire /\ Recent(m) /\ Unseen(m)
     /\ handler' = [handler EXCEPT ![h] = [at |-> "runs", id |-> m.id, issued |-> m.issued]]
     /\ \E out \in IF over THEN {{e} : e \in Oldest(kept)} ELSE {{}} :
          /\ table' = (kept \ out) \union {[id |-> m.id, at |-> clock]}
          /\ evicted' = evicted \union {e.id : e \in out}
     /\ first' = IF first[m] = Never THEN [first EXCEPT ![m] = clock] ELSE first
     /\ again' = IF first[m] = Never THEN again ELSE again \union {m}
     /\ UNCHANGED <<clock, client, wire, answers, forgotten>>

(* The adapter's inference is a call of its own: it answers, or fails, when it will. *)
InferEnds(h) ==
  /\ handler[h].at = "runs" /\ handler' = [handler EXCEPT ![h].at = "idle"]
  /\ UNCHANGED <<clock, client, wire, table, first, again, evicted, forgotten>>
InferAnswers(h) ==
  /\ InferEnds(h)
  /\ answers' = answers \union {[id |-> handler[h].id, issued |-> handler[h].issued]}
InferFails(h) == InferEnds(h) /\ UNCHANGED answers

(* The server ends and starts again, with an empty table: what was admitted in the  *)
(* open window is not remembered.                                               *)
Current == {e \in table : InWindow(e)}
ServerRestarts ==
  /\ \E h \in Handlers : handler[h].at # "idle" \/ table # {}
  /\ forgotten' = forgotten \union {e.id : e \in Current}
  /\ table' = {} /\ handler' = [h \in Handlers |-> [handler[h] EXCEPT !.at = "idle"]]
  /\ UNCHANGED <<clock, client, wire, answers, first, again, evicted>>

Tick ==
  /\ clock < MaxClock /\ clock' = clock + 1
  /\ UNCHANGED <<client, wire, answers, table, handler, first, again, evicted, forgotten>>

GpuWorkstationNext ==
  \/ Tick \/ ServerRestarts
  \/ \E i \in Ids : ClientReceives(i) \/ ClientFails(i) \/ \E issued \in Stamps : Infer(i, issued)
  \/ \E h \in Handlers :
       \/ \E m \in wire : Admit(h, m)
       \/ InferAnswers(h) \/ InferFails(h)

GpuWorkstationSpec == GpuWorkstationInit /\ [][GpuWorkstationNext]_wsVars

-------------------------------------------------------------------------------
(* A request is admitted once however often the network delivers it and however     *)
(* long its inference takes, unless the table had to give up its id, the server     *)
(* restarted within the window, or its stamp was ahead of the server's clock when    *)
(* it first came.                                                              *)
AdmittedOnce == \A m \in again : m.id \in evicted \union forgotten \/ m.issued > first[m]
===============================================================================
