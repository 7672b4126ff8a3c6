------------------------------- MODULE PhoneLink -------------------------------
(***************************************************************************)
(* The phone's connection to the relay (RemoteRelayService.kt): a service  *)
(* the owner starts and stops, whose fields the main thread, HTTP threads  *)
(* and the threads of each socket share without a lock: the reader, and    *)
(* those that find a ping unanswered or a write failed and report the end  *)
(* while the reader still handles a message.  An instance of               *)
(* the service outlives its own onDestroy in the callbacks it has          *)
(* registered, and its sockets write the same preferences as those of the  *)
(* next instance.  The delay before a reconnect is left out: a scheduled   *)
(* reconnect may run at any time.                                          *)
(***************************************************************************)
EXTENDS Naturals, FiniteSets, Sequences

CONSTANTS
  Insts, Socks,                 \* service instances and sockets; ids are used again
  None, Dead,                   \* no socket, and a socket that has already failed
  MaxQueue, MaxFetch, MaxEnds   \* bounds of the model: intents and configuration
                                \* calls under way, and stops and kills

ASSUME LinkAssumption ==
  /\ None \notin Insts \union Socks /\ Dead \notin Socks \union {None}
  /\ MaxQueue \in Nat /\ MaxFetch \in Nat \ {0} /\ MaxEnds \in Nat

VARIABLES
  enabled, connected,  \* preferences; TRUE is "yes", or "left" by a killed process,
                       \* or written "late", after the socket's end was reported
  queue,               \* intents on their way to the main thread
  service,             \* the instance that runs, or None
  field, connecting,   \* webSocket and connecting of an instance
  fetch,               \* configuration calls of an instance under way
  timer,               \* instances with a reconnect posted to the handler
  shut,                \* instances whose executor is shut down
  owner, sock,         \* the instance and the state of a socket
  assigning,           \* sockets newWebSocket has started and not yet returned
  acking,              \* sockets that ended while their reader handled the answer
                       \* to the hello, which it has yet to write down
  ends

prefs == <<enabled, connected>>
fields == <<field, connecting, fetch, timer, shut>>
sockets == <<owner, sock, assigning, acking>>
vars == <<prefs, queue, service, fields, sockets, ends>>

Live == {"opening", "open", "authed"}
Closing == {"closing", "closed"}   \* close() was called, with the relay's answer to
                                   \* the hello outstanding or not
TypeOK ==
  /\ enabled \in BOOLEAN /\ connected \in {"no", "yes", "left", "late"}
  /\ queue \in Seq({"start", "stop"}) /\ Len(queue) <= MaxQueue + 1
  /\ service \in Insts \union {None} /\ service \notin shut
  /\ field \in [Insts -> Socks \union {None, Dead}]
  /\ connecting \in [Insts -> BOOLEAN]
  /\ fetch \in [Insts -> 0 .. MaxFetch]
  /\ timer \subseteq Insts /\ shut \subseteq Insts
  /\ owner \in [Socks -> Insts \union {None}]
  /\ sock \in [Socks -> {"gone", "ended"} \union Live \union Closing]
  /\ \A s \in Socks : owner[s] = None => sock[s] = "gone" /\ s \notin assigning
  /\ assigning \subseteq Socks /\ acking \subseteq Socks
  /\ ends \in 0 .. MaxEnds

Init ==
  /\ enabled = FALSE /\ connected = "no" /\ queue = <<>> /\ service = None
  /\ field = [i \in Insts |-> None] /\ connecting = [i \in Insts |-> FALSE]
  /\ fetch = [i \in Insts |-> 0] /\ timer = {} /\ shut = {}
  /\ owner = [s \in Socks |-> None] /\ sock = [s \in Socks |-> "gone"]
  /\ assigning = {} /\ acking = {} /\ ends = 0

-------------------------------------------------------------------------------
(* start and stop, called on the main thread by the owner's screens.          *)
Start ==
  /\ Len(queue) < MaxQueue
  /\ enabled' = TRUE
  /\ queue' = Append(queue, "start")
  /\ UNCHANGED <<connected, service, fields, sockets, ends>>
Stop ==
  /\ Len(queue) < MaxQueue /\ ends < MaxEnds
  /\ ends' = ends + 1
  /\ enabled' = FALSE /\ connected' = "no"
  /\ queue' = Append(queue, "stop")
  /\ UNCHANGED <<service, fields, sockets>>

(* connect(), which only the main thread calls.                               *)
MayConnect(i) == enabled /\ ~connecting[i] /\ field[i] = None
Connect(i) ==
  /\ fetch[i] < MaxFetch
  /\ connecting' = [connecting EXCEPT ![i] = TRUE]
  /\ fetch' = [fetch EXCEPT ![i] = @ + 1]
  /\ connected' = "no"

(* An intent to start creates the service if none runs (onCreate), and is      *)
(* handed to it (onStartCommand), which stops itself when it is not enabled.   *)
Quiet(i) == /\ i # service /\ fetch[i] = 0 /\ i \notin timer
            /\ \A s \in Socks : owner[s] # i
Executors(i) == shut \ {i}
Fresh(S) == CHOOSE x \in S : TRUE   \* which id is used does not matter
CreateAs(i) ==
  /\ service' = i
  /\ field' = [field EXCEPT ![i] = None]
  /\ timer' = timer \ {i} /\ shut' = Executors(i)
  /\ IF enabled
     THEN /\ connecting' = [connecting EXCEPT ![i] = TRUE]
          /\ fetch' = [fetch EXCEPT ![i] = 1]
          /\ connected' = "no" /\ queue' = Tail(queue)
     ELSE /\ connecting' = [connecting EXCEPT ![i] = FALSE]
          /\ queue' = Append(Tail(queue), "stop")
          /\ UNCHANGED <<fetch, connected>>
Create ==
  /\ queue # <<>> /\ Head(queue) = "start" /\ service = None
  /\ \E i \in Insts : Quiet(i)
  /\ CreateAs(Fresh({i \in Insts : Quiet(i)}))
  /\ UNCHANGED <<enabled, sockets, ends>>
StartCommand ==
  /\ queue # <<>> /\ Head(queue) = "start" /\ service # None
  /\ IF enabled THEN queue' = Tail(queue) ELSE queue' = Append(Tail(queue), "stop")
  /\ IF MayConnect(service) THEN Connect(service)
     ELSE UNCHANGED <<connecting, fetch, connected>>
  /\ UNCHANGED <<enabled, service, field, timer, shut, sockets, ends>>

(* onDestroy: the socket in the field is asked to close, and its callback      *)
(* comes later.                                                               *)
AskedToClose(s) == IF sock[s] = "open" THEN "closing" ELSE "closed"
Destroy ==
  /\ queue # <<>> /\ Head(queue) = "stop"
  /\ queue' = Tail(queue)
  /\ IF service = None THEN UNCHANGED <<connected, service, fields, sock>>
     ELSE /\ service' = None
          /\ field' = [field EXCEPT ![service] = None]
          /\ connecting' = [connecting EXCEPT ![service] = FALSE]
          /\ timer' = timer \ {service} /\ shut' = shut \union {service}
          /\ connected' = "no" /\ UNCHANGED fetch
          /\ sock' = [s \in Socks |-> IF s = field[service] THEN AskedToClose(s) ELSE sock[s]]
  /\ UNCHANGED <<enabled, owner, assigning, acking, ends>>

(* The posted reconnect.                                                      *)
Reconnect(i) ==
  /\ i \in timer
  /\ timer' = timer \ {i}
  /\ IF MayConnect(i) THEN Connect(i)
     ELSE UNCHANGED <<connecting, fetch, connected>>
  /\ UNCHANGED <<enabled, queue, service, field, shut, sockets, ends>>

-------------------------------------------------------------------------------
ScheduleNothing(i) == {}   \* mutant: no reconnect after a failure
Schedule(i) == IF enabled THEN {i} ELSE {}

(* The configuration call ends, well or not, and openRelay runs.  On an         *)
(* executor that is shut down newWebSocket fails before it returns.           *)
OpenDisabled(i) ==
  /\ ~enabled
  /\ connecting' = [connecting EXCEPT ![i] = FALSE]
  /\ UNCHANGED <<connected, field, timer, sockets>>
OpenRejected(i) ==
  /\ enabled /\ i \in shut
  /\ connecting' = [connecting EXCEPT ![i] = FALSE]
  /\ connected' = "no" /\ timer' = timer \union Schedule(i)
  /\ field' = [field EXCEPT ![i] = Dead]
  /\ UNCHANGED sockets
OpenSocket(i, s) ==
  /\ enabled /\ i \notin shut
  /\ owner' = [owner EXCEPT ![s] = i]
  /\ sock' = [sock EXCEPT ![s] = "opening"]
  /\ assigning' = assigning \union {s}
  /\ UNCHANGED <<connecting, connected, field, timer, acking>>
Unused == {s \in Socks \ acking : owner[s] = None}
OpenRelay(i) ==
  /\ fetch[i] > 0
  /\ fetch' = [fetch EXCEPT ![i] = @ - 1]
  /\ \/ OpenDisabled(i)
     \/ OpenRejected(i)
     \/ Unused # {} /\ OpenSocket(i, Fresh(Unused))
  /\ UNCHANGED <<enabled, queue, service, shut, ends>>

(* newWebSocket returns and its result is assigned to the field.               *)
Forget(s) == owner' = [owner EXCEPT ![s] = None]
Failed(s) == sock[s] \in {"ended", "gone"}
Assign(s) ==
  /\ s \in assigning
  /\ assigning' = assigning \ {s}
  /\ field' = [field EXCEPT ![owner[s]] = IF Failed(s) THEN Dead ELSE s]
  /\ IF sock[s] = "gone" THEN Forget(s) ELSE UNCHANGED owner
  /\ UNCHANGED <<prefs, queue, service, connecting, fetch, timer, shut, sock, acking, ends>>

(* onOpen and the hello, and the relay's answer.                              *)
SocketOpens(s) ==
  /\ sock[s] = "opening"
  /\ sock' = [sock EXCEPT ![s] = "open"]
  /\ connecting' = [connecting EXCEPT ![owner[s]] = FALSE]
  /\ connected' = "no"
  /\ UNCHANGED <<enabled, queue, service, field, fetch, timer, shut, owner, assigning, acking, ends>>
GreetsNever(s) == FALSE   \* mutant: onOpen sends no hello
Greets(s) == sock[s] \in {"open", "closing"}
HelloAck(s) ==
  /\ Greets(s)
  /\ sock' = [sock EXCEPT ![s] = IF @ = "open" THEN "authed" ELSE "closed"]
  /\ connected' = "yes"
  /\ UNCHANGED <<enabled, queue, service, fields, owner, assigning, acking, ends>>
RelayError(s) ==
  /\ sock[s] \in (Live \union Closing) \ {"opening"}
  /\ connected' = "no"
  /\ UNCHANGED <<enabled, queue, service, fields, sockets, ends>>

(* The connection is lost or closed, and onClosed or onFailure runs: it clears *)
(* the field if that holds this socket, and then connecting and the preference *)
(* whatever the field holds.                                                  *)
Clears(s) == field[owner[s]] = s
SocketEnds(s) ==
  /\ sock[s] \in Live \union Closing
  /\ sock' = [sock EXCEPT ![s] = "ended"]
  /\ \/ UNCHANGED acking
     \/ Greets(s) /\ acking' = acking \union {s}
  /\ IF Clears(s) THEN field' = [field EXCEPT ![owner[s]] = None] ELSE UNCHANGED field
  /\ UNCHANGED <<prefs, queue, service, connecting, fetch, timer, shut, owner, assigning, ends>>
ReportEnd(s) ==
  /\ sock[s] = "ended"
  /\ sock' = [sock EXCEPT ![s] = "gone"]
  /\ connecting' = [connecting EXCEPT ![owner[s]] = FALSE]
  /\ connected' = "no"
  /\ timer' = timer \union Schedule(owner[s])
  /\ IF s \in assigning THEN UNCHANGED owner ELSE Forget(s)
  /\ UNCHANGED <<enabled, queue, service, field, fetch, shut, assigning, acking, ends>>

(* A reader that held the relay's answer when its socket ended sets connected. *)
SetConnected(s) ==
  /\ s \in acking
  /\ acking' = acking \ {s}
  /\ connected' = IF sock[s] = "gone" THEN "late" ELSE "yes"
  /\ UNCHANGED <<enabled, queue, service, fields, owner, sock, assigning, ends>>

(* Android kills the process; a service that was running is started again      *)
(* (START_STICKY).                                                            *)
Kill ==
  /\ ends < MaxEnds /\ queue = <<>>
  /\ ends' = ends + 1
  /\ connected' = IF connected # "no" THEN "left" ELSE connected
  /\ queue' = IF service = None THEN <<>> ELSE <<"start">>
  /\ service' = None
  /\ field' = [i \in Insts |-> None] /\ connecting' = [i \in Insts |-> FALSE]
  /\ fetch' = [i \in Insts |-> 0] /\ timer' = {} /\ shut' = {}
  /\ owner' = [s \in Socks |-> None] /\ sock' = [s \in Socks |-> "gone"]
  /\ assigning' = {} /\ acking' = {}
  /\ UNCHANGED enabled

SockStep(s) ==
  \/ SocketOpens(s) \/ HelloAck(s) \/ RelayError(s) \/ SocketEnds(s)
  \/ ReportEnd(s) \/ SetConnected(s) \/ Assign(s)
Next ==
  \/ Start \/ Stop \/ Create \/ StartCommand \/ Destroy \/ Kill
  \/ \E i \in Insts : Reconnect(i) \/ OpenRelay(i)
  \/ \E s \in Socks : SockStep(s)

(* Threads and posted tasks run, a configuration call ends, and a connection    *)
(* attempt and a hello are answered or fail.                                  *)
Fairness ==
  /\ WF_vars(Create \/ StartCommand \/ Destroy)
  /\ \A i \in Insts : WF_vars(Reconnect(i)) /\ WF_vars(OpenRelay(i))
  /\ \A s \in Socks :
       /\ WF_vars(Assign(s) \/ ReportEnd(s)) /\ WF_vars(SetConnected(s))
       /\ WF_vars(sock[s] # "authed" /\ (SocketOpens(s) \/ HelloAck(s) \/ SocketEnds(s)))
(* The network lets a connection through once in a while.                      *)
Network == \A s \in Socks : SF_vars(SocketOpens(s)) /\ SF_vars(HelloAck(s))

Spec == Init /\ [][Next]_vars
FairSpec == Spec /\ Fairness
ConnectedSpec == FairSpec /\ Network

-------------------------------------------------------------------------------
(* "connected" is not for ever wrong, though no attempt to connect need succeed: *)
(* when it says so and no socket is authenticated, closing or reporting its     *)
(* end - the process was killed, or a reader wrote it after another thread had *)
(* reported the end - it is cleared, or a socket comes to stand behind it,     *)
(* unless the bridge is disabled or its service stuck.                        *)
Backed == \E s \in Socks : sock[s] \in {"authed", "closed", "ended"}
Stuck(i) == field[i] = Dead
StatusHeals ==
  connected # "no" /\ ~Backed ~>
    connected = "no" \/ Backed \/ ~enabled \/ (service # None /\ Stuck(service))

(* While the bridge is enabled a service runs, or an intent to start it is on  *)
(* its way, and something is under way that will connect it: a reconnect, a     *)
(* configuration call or a socket.  The exception is a field that holds a      *)
(* socket which failed before it was assigned.                                *)
Underway(i) == i \in timer \/ fetch[i] > 0 \/ \E s \in Socks : owner[s] = i
NeverIdle ==
  enabled /\ queue = <<>> => service # None /\ (Stuck(service) \/ Underway(service))

(* "The phone reconnects automatically" (docs/REMOTE-PAIRING.md), as far as it *)
(* goes: while the owner leaves the bridge enabled, and the network lets a      *)
(* connection through once in a while, the phone is reachable again and again, *)
(* or its service is stuck as above.                                          *)
Reachable == \E s \in Socks : sock[s] = "authed"
ReconnectsUnlessStuck ==
  Network /\ <>[]enabled => []<>(Reachable \/ (service # None /\ Stuck(service)))

(* The same sentence, as the document has it.                                 *)
Reconnects == <>[]enabled => []<>Reachable

===============================================================================
