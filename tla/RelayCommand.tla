----------------------------- MODULE RelayCommand -----------------------------
(***************************************************************************)
(* A command on its way from the desktop's RelayAdapter                    *)
(* (packages/agent-relay/index.mjs) through the relay to the phone          *)
(* (RemoteRelayService.kt, RemoteCommandRouter.kt, FormulaF8Gate.kt,        *)
(* LocalAuthority.kt, ReceiptStore.kt) and back.  The relay is not in the   *)
(* repository: it may lose, delay or repeat what it carries.  Each arrival  *)
(* of a command at the phone is a thread of its own.                        *)
(***************************************************************************)
EXTENDS Naturals, FiniteSets

CONSTANTS
  Commands,      \* calls of RelayAdapter.execute, each with its own id
  Chats,         \* those whose capability is agent.chat
  Arrivals,      \* threads of executeRemoteCommand
  MaxInstance    \* bound of the model: instances of the phone's service

ASSUME RelayAssumption == Chats \subseteq Commands /\ MaxInstance \in Nat \ {0}

Instances == 1 .. MaxInstance

VARIABLES
  adapter,       \* what execute has done for a command: its promise and its socket
  outbound,      \* commands the relay holds for the phone
  inbound,       \* results the relay holds for the adapter
  instance,      \* the living instance of RemoteRelayService
  seen,          \* seenCommandIds of each instance
  access,        \* LocalAuthority: agent_access_enabled
  thread,        \* a thread: its place, command, the instance it belongs to, and its flags
  receipts,      \* local_receipts
  recorded,      \* history: every receipt that was written since the process began, or was there then
  clashed,       \* history: two calls of record overlapped since the process began
  effects        \* history: how often a command took effect in an instance

receiptStore == <<receipts, recorded, clashed>>
phone == <<instance, seen, access, thread, receiptStore, effects>>
relayVars == <<adapter, outbound, inbound, phone>>

Answers == {"none", "ok", "error"}
Entries == Arrivals \X {"chat", "relay"}

RelayTypeOK ==
  /\ adapter \in [Commands -> {"new", "hello", "sent", "ok", "error"}]
  /\ outbound \subseteq Commands /\ inbound \subseteq [cmd : Commands, ok : BOOLEAN]
  /\ instance \in Instances /\ access \in BOOLEAN
  /\ seen \in [Instances -> SUBSET Commands]
  /\ thread \in [Arrivals ->
       [at : {"idle", "new", "gate", "run", "chat", "relay", "send", "gone"}, cmd : Commands \union {"none"},
        born : Instances, ok : BOOLEAN, first : BOOLEAN, reading : BOOLEAN, list : SUBSET Entries]]
  /\ receipts \subseteq Entries /\ recorded \subseteq Entries /\ clashed \in BOOLEAN
  /\ effects \in [Commands -> [Instances -> Nat]]

RelayInit ==
  /\ adapter = [c \in Commands |-> "new"] /\ outbound = {} /\ inbound = {}
  /\ instance = 1 /\ access \in BOOLEAN
  /\ seen = [g \in Instances |-> {}]
  /\ thread = [t \in Arrivals |-> [at |-> "idle", cmd |-> "none", born |-> 1, ok |-> FALSE, first |-> FALSE,
                                   reading |-> FALSE, list |-> {}]]
  /\ receipts = {} /\ recorded = {} /\ clashed = FALSE
  /\ effects = [c \in Commands |-> [g \in Instances |-> 0]]

-------------------------------------------------------------------------------
(* RelayAdapter.execute: hello, then the command once the hello is acknowledged. *)
Hello(c) ==
  /\ adapter[c] = "new" /\ adapter' = [adapter EXCEPT ![c] = "hello"]
  /\ UNCHANGED <<outbound, inbound, phone>>
HelloAck(c) ==
  /\ adapter[c] = "hello" /\ adapter' = [adapter EXCEPT ![c] = "sent"]
  /\ outbound' = outbound \union {c}
  /\ UNCHANGED <<inbound, phone>>
(* done: by a result, or by the timer, an error message or the end of the socket. *)
Result(c, r) ==
  /\ adapter[c] = "sent" /\ r \in inbound /\ r.cmd = c
  /\ adapter' = [adapter EXCEPT ![c] = IF r.ok THEN "ok" ELSE "error"]
  /\ UNCHANGED <<outbound, inbound, phone>>
GivesUp(c) ==
  /\ adapter[c] \in {"hello", "sent"} /\ adapter' = [adapter EXCEPT ![c] = "error"]
  /\ UNCHANGED <<outbound, inbound, phone>>

(* The relay loses a command or a result; what it does not lose it may repeat.  *)
LosesCommand(c) ==
  /\ c \in outbound /\ outbound' = outbound \ {c}
  /\ UNCHANGED <<adapter, inbound, phone>>
LosesResult(r) ==
  /\ inbound' = inbound \ {r} /\ r \in inbound
  /\ UNCHANGED <<adapter, outbound, phone>>

-------------------------------------------------------------------------------
Steps(t, from, new) ==
  /\ thread[t].at = from
  /\ thread' = [thread EXCEPT ![t] = new]
Arrives(t, c) ==
  /\ c \in outbound
  /\ Steps(t, "idle", [thread[t] EXCEPT !.at = "new", !.cmd = c, !.born = instance])
  /\ UNCHANGED <<adapter, outbound, inbound, instance, seen, access, receiptStore, effects>>
AlwaysFirst(t) == TRUE   \* mutant: the answer of seenCommandIds.add is not used
FirstSeen(t) == thread[t].cmd \notin seen[thread[t].born]
Marks(t) ==
  /\ Steps(t, "new", [thread[t] EXCEPT !.at = "gate", !.first = FirstSeen(t)])
  /\ seen' = [seen EXCEPT ![thread[t].born] = @ \union {thread[t].cmd}]
  /\ UNCHANGED <<adapter, outbound, inbound, instance, access, receiptStore, effects>>

(* RemoteCommandRouter.execute: the gate, whose other conditions may fail too.   *)
Fires(t) == access /\ thread[t].first
Gate(t) ==
  /\ \/ Fires(t) /\ Steps(t, "gate", [thread[t] EXCEPT !.at = "run"])
     \/ Steps(t, "gate", [thread[t] EXCEPT !.at = "relay"])
  /\ UNCHANGED <<adapter, outbound, inbound, instance, seen, access, receiptStore, effects>>
(* The capability: done, done but reported as failed, or not done.             *)
Runs(t) ==
  LET c == thread[t].cmd
      Then(ok) == [thread[t] EXCEPT !.at = IF ok /\ c \in Chats THEN "chat" ELSE "relay", !.ok = ok]
  IN /\ \/ /\ \E ok \in BOOLEAN : Steps(t, "run", Then(ok))
           /\ effects' = [effects EXCEPT ![c][thread[t].born] = @ + 1]
        \/ Steps(t, "run", Then(FALSE)) /\ UNCHANGED effects
     /\ UNCHANGED <<adapter, outbound, inbound, instance, seen, access, receiptStore>>

(* ReceiptStore.record: the list is read, then written back with one more; of a  *)
(* chat by the router first, of every command by the service.                 *)
ReadsList(t) ==
  /\ thread[t].at \in {"chat", "relay"} /\ ~thread[t].reading
  /\ thread' = [thread EXCEPT ![t].reading = TRUE, ![t].list = receipts]
  /\ clashed' = (clashed \/ \E u \in Arrivals : thread[u].reading)
  /\ UNCHANGED <<adapter, outbound, inbound, instance, seen, access, receipts, recorded, effects>>
OnlyNew(t) == {<<t, thread[t].at>>}     \* mutant: the list begins anew
Extended(t) == thread[t].list \union {<<t, thread[t].at>>}
WritesList(t) ==
  /\ thread[t].at \in {"chat", "relay"} /\ thread[t].reading
  /\ receipts' = Extended(t) /\ recorded' = recorded \union {<<t, thread[t].at>>}
  /\ thread' = [thread EXCEPT ![t].reading = FALSE, ![t].list = {},
                              ![t].at = IF @ = "chat" THEN "relay" ELSE "send"]
  /\ UNCHANGED <<adapter, outbound, inbound, instance, seen, access, clashed, effects>>
(* ws.send, on a socket that may be closed.                                   *)
SendsResult(t) ==
  /\ Steps(t, "send", [thread[t] EXCEPT !.at = "gone"])
  /\ inbound' \in {inbound, inbound \union {[cmd |-> thread[t].cmd, ok |-> thread[t].ok]}}
  /\ UNCHANGED <<adapter, outbound, instance, seen, access, receiptStore, effects>>

(* The owner switches access; the service is destroyed and created again, with   *)
(* its threads or, when the process is killed, without them and with the list     *)
(* that had reached the disk (record writes it with apply).                      *)
SwitchAccess ==
  /\ access' = ~access
  /\ UNCHANGED <<adapter, outbound, inbound, instance, seen, thread, receiptStore, effects>>
ServiceRestarts ==
  /\ instance < MaxInstance /\ instance' = instance + 1
  /\ UNCHANGED <<adapter, outbound, inbound, seen, access, thread, receiptStore, effects>>
PhoneKilled ==
  /\ instance < MaxInstance /\ instance' = instance + 1
  /\ thread' = [t \in Arrivals |-> IF thread[t].at = "idle" THEN thread[t]
                                   ELSE [thread[t] EXCEPT !.at = "gone", !.reading = FALSE, !.list = {}]]
  /\ receipts' \in SUBSET recorded /\ recorded' = receipts' /\ clashed' = FALSE
  /\ UNCHANGED <<adapter, outbound, inbound, seen, access, effects>>

ThreadStep(t) ==
  Marks(t) \/ Gate(t) \/ Runs(t) \/ ReadsList(t) \/ WritesList(t) \/ SendsResult(t)
AdapterStep(c) ==
  Hello(c) \/ HelloAck(c) \/ GivesUp(c) \/ LosesCommand(c) \/ \E ok \in BOOLEAN : Result(c, [cmd |-> c, ok |-> ok])
RelayNext ==
  \/ SwitchAccess \/ ServiceRestarts \/ PhoneKilled
  \/ \E c \in Commands : AdapterStep(c) \/ \E ok \in BOOLEAN : LosesResult([cmd |-> c, ok |-> ok])
  \/ \E t \in Arrivals : ThreadStep(t) \/ \E c \in Commands : Arrives(t, c)

RelaySpec == RelayInit /\ [][RelayNext]_relayVars

-------------------------------------------------------------------------------
answers == [c \in Commands |-> IF adapter[c] \in {"ok", "error"} THEN adapter[c] ELSE "none"]
Promise == INSTANCE DevicePromise WITH answer <- answers

(* The path keeps its promise: one effect in the life of an instance however     *)
(* often the relay repeats the command and however threads interleave, and no   *)
(* ok for a command that took no effect.                                       *)
KeepsDevicePromise == Promise!Spec

(* A receipt that was written stays in the list while the process lives, as long   *)
(* as no two calls of record overlap: neither a restart of the service, nor a      *)
(* chat's second receipt, nor a repeated command takes one away.  (Of two that     *)
(* overlap the later write drops what the earlier one added.)                    *)
ReceiptsAreKept == ~clashed => recorded \subseteq receipts
===============================================================================
