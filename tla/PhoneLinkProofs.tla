---------------------------- MODULE PhoneLinkProofs ----------------------------
(***************************************************************************)
(* NeverIdle of PhoneLink, for any number of instances, sockets and        *)
(* intents.  It is not inductive: that a reconnect may be dropped because  *)
(* the field is taken or a connection is being made rests on what those    *)
(* two stand for (FieldIsLive, ConnectingIsAttempted), and that the        *)
(* service runs once the intents are handled rests on their order          *)
(* (StartIsLast).                                                          *)
(***************************************************************************)
EXTENDS PhoneLink, TLAPS

Attempted(i) == fetch[i] > 0 \/ \E s \in Socks : owner[s] = i /\ sock[s] # "gone"
FieldIsLive ==
  \A i \in Insts : field[i] \in Socks =>
    owner[field[i]] = i /\ ~Failed(field[i])
ConnectingIsAttempted == \A i \in Insts : connecting[i] => Attempted(i)
StartIsLast == enabled /\ queue # <<>> => queue[Len(queue)] = "start"
IInv == TypeOK /\ FieldIsLive /\ ConnectingIsAttempted /\ StartIsLast /\ NeverIdle

-------------------------------------------------------------------------------
(* What Create and OpenRelay pick is what they ask for, when it exists.        *)
LEMMA FreshIsIn ==
  ASSUME NEW S, S # {}
  PROVE  Fresh(S) \in S
BY DEF Fresh

(* The queue of intents: what taking the first one and adding one leave last.  *)
LEMMA TailEnd ==
  ASSUME NEW q \in Seq({"start", "stop"}), q # <<>>
  PROVE  /\ Tail(q) \in Seq({"start", "stop"}) /\ Len(Tail(q)) = Len(q) - 1
         /\ Tail(q) # <<>> => Tail(q)[Len(Tail(q))] = q[Len(q)]
         /\ Tail(q) = <<>> => Head(q) = q[Len(q)]
<1>1. Tail(q) \in Seq({"start", "stop"}) /\ Len(Tail(q)) = Len(q) - 1 /\ Len(q) \in Nat \ {0}
  OBVIOUS
<1>2. ASSUME Tail(q) # <<>> PROVE Tail(q)[Len(Tail(q))] = q[Len(q)]
  <2>1. Len(Tail(q)) \in 1 .. Len(q) - 1
    BY <1>1, <1>2
  <2> QED BY <1>1, <2>1
<1>3. ASSUME Tail(q) = <<>> PROVE Head(q) = q[Len(q)]
  <2>1. Len(q) = 1
    BY <1>1, <1>3
  <2> QED BY <2>1
<1> QED BY <1>1, <1>2, <1>3
LEMMA AppendEnd ==
  ASSUME NEW q \in Seq({"start", "stop"}), NEW m \in {"start", "stop"}
  PROVE  /\ Append(q, m) \in Seq({"start", "stop"}) /\ Append(q, m) # <<>>
         /\ Len(Append(q, m)) = Len(q) + 1 /\ Append(q, m)[Len(Append(q, m))] = m
OBVIOUS

(* An intent to start is taken: the queue keeps its type and its order.        *)
LEMMA StartTaken ==
  ASSUME IInv, queue # <<>>, UNCHANGED enabled,
         queue' = IF enabled THEN Tail(queue) ELSE Append(Tail(queue), "stop")
  PROVE  /\ queue' \in Seq({"start", "stop"}) /\ Len(queue') <= MaxQueue + 1
         /\ StartIsLast'
<1>1. queue \in Seq({"start", "stop"}) /\ Len(queue) <= MaxQueue + 1 /\ Len(queue) \in Nat
  BY DEF IInv, TypeOK
<1>2. Tail(queue) \in Seq({"start", "stop"}) /\ Len(Tail(queue)) = Len(queue) - 1
  BY <1>1, TailEnd
<1>3. CASE enabled
  BY <1>1, <1>2, <1>3, TailEnd, LinkAssumption DEF IInv, StartIsLast
<1>4. CASE ~enabled
  BY <1>1, <1>2, <1>4, AppendEnd, LinkAssumption DEF StartIsLast
<1> QED BY <1>3, <1>4

(* A step that ends nothing keeps what it is not asked about.                  *)
LEMMA NeverIdleLasts ==
  ASSUME IInv, UNCHANGED <<enabled, queue, service>>,
         \A i \in Insts : enabled /\ (Stuck(i) \/ Underway(i)) => (Stuck(i) \/ Underway(i))'
  PROVE  NeverIdle'
BY DEF IInv, TypeOK, NeverIdle, Stuck, Underway

(* connect does something, or an earlier connect still does.                   *)
LEMMA BusyIsAttempted ==
  ASSUME IInv, NEW i \in Insts, enabled, ~MayConnect(i)
  PROVE  Stuck(i) \/ Attempted(i)
<1>1. CASE connecting[i]
  BY <1>1 DEF IInv, ConnectingIsAttempted
<1>2. CASE field[i] \in Socks
  BY <1>2 DEF IInv, FieldIsLive, Attempted, Failed
<1> QED BY <1>1, <1>2 DEF IInv, TypeOK, MayConnect, Stuck
LEMMA ConnectStarts ==
  ASSUME IInv, NEW i \in Insts, Connect(i)
  PROVE  /\ connecting' \in [Insts -> BOOLEAN] /\ fetch' \in [Insts -> 0 .. MaxFetch]
         /\ connected' = "no" /\ fetch'[i] > 0
         /\ \A j \in Insts : (j # i => connecting'[j] = connecting[j]) /\ (fetch[j] > 0 => fetch'[j] > 0)
<1>1. fetch[i] \in Nat /\ fetch[i] < MaxFetch /\ fetch' = [fetch EXCEPT ![i] = fetch[i] + 1]
  BY LinkAssumption DEF IInv, TypeOK, Connect
<1>2. fetch' \in [Insts -> 0 .. MaxFetch] /\ fetch'[i] = fetch[i] + 1
  BY <1>1, LinkAssumption DEF IInv, TypeOK
<1>3. fetch'[i] > 0 /\ \A j \in Insts : fetch[j] > 0 => fetch'[j] > 0
  <2>1. fetch'[i] > 0
    BY <1>1, <1>2
  <2>2. \A j \in Insts : j # i => fetch'[j] = fetch[j]
    BY <1>1 DEF IInv, TypeOK
  <2> QED BY <2>1, <2>2
<1>4. connecting' \in [Insts -> BOOLEAN] /\ \A j \in Insts : j # i => connecting'[j] = connecting[j]
  BY DEF IInv, TypeOK, Connect
<1> QED BY <1>2, <1>3, <1>4 DEF Connect

-------------------------------------------------------------------------------
(* Each action keeps the invariant.                                           *)
LEMMA StartKeeps ==
  ASSUME IInv, Start
  PROVE  IInv'
<1>1. queue' \in Seq({"start", "stop"}) /\ Len(queue') <= MaxQueue + 1
      /\ queue' # <<>> /\ queue'[Len(queue')] = "start"
  BY AppendEnd, LinkAssumption DEF IInv, TypeOK, Start
<1>2. TypeOK'
  BY <1>1 DEF IInv, TypeOK, Start, fields, sockets
<1>3. FieldIsLive' /\ ConnectingIsAttempted'
  BY DEF IInv, FieldIsLive, Failed, ConnectingIsAttempted, Attempted, Start, fields, sockets
<1>4. StartIsLast' /\ NeverIdle'
  BY <1>1 DEF StartIsLast, NeverIdle
<1> QED BY <1>2, <1>3, <1>4 DEF IInv

LEMMA StopKeeps ==
  ASSUME IInv, Stop
  PROVE  IInv'
<1>1. queue' \in Seq({"start", "stop"}) /\ Len(queue') <= MaxQueue + 1 /\ ends' \in 0 .. MaxEnds
  BY AppendEnd, LinkAssumption DEF IInv, TypeOK, Stop
<1>2. enabled' = FALSE /\ connected' = "no" /\ UNCHANGED <<service, fields, sockets>>
  BY DEF Stop
<1>3. TypeOK'
  BY <1>1, <1>2 DEF IInv, TypeOK, fields, sockets
<1>4. FieldIsLive' /\ ConnectingIsAttempted'
  BY <1>2 DEF IInv, FieldIsLive, Failed, ConnectingIsAttempted, Attempted, fields, sockets
<1>5. StartIsLast' /\ NeverIdle'
  BY <1>2 DEF StartIsLast, NeverIdle
<1> QED BY <1>3, <1>4, <1>5 DEF IInv

LEMMA CreateKeeps ==
  ASSUME IInv, Create
  PROVE  IInv'
<1>1. PICK i \in Insts : Quiet(i) /\ CreateAs(i)
  BY FreshIsIn DEF Create
<1>2. /\ service' = i /\ field' = [field EXCEPT ![i] = None]
      /\ timer' = timer \ {i} /\ shut' = shut \ {i}
      /\ connecting' = [connecting EXCEPT ![i] = enabled]
      /\ UNCHANGED <<enabled, sockets, ends>>
  BY <1>1 DEF IInv, TypeOK, Create, CreateAs, Executors
<1>3. /\ fetch' \in [Insts -> 0 .. MaxFetch] /\ (enabled => fetch'[i] = 1)
      /\ \A j \in Insts : j # i => fetch'[j] = fetch[j]
      /\ connected' \in {"no", "yes", "left", "late"}
  <2>1. connected \in {"no", "yes", "left", "late"} /\ fetch \in [Insts -> 0 .. MaxFetch]
    BY DEF IInv, TypeOK
  <2>2. CASE enabled
    BY <1>1, <2>1, <2>2, LinkAssumption DEF CreateAs
  <2>3. CASE ~enabled
    BY <1>1, <2>1, <2>3 DEF CreateAs
  <2> QED BY <2>2, <2>3
<1>4. queue' \in Seq({"start", "stop"}) /\ Len(queue') <= MaxQueue + 1 /\ StartIsLast'
  BY <1>1, <1>2, StartTaken DEF Create, CreateAs
<1>5. TypeOK'
  BY <1>2, <1>3, <1>4, LinkAssumption DEF IInv, TypeOK, sockets
<1>6. FieldIsLive'
  BY <1>2, LinkAssumption DEF IInv, TypeOK, FieldIsLive, Failed, sockets
<1>7. ConnectingIsAttempted'
  BY <1>2, <1>3 DEF IInv, TypeOK, ConnectingIsAttempted, Attempted, sockets
<1>8. NeverIdle'
  BY <1>2, <1>3, LinkAssumption DEF NeverIdle, Underway
<1> QED BY <1>4, <1>5, <1>6, <1>7, <1>8 DEF IInv

LEMMA StartCommandKeeps ==
  ASSUME IInv, StartCommand
  PROVE  IInv'
<1>1. service \in Insts /\ UNCHANGED <<enabled, service, field, timer, shut, sockets, ends>>
  BY DEF IInv, TypeOK, StartCommand
<1>2. queue' \in Seq({"start", "stop"}) /\ Len(queue') <= MaxQueue + 1 /\ StartIsLast'
  BY <1>1, StartTaken DEF StartCommand
<1>3. FieldIsLive'
  BY <1>1 DEF IInv, FieldIsLive, Failed, sockets
<1>4. CASE MayConnect(service)
  <2>1. /\ connecting' \in [Insts -> BOOLEAN] /\ fetch' \in [Insts -> 0 .. MaxFetch]
        /\ connected' = "no" /\ fetch'[service] > 0
        /\ \A j \in Insts : (j # service => connecting'[j] = connecting[j])
                            /\ (fetch[j] > 0 => fetch'[j] > 0)
    BY <1>1, <1>4, ConnectStarts DEF StartCommand
  <2>2. TypeOK'
    BY <1>1, <1>2, <2>1 DEF IInv, TypeOK, sockets
  <2>3. ConnectingIsAttempted'
    BY <1>1, <2>1 DEF IInv, ConnectingIsAttempted, Attempted, sockets
  <2>4. NeverIdle'
    BY <1>1, <2>1, LinkAssumption DEF NeverIdle, Underway
  <2> QED BY <1>2, <1>3, <2>2, <2>3, <2>4 DEF IInv
<1>5. CASE ~MayConnect(service)
  <2>1. UNCHANGED <<connecting, fetch, connected>>
    BY <1>5 DEF StartCommand
  <2>2. TypeOK'
    BY <1>1, <1>2, <2>1 DEF IInv, TypeOK, sockets
  <2>3. ConnectingIsAttempted'
    BY <1>1, <2>1 DEF IInv, ConnectingIsAttempted, Attempted, sockets
  <2>4. enabled => Stuck(service) \/ Attempted(service)
    BY <1>1, <1>5, BusyIsAttempted
  <2>5. NeverIdle'
    BY <1>1, <2>1, <2>4, LinkAssumption DEF NeverIdle, Stuck, Attempted, Underway, sockets
  <2> QED BY <1>2, <1>3, <2>2, <2>3, <2>5 DEF IInv
<1> QED BY <1>4, <1>5

LEMMA DestroyKeeps ==
  ASSUME IInv, Destroy
  PROVE  IInv'
<1>1. queue' = Tail(queue) /\ UNCHANGED <<enabled, owner, assigning, acking, ends>>
  BY DEF Destroy
<1>2. queue' \in Seq({"start", "stop"}) /\ Len(queue') <= MaxQueue + 1 /\ StartIsLast'
  <2>1. /\ queue \in Seq({"start", "stop"}) /\ queue # <<>>
        /\ Len(queue) \in Nat /\ Len(queue) <= MaxQueue + 1
    BY DEF IInv, TypeOK, Destroy
  <2>2. queue' \in Seq({"start", "stop"}) /\ Len(queue') = Len(queue) - 1
    BY <1>1, <2>1, TailEnd
  <2>3. StartIsLast'
    BY <1>1, <2>1, TailEnd DEF IInv, StartIsLast
  <2> QED BY <2>1, <2>2, <2>3, LinkAssumption
<1>3. NeverIdle'
  BY <1>1, TailEnd DEF IInv, TypeOK, StartIsLast, NeverIdle, Destroy
<1>4. CASE service = None
  <2>1. UNCHANGED <<connected, service, fields, sock>>
    BY <1>4 DEF Destroy
  <2>2. TypeOK'
    BY <1>1, <1>2, <2>1 DEF IInv, TypeOK, fields
  <2>3. FieldIsLive' /\ ConnectingIsAttempted'
    BY <1>1, <2>1 DEF IInv, FieldIsLive, Failed, ConnectingIsAttempted, Attempted, fields
  <2> QED BY <1>2, <1>3, <2>2, <2>3 DEF IInv
<1>5. CASE service # None
  <2>1. /\ service \in Insts /\ service' = None
        /\ field' = [field EXCEPT ![service] = None]
        /\ connecting' = [connecting EXCEPT ![service] = FALSE]
        /\ timer' = timer \ {service} /\ shut' = shut \union {service}
        /\ connected' = "no" /\ fetch' = fetch
        /\ sock' = [s \in Socks |-> IF s = field[service] THEN AskedToClose(s) ELSE sock[s]]
    BY <1>5 DEF IInv, TypeOK, Destroy
  <2>2. /\ sock' \in [Socks -> {"gone", "ended"} \union Live \union Closing]
        /\ \A s \in Socks : sock'[s] \in {"gone", "ended"} => sock'[s] = sock[s]
        /\ \A s \in Socks : sock[s] = "gone" => s # field[service]
    BY <2>1 DEF IInv, TypeOK, FieldIsLive, Failed, AskedToClose, Live, Closing
  <2>3. \A s \in Socks : sock'[s] = "gone" <=> sock[s] = "gone"
    BY <2>1, <2>2
  <2>4. TypeOK'
    BY <1>1, <1>2, <2>1, <2>2, <2>3, LinkAssumption DEF IInv, TypeOK
  <2>5. FieldIsLive'
    BY <1>1, <2>1, <2>2, LinkAssumption DEF IInv, TypeOK, FieldIsLive, Failed
  <2>6. ConnectingIsAttempted'
    BY <1>1, <2>1, <2>3 DEF IInv, TypeOK, ConnectingIsAttempted, Attempted
  <2> QED BY <1>2, <1>3, <2>4, <2>5, <2>6 DEF IInv
<1> QED BY <1>4, <1>5

LEMMA KillKeeps ==
  ASSUME IInv, Kill
  PROVE  IInv'
<1>1. /\ service' = None /\ field' = [i \in Insts |-> None]
      /\ connecting' = [i \in Insts |-> FALSE] /\ fetch' = [i \in Insts |-> 0]
      /\ timer' = {} /\ shut' = {} /\ assigning' = {} /\ acking' = {} /\ UNCHANGED enabled
      /\ owner' = [s \in Socks |-> None] /\ sock' = [s \in Socks |-> "gone"]
  BY DEF Kill
<1>2. /\ queue' \in Seq({"start", "stop"}) /\ Len(queue') <= MaxQueue + 1 /\ StartIsLast'
      /\ connected' \in {"no", "yes", "left", "late"} /\ ends' \in 0 .. MaxEnds
  <2>1. connected' \in {"no", "yes", "left", "late"} /\ ends' \in 0 .. MaxEnds
    BY LinkAssumption DEF IInv, TypeOK, Kill
  <2>2. CASE service = None
    <3>1. queue' = <<>>
      BY <2>2 DEF Kill
    <3>2. queue' \in Seq({"start", "stop"}) /\ Len(queue') = 0
      BY <3>1
    <3>3. Len(queue') <= MaxQueue + 1
      BY <3>2, LinkAssumption
    <3>4. StartIsLast'
      BY <3>1 DEF StartIsLast
    <3> QED BY <2>1, <3>2, <3>3, <3>4
  <2>3. CASE service # None
    <3>1. queue' = <<"start">>
      BY <2>3 DEF Kill
    <3>2. queue' \in Seq({"start", "stop"}) /\ Len(queue') = 1 /\ queue'[1] = "start"
      BY <3>1
    <3>3. Len(queue') <= MaxQueue + 1
      BY <3>2, LinkAssumption
    <3>4. StartIsLast'
      BY <3>2 DEF StartIsLast
    <3> QED BY <2>1, <3>2, <3>3, <3>4
  <2> QED BY <2>1, <2>2, <2>3
<1>3. TypeOK'
  BY <1>1, <1>2, LinkAssumption DEF IInv, TypeOK
<1>4. FieldIsLive' /\ ConnectingIsAttempted'
  BY <1>1, LinkAssumption DEF FieldIsLive, ConnectingIsAttempted
<1>5. NeverIdle'
  BY <1>1, LinkAssumption DEF IInv, NeverIdle, Kill
<1> QED BY <1>2, <1>3, <1>4, <1>5 DEF IInv

LEMMA ReconnectKeeps ==
  ASSUME IInv, NEW i \in Insts, Reconnect(i)
  PROVE  IInv'
<1>1. timer' = timer \ {i} /\ UNCHANGED <<enabled, queue, service, field, shut, sockets, ends>>
  BY DEF Reconnect
<1>2. StartIsLast' /\ FieldIsLive'
  BY <1>1 DEF IInv, StartIsLast, FieldIsLive, Failed, sockets
<1>3. CASE MayConnect(i)
  <2>1. /\ connecting' \in [Insts -> BOOLEAN] /\ fetch' \in [Insts -> 0 .. MaxFetch]
        /\ connected' = "no" /\ fetch'[i] > 0
        /\ \A j \in Insts : (j # i => connecting'[j] = connecting[j])
                            /\ (fetch[j] > 0 => fetch'[j] > 0)
    BY <1>3, ConnectStarts DEF Reconnect
  <2>2. TypeOK'
    BY <1>1, <2>1 DEF IInv, TypeOK, sockets
  <2>3. ConnectingIsAttempted'
    BY <1>1, <2>1 DEF IInv, ConnectingIsAttempted, Attempted, sockets
  <2>4. NeverIdle'
    BY <1>1, <2>1, NeverIdleLasts DEF Stuck, Underway, sockets
  <2> QED BY <1>2, <2>2, <2>3, <2>4 DEF IInv
<1>4. CASE ~MayConnect(i)
  <2>1. UNCHANGED <<connecting, fetch, connected>>
    BY <1>4 DEF Reconnect
  <2>2. TypeOK'
    BY <1>1, <2>1 DEF IInv, TypeOK, sockets
  <2>3. ConnectingIsAttempted'
    BY <1>1, <2>1 DEF IInv, ConnectingIsAttempted, Attempted, sockets
  <2>4. enabled => Stuck(i) \/ Attempted(i)
    BY <1>4, BusyIsAttempted
  <2>5. NeverIdle'
    BY <1>1, <2>1, <2>4, NeverIdleLasts DEF Stuck, Attempted, Underway, sockets
  <2> QED BY <1>2, <2>2, <2>3, <2>5 DEF IInv
<1> QED BY <1>3, <1>4

LEMMA OpenRelayKeeps ==
  ASSUME IInv, NEW i \in Insts, OpenRelay(i)
  PROVE  IInv'
<1>1. UNCHANGED <<enabled, queue, service, shut, ends>>
  BY DEF OpenRelay
<1>2. StartIsLast'
  BY <1>1 DEF IInv, StartIsLast
<1>3. /\ fetch' \in [Insts -> 0 .. MaxFetch]
      /\ \A j \in Insts : j # i => fetch'[j] = fetch[j]
  BY LinkAssumption DEF IInv, TypeOK, OpenRelay
<1>4. CASE OpenDisabled(i)
  <2>1. /\ connecting' = [connecting EXCEPT ![i] = FALSE] /\ enabled' = FALSE
        /\ UNCHANGED <<connected, field, timer, sockets>>
    BY <1>1, <1>4 DEF IInv, TypeOK, OpenDisabled
  <2>2. TypeOK'
    BY <1>1, <1>3, <2>1 DEF IInv, TypeOK, sockets
  <2>3. FieldIsLive'
    BY <2>1 DEF IInv, FieldIsLive, Failed, sockets
  <2>4. ConnectingIsAttempted'
    BY <1>3, <2>1 DEF IInv, TypeOK, ConnectingIsAttempted, Attempted, sockets
  <2>5. NeverIdle'
    BY <2>1 DEF NeverIdle
  <2> QED BY <1>2, <2>2, <2>3, <2>4, <2>5 DEF IInv
<1>5. CASE OpenRejected(i)
  <2>1. /\ connecting' = [connecting EXCEPT ![i] = FALSE] /\ connected' = "no"
        /\ timer' = timer \union {i} /\ field' = [field EXCEPT ![i] = Dead]
        /\ UNCHANGED sockets
    BY <1>5 DEF OpenRejected, Schedule
  <2>2. TypeOK'
    BY <1>1, <1>3, <2>1 DEF IInv, TypeOK, sockets
  <2>3. FieldIsLive'
    BY <2>1, LinkAssumption DEF IInv, TypeOK, FieldIsLive, Failed, sockets
  <2>4. ConnectingIsAttempted'
    BY <1>3, <2>1 DEF IInv, TypeOK, ConnectingIsAttempted, Attempted, sockets
  <2>5. NeverIdle'
    BY <1>1, <1>3, <2>1, NeverIdleLasts DEF IInv, TypeOK, Stuck, Underway, sockets
  <2> QED BY <1>2, <2>2, <2>3, <2>4, <2>5 DEF IInv
<1>6. CASE Unused # {} /\ OpenSocket(i, Fresh(Unused))
  <2>1. PICK s \in Socks : owner[s] = None /\ OpenSocket(i, s)
    BY <1>6, FreshIsIn DEF Unused
  <2>2. /\ owner' = [owner EXCEPT ![s] = i] /\ sock' = [sock EXCEPT ![s] = "opening"]
        /\ assigning' = assigning \union {s}
        /\ UNCHANGED <<connecting, connected, field, timer, acking>>
    BY <2>1 DEF OpenSocket
  <2>3. TypeOK'
    BY <1>1, <1>3, <2>2, LinkAssumption DEF IInv, TypeOK, Live
  <2>4. FieldIsLive'
    <3>1. \A j \in Insts : field[j] # s
      BY <2>1, LinkAssumption DEF IInv, FieldIsLive
    <3> QED BY <2>2, <3>1 DEF IInv, TypeOK, FieldIsLive, Failed
  <2>5. owner'[s] = i /\ sock'[s] = "opening"
    BY <2>2 DEF IInv, TypeOK
  <2>6. \A r \in Socks : r # s => owner'[r] = owner[r] /\ sock'[r] = sock[r]
    BY <2>2 DEF IInv, TypeOK
  <2>7. ConnectingIsAttempted'
    BY <1>3, <2>1, <2>2, <2>5, <2>6, LinkAssumption DEF IInv, ConnectingIsAttempted, Attempted
  <2>8. NeverIdle'
    BY <1>1, <1>3, <2>1, <2>2, <2>5, <2>6, NeverIdleLasts, LinkAssumption DEF Stuck, Underway
  <2> QED BY <1>2, <2>3, <2>4, <2>7, <2>8 DEF IInv
<1> QED BY <1>4, <1>5, <1>6 DEF OpenRelay

(* Forgetting a socket whose end is reported ends no attempt.                  *)
LEMMA AssignKeeps ==
  ASSUME IInv, NEW s \in Socks, Assign(s)
  PROVE  IInv'
<1>1. /\ s \in assigning /\ assigning' = assigning \ {s}
      /\ field' = [field EXCEPT ![owner[s]] = IF Failed(s) THEN Dead ELSE s]
      /\ UNCHANGED <<prefs, queue, service, connecting, fetch, timer, shut, sock, acking, ends>>
  BY DEF Assign
<1>2. owner[s] \in Insts
  BY <1>1 DEF IInv, TypeOK
<1>3. /\ owner' \in [Socks -> Insts \union {None}]
      /\ \A r \in Socks : owner'[r] = owner[r] \/ (r = s /\ owner'[r] = None /\ sock[r] = "gone")
  BY LinkAssumption DEF IInv, TypeOK, Assign, Forget
<1>4. TypeOK'
  BY <1>1, <1>2, <1>3 DEF IInv, TypeOK, prefs
<1>5. FieldIsLive'
  BY <1>1, <1>2, <1>3, LinkAssumption DEF IInv, TypeOK, FieldIsLive, Failed
<1>6. ConnectingIsAttempted'
  BY <1>1, <1>3 DEF IInv, ConnectingIsAttempted, Attempted
<1>7. StartIsLast'
  BY <1>1 DEF IInv, StartIsLast, prefs
<1>8. \A j \in Insts : (Stuck(j) \/ Underway(j)) => (Stuck(j) \/ Underway(j))'
  <2> SUFFICES ASSUME NEW j \in Insts, Stuck(j) \/ Underway(j) PROVE (Stuck(j) \/ Underway(j))'
    OBVIOUS
  <2>1. CASE j = owner[s] /\ Failed(s)
    BY <1>1, <1>2, <2>1 DEF IInv, TypeOK, Stuck
  <2>2. CASE j = owner[s] /\ ~Failed(s)
    BY <1>1, <1>3, <2>2, LinkAssumption DEF Failed, Underway
  <2>3. CASE j # owner[s]
    BY <1>1, <1>2, <1>3, <2>3, LinkAssumption DEF IInv, TypeOK, Stuck, Underway
  <2> QED BY <2>1, <2>2, <2>3
<1>9. NeverIdle'
  BY <1>1, <1>8, NeverIdleLasts DEF prefs
<1> QED BY <1>4, <1>5, <1>6, <1>7, <1>9 DEF IInv

LEMMA SocketOpensKeeps ==
  ASSUME IInv, NEW s \in Socks, SocketOpens(s)
  PROVE  IInv'
<1>1. /\ sock[s] = "opening" /\ owner[s] \in Insts
      /\ sock' = [sock EXCEPT ![s] = "open"]
      /\ connecting' = [connecting EXCEPT ![owner[s]] = FALSE] /\ connected' = "no"
      /\ UNCHANGED <<enabled, queue, service, field, fetch, timer, shut, owner, assigning, acking, ends>>
  BY DEF IInv, TypeOK, SocketOpens
<1>2. TypeOK'
  BY <1>1 DEF IInv, TypeOK, Live
<1>3. FieldIsLive' /\ StartIsLast'
  BY <1>1 DEF IInv, TypeOK, FieldIsLive, Failed, StartIsLast
<1>4. ConnectingIsAttempted'
  BY <1>1 DEF IInv, TypeOK, ConnectingIsAttempted, Attempted
<1>5. NeverIdle'
  BY <1>1, NeverIdleLasts DEF Stuck, Underway
<1> QED BY <1>2, <1>3, <1>4, <1>5 DEF IInv

LEMMA HelloAckKeeps ==
  ASSUME IInv, NEW s \in Socks, HelloAck(s)
  PROVE  IInv'
<1>1. /\ sock[s] \in {"open", "closing"}
      /\ sock' = [sock EXCEPT ![s] = IF @ = "open" THEN "authed" ELSE "closed"]
      /\ connected' = "yes"
      /\ UNCHANGED <<enabled, queue, service, fields, owner, assigning, acking, ends>>
  BY DEF HelloAck, Greets
<1>2. TypeOK'
  BY <1>1 DEF IInv, TypeOK, Live, Closing, fields
<1>3. FieldIsLive' /\ StartIsLast'
  BY <1>1 DEF IInv, TypeOK, FieldIsLive, Failed, StartIsLast, fields
<1>4. ConnectingIsAttempted'
  BY <1>1 DEF IInv, TypeOK, ConnectingIsAttempted, Attempted, fields
<1>5. NeverIdle'
  BY <1>1, NeverIdleLasts DEF Stuck, Underway, fields
<1> QED BY <1>2, <1>3, <1>4, <1>5 DEF IInv

LEMMA RelayErrorKeeps ==
  ASSUME IInv, NEW s \in Socks, RelayError(s)
  PROVE  IInv'
<1>1. connected' = "no" /\ UNCHANGED <<enabled, queue, service, fields, sockets, ends>>
  BY DEF RelayError
<1> QED BY <1>1 DEF IInv, TypeOK, FieldIsLive, Failed, ConnectingIsAttempted, Attempted, StartIsLast,
               NeverIdle, Stuck, Underway, fields, sockets

LEMMA SocketEndsKeeps ==
  ASSUME IInv, NEW s \in Socks, SocketEnds(s)
  PROVE  IInv'
<1>1. /\ sock[s] \in Live \union Closing
      /\ sock' = [sock EXCEPT ![s] = "ended"]
      /\ acking' \subseteq acking \union {s}
      /\ UNCHANGED <<prefs, queue, service, connecting, fetch, timer, shut, owner, assigning, ends>>
  BY DEF SocketEnds
<1>2. owner[s] \in Insts
  BY <1>1 DEF IInv, TypeOK, Live, Closing
<1>3. /\ field' \in [Insts -> Socks \union {None, Dead}]
      /\ \A j \in Insts : field'[j] # s /\ (field'[j] = field[j] \/ (field[j] = s /\ field'[j] = None))
  <2>1. \A j \in Insts : field[j] = s => j = owner[s]
    BY DEF IInv, FieldIsLive
  <2>2. CASE Clears(s)
    BY <1>2, <2>1, <2>2, LinkAssumption DEF IInv, TypeOK, SocketEnds, Clears
  <2>3. CASE ~Clears(s)
    BY <2>1, <2>3 DEF IInv, TypeOK, SocketEnds, Clears
  <2> QED BY <2>2, <2>3
<1>4. TypeOK'
  BY <1>1, <1>2, <1>3, LinkAssumption DEF IInv, TypeOK, prefs
<1>5. FieldIsLive' /\ StartIsLast'
  BY <1>1, <1>3, LinkAssumption DEF IInv, TypeOK, FieldIsLive, Failed, StartIsLast, prefs
<1>6. ConnectingIsAttempted'
  BY <1>1 DEF IInv, TypeOK, ConnectingIsAttempted, Attempted
<1>7. NeverIdle'
  BY <1>1, <1>3, NeverIdleLasts, LinkAssumption DEF Stuck, Underway, prefs
<1> QED BY <1>4, <1>5, <1>6, <1>7 DEF IInv

LEMMA ReportEndKeeps ==
  ASSUME IInv, NEW s \in Socks, ReportEnd(s)
  PROVE  IInv'
<1>1. /\ sock[s] = "ended" /\ sock' = [sock EXCEPT ![s] = "gone"] /\ owner[s] \in Insts
      /\ connecting' = [connecting EXCEPT ![owner[s]] = FALSE] /\ connected' = "no"
      /\ timer' = timer \union Schedule(owner[s])
      /\ UNCHANGED <<enabled, queue, service, field, fetch, shut, assigning, acking, ends>>
  BY DEF IInv, TypeOK, ReportEnd
<1>2. /\ owner' \in [Socks -> Insts \union {None}]
      /\ \A r \in Socks : owner'[r] = owner[r] \/ (r = s /\ owner'[r] = None /\ s \notin assigning)
  BY LinkAssumption DEF IInv, TypeOK, ReportEnd, Forget
<1>3. TypeOK'
  BY <1>1, <1>2 DEF IInv, TypeOK, Schedule
<1>4. FieldIsLive'
  <2>1. \A j \in Insts : field[j] # s
    BY <1>1 DEF IInv, FieldIsLive, Failed
  <2> QED BY <1>1, <1>2, <2>1 DEF IInv, TypeOK, FieldIsLive, Failed
<1>5. ConnectingIsAttempted'
  <2>1. \A j \in Insts : connecting'[j] => connecting[j] /\ j # owner[s]
    BY <1>1 DEF IInv, TypeOK
  <2> QED BY <1>1, <1>2, <2>1 DEF IInv, TypeOK, ConnectingIsAttempted, Attempted
<1>6. StartIsLast'
  BY <1>1 DEF IInv, StartIsLast
<1>7. \A j \in Insts : enabled /\ (Stuck(j) \/ Underway(j)) => (Stuck(j) \/ Underway(j))'
  <2>1. enabled => owner[s] \in timer'
    BY <1>1 DEF Schedule
  <2> QED BY <1>1, <1>2, <2>1 DEF Stuck, Underway
<1>8. NeverIdle'
  BY <1>1, <1>7, NeverIdleLasts
<1> QED BY <1>3, <1>4, <1>5, <1>6, <1>8 DEF IInv

LEMMA SetConnectedKeeps ==
  ASSUME IInv, NEW s \in Socks, SetConnected(s)
  PROVE  IInv'
<1>1. /\ acking' = acking \ {s} /\ connected' \in {"yes", "late"}
      /\ UNCHANGED <<enabled, queue, service, fields, owner, sock, assigning, ends>>
  BY DEF SetConnected
<1> QED BY <1>1 DEF IInv, TypeOK, FieldIsLive, Failed, ConnectingIsAttempted, Attempted, StartIsLast,
               NeverIdle, Stuck, Underway, fields

-------------------------------------------------------------------------------
LEMMA StepKeeps ==
  ASSUME IInv, Next
  PROVE  IInv'
<1>1. CASE Start \/ Stop \/ Create \/ StartCommand \/ Destroy \/ Kill
  BY <1>1, StartKeeps, StopKeeps, CreateKeeps, StartCommandKeeps, DestroyKeeps, KillKeeps
<1>2. ASSUME NEW i \in Insts, Reconnect(i) \/ OpenRelay(i) PROVE IInv'
  BY <1>2, ReconnectKeeps, OpenRelayKeeps
<1>3. ASSUME NEW s \in Socks, SockStep(s) PROVE IInv'
  BY <1>3, AssignKeeps, SocketOpensKeeps, HelloAckKeeps, RelayErrorKeeps, SocketEndsKeeps,
     ReportEndKeeps, SetConnectedKeeps DEF SockStep
<1> QED BY <1>1, <1>2, <1>3 DEF Next

(* The invariant holds in every reachable state.                              *)
THEOREM Invariance == Spec => []IInv
<1>1. Init => IInv
  <2> SUFFICES ASSUME Init PROVE IInv
    OBVIOUS
  <2>1. queue \in Seq({"start", "stop"}) /\ Len(queue) <= MaxQueue + 1
    <3>1. queue = <<>> /\ Len(queue) = 0
      BY DEF Init
    <3> QED BY <3>1, LinkAssumption
  <2>2. TypeOK
    <3>1. /\ field \in [Insts -> Socks \union {None, Dead}] /\ connecting \in [Insts -> BOOLEAN]
          /\ fetch \in [Insts -> 0 .. MaxFetch] /\ ends \in 0 .. MaxEnds
      BY LinkAssumption DEF Init
    <3>2. /\ owner \in [Socks -> Insts \union {None}]
          /\ sock \in [Socks -> {"gone", "ended"} \union Live \union Closing]
          /\ \A s \in Socks : owner[s] = None => sock[s] = "gone" /\ s \notin assigning
      BY DEF Init
    <3> QED BY <2>1, <3>1, <3>2 DEF Init, TypeOK
  <2>3. FieldIsLive /\ ConnectingIsAttempted /\ StartIsLast /\ NeverIdle
    BY LinkAssumption DEF Init, FieldIsLive, ConnectingIsAttempted, StartIsLast, NeverIdle
  <2> QED BY <2>2, <2>3 DEF IInv
<1>2. IInv /\ UNCHANGED vars => IInv'
  BY DEF IInv, TypeOK, FieldIsLive, Failed, ConnectingIsAttempted, StartIsLast, NeverIdle,
     Attempted, Stuck, Underway, vars, prefs, fields, sockets
<1> QED BY <1>1, <1>2, StepKeeps, PTL DEF Spec

(* The types of the preferences, the fields and the sockets are kept by every  *)
(* callback, whichever instance it comes from.                                *)
THEOREM TypeCorrect == Spec => []TypeOK
BY Invariance, PTL DEF IInv

(* While the bridge is enabled something that will connect it is under way, or *)
(* the field holds a socket that failed before it was assigned.               *)
THEOREM NeverIdles == Spec => []NeverIdle
BY Invariance, PTL DEF IInv

(* What the preference says, up to its two errors: apart from TRUE left by a    *)
(* killed process, and TRUE written by a reader after the end of its socket    *)
(* was reported, it says connected only while a socket stands behind it.       *)
ConnectedIsBacked == connected = "yes" => Backed

(* A reader that still has to set connected reads from a socket that has ended. *)
AckIsOver == \A s \in acking : sock[s] \in {"ended", "gone"}

(* Every step keeps that.                                                     *)
LEMMA AckKeeps ==
  ASSUME IInv, AckIsOver, [Next]_vars
  PROVE  AckIsOver'
<1> SUFFICES ASSUME NEW s \in acking' PROVE sock'[s] \in {"ended", "gone"}
  BY DEF AckIsOver
<1> USE DEF AckIsOver, IInv, TypeOK
<1>1. CASE Start \/ Stop \/ Create \/ StartCommand \/ UNCHANGED vars
  BY <1>1 DEF Start, Stop, Create, StartCommand, sockets, vars
<1>2. CASE Destroy
  <2>1. acking' = acking /\ s \in Socks /\ sock[s] \in {"ended", "gone"}
    BY <1>2 DEF Destroy
  <2>2. ASSUME service # None PROVE field[service] # s
    BY <2>1, <2>2 DEF FieldIsLive, Failed
  <2> QED BY <1>2, <2>1, <2>2 DEF Destroy
<1>3. CASE Kill
  BY <1>3 DEF Kill
<1>4. ASSUME NEW i \in Insts, Reconnect(i) \/ OpenRelay(i)
      PROVE  sock'[s] \in {"ended", "gone"}
  <2>1. CASE sock' = sock /\ acking' = acking
    BY <2>1
  <2>2. CASE Unused # {} /\ OpenSocket(i, Fresh(Unused))
    BY <2>2, FreshIsIn DEF Unused, OpenSocket
  <2> QED BY <1>4, <2>1, <2>2 DEF Reconnect, OpenRelay, OpenDisabled, OpenRejected, sockets
<1>5. ASSUME NEW r \in Socks, SockStep(r)
      PROVE  sock'[s] \in {"ended", "gone"}
  <2>1. CASE SocketOpens(r) \/ HelloAck(r)
    BY <2>1 DEF SocketOpens, HelloAck, Greets
  <2>2. CASE SocketEnds(r) \/ ReportEnd(r)
    BY <2>2 DEF SocketEnds, ReportEnd
  <2>3. CASE RelayError(r) \/ SetConnected(r) \/ Assign(r)
    BY <2>3 DEF RelayError, SetConnected, Assign, sockets
  <2> QED BY <1>5, <2>1, <2>2, <2>3 DEF SockStep
<1> QED BY <1>1, <1>2, <1>3, <1>4, <1>5 DEF Next

(* The status says connected only while a socket stands behind it: a step that *)
(* takes the last such socket away also clears the status.                    *)
LEMMA StatusKeeps ==
  ASSUME TypeOK, AckIsOver, ConnectedIsBacked, [Next]_vars
  PROVE  ConnectedIsBacked'
<1> SUFFICES ASSUME connected' = "yes"
             PROVE  \E s \in Socks : sock'[s] \in {"authed", "closed", "ended"}
  BY DEF ConnectedIsBacked, Backed
<1> DEFINE Backs(s) == sock[s] \in {"authed", "closed", "ended"}
<1>1. ASSUME connected = "yes", \A s \in Socks : Backs(s) => Backs(s)'
      PROVE  \E s \in Socks : Backs(s)'
  BY <1>1 DEF ConnectedIsBacked, Backed
<1>2. CASE Start \/ Create \/ StartCommand \/ UNCHANGED vars
  BY <1>1, <1>2 DEF Start, Create, CreateAs, StartCommand, Connect, sockets, vars, prefs
<1>3. CASE Stop \/ Destroy \/ Kill
  BY <1>1, <1>3 DEF Stop, Destroy, Kill
<1>4. ASSUME NEW i \in Insts, Reconnect(i) \/ OpenRelay(i)
      PROVE  \E s \in Socks : Backs(s)'
  <2>1. CASE Reconnect(i)
    BY <1>1, <2>1 DEF Reconnect, Connect, sockets
  <2>2. CASE OpenRelay(i) /\ sock' = sock
    BY <1>1, <2>2 DEF OpenRelay, OpenDisabled, OpenRejected, OpenSocket
  <2>3. CASE OpenRelay(i) /\ sock' # sock
    <3>1. PICK r \in Socks : owner[r] = None /\ OpenSocket(i, r)
      BY <2>3, FreshIsIn DEF OpenRelay, OpenDisabled, OpenRejected, Unused, sockets
    <3>2. connected = "yes" /\ sock[r] = "gone"
      BY <3>1 DEF TypeOK, OpenSocket
    <3> QED BY <1>1, <3>1, <3>2 DEF TypeOK, OpenSocket
  <2> QED BY <1>4, <2>1, <2>2, <2>3
<1>5. ASSUME NEW s \in Socks, SockStep(s)
      PROVE  \E r \in Socks : Backs(r)'
  <2>1. CASE HelloAck(s)
    BY <2>1 DEF TypeOK, HelloAck, Greets
  <2>2. CASE SocketEnds(s)
    BY <1>1, <2>2 DEF TypeOK, SocketEnds, prefs
  <2>3. CASE Assign(s)
    BY <1>1, <2>3 DEF Assign, prefs
  <2>4. CASE SocketOpens(s) \/ RelayError(s) \/ ReportEnd(s)
    BY <2>4 DEF SocketOpens, RelayError, ReportEnd
  <2>5. CASE SetConnected(s)
    <3>1. sock' = sock
      BY <2>5 DEF SetConnected
    <3>2. s \in acking /\ sock[s] # "gone"
      BY <2>5 DEF SetConnected
    <3>3. sock[s] = "ended"
      BY <3>2 DEF AckIsOver
    <3> QED BY <3>1, <3>3
  <2> QED BY <1>5, <2>1, <2>2, <2>3, <2>4, <2>5 DEF SockStep
<1> QED BY <1>2, <1>3, <1>4, <1>5 DEF Next

(* The preference is wrong in those two ways only.                             *)
THEOREM StatusBacked == Spec => []ConnectedIsBacked
<1>1. Init => AckIsOver /\ ConnectedIsBacked
  BY DEF Init, AckIsOver, ConnectedIsBacked
<1>2. IInv => TypeOK
  BY DEF IInv
<1> QED BY <1>1, <1>2, AckKeeps, StatusKeeps, Invariance, PTL DEF Spec

===============================================================================
