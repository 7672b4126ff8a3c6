------------------------------ MODULE VoiceGateway ------------------------------
(***************************************************************************)
(* The voice gateway (operator/voice-auth-gateway.mjs) without pairing:      *)
(* logins of one remote address and their rate limit, sessions, the routes   *)
(* that use one, and the health route with its proof of a conversation.  A   *)
(* step ends at an await: of a request's body or of the upstream fabric.     *)
(* The rate window of an address is an object: a login keeps the one it      *)
(* found or made while it waits for its body.                                *)
(***************************************************************************)
EXTENDS Naturals, FiniteSets, Sequences

CONSTANTS
  Logins,              \* login requests in flight at a time
  VoiceCalls,          \* requests in a session: turns, and others
  HealthChecks,
  LoginLimit, LoginWindow, SessionTime,   \* 5, 60 s, sessionDurationMs
  MaxGateTime          \* bound of the model

ASSUME GatewayAssumption ==
  /\ LoginLimit \in Nat \ {0} /\ LoginWindow \in Nat \ {0} /\ SessionTime \in Nat \ {0}
  /\ MaxGateTime \in Nat /\ IsFiniteSet(Logins)

Objects == 1 .. Cardinality(Logins) + 1   \* enough: one in the map, one for each login
NoObject == 0

VARIABLES
  gateTime,
  failures,        \* the address's entry in the map: an object or none
  object,          \* count and reset of each window object
  login,           \* a login: idle, or the object it holds
  gateSessions,    \* expiry times of the sessions
  voiceCall,       \* a request in a session
  proof,           \* productionConversationProof
  health,          \* a health check
  guesses,         \* history: the times of the wrong passwords since a right one or a restart
  overlapped,      \* history: two logins were in flight at once since then
  newer            \* history: health checks that began when there was a proof

logins == <<failures, object, login, guesses, overlapped>>
conversation == <<voiceCall, proof, health, newer>>
gateVars == <<gateTime, logins, gateSessions, conversation>>

GatewayTypeOK ==
  /\ gateTime \in 0 .. MaxGateTime
  /\ failures \in Objects \union {NoObject} /\ login \in [Logins -> Objects \union {NoObject}]
  /\ object \in [Objects -> [count : Nat, reset : Nat]]
  /\ gateSessions \subseteq Nat
  /\ voiceCall \in [VoiceCalls -> {"new", "open", "turn", "done", "error"}]
  /\ proof \in {"none", "restored", "turn"} /\ health \in [HealthChecks -> {"new", "restore", "done"}]
  /\ guesses \in Seq(Nat) /\ overlapped \in BOOLEAN /\ newer \subseteq HealthChecks

NewWindow == [count |-> 0, reset |-> 0]
GatewayInit ==
  /\ gateTime = 0 /\ gateSessions = {}
  /\ failures = NoObject /\ object = [o \in Objects |-> NewWindow]
  /\ login = [l \in Logins |-> NoObject]
  /\ voiceCall = [v \in VoiceCalls |-> "new"] /\ proof = "none"
  /\ health = [h \in HealthChecks |-> "new"] /\ newer = {}
  /\ guesses = <<>> /\ overlapped = FALSE

-------------------------------------------------------------------------------
(* login: the window is found or made, renewed if it is over, and tested.        *)
Unheld == {o \in Objects : o # failures /\ \A l \in Logins : login[l] # o}
Lasts(o) == o = failures /\ object[o].reset > gateTime
TestsCount(n) == n <= LoginLimit     \* mutant: count > 5 is refused, not count >= 5
MayTry(n) == n < LoginLimit
LoginBegins(l) ==
  /\ login[l] = NoObject
  /\ LET o == IF failures # NoObject THEN failures ELSE CHOOSE x \in Unheld : TRUE
         fresh == IF Lasts(o) THEN object[o] ELSE [count |-> 0, reset |-> gateTime + LoginWindow]
     IN /\ object' = [object EXCEPT ![o] = fresh]
        /\ login' = IF MayTry(fresh.count) THEN [login EXCEPT ![l] = o] ELSE login
        /\ overlapped' = (overlapped \/ (MayTry(fresh.count) /\ \E k \in Logins : login[k] # NoObject))
        /\ <<object, login>>' # <<object, login>>
  /\ UNCHANGED <<gateTime, gateSessions, failures, guesses, conversation>>
(* The body has arrived: unusable, or with the wrong or the right password.  What  *)
(* an object held is lost with the last that refers to it.                      *)
LoginEnds(l) == login[l] # NoObject /\ login' = [login EXCEPT ![l] = NoObject]
Collected(windows) ==
  [o \in Objects |-> IF o = failures' \/ \E l \in Logins : login'[l] = o THEN windows[o] ELSE NewWindow]
LoginUnusable(l) ==
  /\ LoginEnds(l) /\ UNCHANGED failures
  /\ object' = Collected(object)
  /\ UNCHANGED <<gateTime, gateSessions, guesses, overlapped, conversation>>
LoginWrong(l) ==
  /\ LoginEnds(l) /\ failures' = login[l]
  /\ object' = Collected([object EXCEPT ![login[l]].count = @ + 1])
  /\ guesses' = IF overlapped THEN <<>> ELSE Append(guesses, gateTime)
  /\ UNCHANGED <<gateTime, gateSessions, overlapped, conversation>>
LoginRight(l) ==
  /\ LoginEnds(l) /\ failures' = NoObject
  /\ object' = Collected(object)
  /\ gateSessions' = gateSessions \union {gateTime + SessionTime}
  /\ guesses' = <<>>
  /\ overlapped' = \E k \in Logins \ {l} : login[k] # NoObject
  /\ UNCHANGED <<gateTime, conversation>>

-------------------------------------------------------------------------------
(* verify, which forgets a session that is over; then the body and the fabric are *)
(* awaited, and nothing is asked of the session again.                          *)
ForgetsSession(e) ==
  /\ e \in gateSessions /\ e <= gateTime
  /\ gateSessions' = gateSessions \ {e}
  /\ UNCHANGED <<gateTime, logins, conversation>>
CallGoes(v, from, to) ==
  /\ voiceCall[v] = from /\ voiceCall' = [voiceCall EXCEPT ![v] = to]
  /\ UNCHANGED <<gateTime, logins, gateSessions, health, newer>>
OpensCall(v) == (\E e \in gateSessions : e > gateTime) /\ CallGoes(v, "new", "open") /\ UNCHANGED proof
OtherAnswered(v) == CallGoes(v, "open", "done") /\ UNCHANGED proof
CallRefused(v) == CallGoes(v, "open", "error") /\ UNCHANGED proof
TurnAnswered(v) == CallGoes(v, "open", "turn") /\ proof' = "turn"

(* health: without a proof one is looked for in the Continuum, and what was found  *)
(* or not found is the proof from then on; the probes that follow change nothing. *)
LooksAgain(h) == TRUE    \* mutant: the proof is restored whether there is one or not
NoProof(h) == proof = "none"
HealthBegins(h) ==
  /\ health[h] = "new"
  /\ health' = [health EXCEPT ![h] = IF NoProof(h) THEN "restore" ELSE "done"]
  /\ newer' = IF proof = "none" THEN newer ELSE newer \union {h}
  /\ UNCHANGED <<gateTime, logins, gateSessions, voiceCall, proof>>
ProofRestored(h) ==
  /\ health[h] = "restore" /\ health' = [health EXCEPT ![h] = "done"]
  /\ proof' \in {"none", "restored"}
  /\ UNCHANGED <<gateTime, logins, gateSessions, voiceCall, newer>>
GateTick ==
  /\ gateTime < MaxGateTime /\ gateTime' = gateTime + 1
  /\ UNCHANGED <<logins, gateSessions, conversation>>
(* The gateway restarts: everything it holds is gone.                           *)
GatewayRestarts ==
  /\ <<failures, gateSessions, proof>> # <<NoObject, {}, "none">>
  /\ failures' = NoObject /\ gateSessions' = {} /\ proof' = "none"
  /\ login' = [l \in Logins |-> NoObject]
  /\ voiceCall' = [v \in VoiceCalls |-> IF voiceCall[v] = "open" THEN "error" ELSE voiceCall[v]]
  /\ health' = [h \in HealthChecks |-> IF health[h] = "new" THEN "new" ELSE "done"]
  /\ object' = [o \in Objects |-> NewWindow] /\ guesses' = <<>> /\ overlapped' = FALSE
  /\ UNCHANGED <<gateTime, newer>>

GatewayNext ==
  \/ GateTick \/ GatewayRestarts
  \/ \E l \in Logins : LoginBegins(l) \/ LoginUnusable(l) \/ LoginWrong(l) \/ LoginRight(l)
  \/ \E e \in gateSessions : ForgetsSession(e)
  \/ \E v \in VoiceCalls : OpensCall(v) \/ OtherAnswered(v) \/ CallRefused(v) \/ TurnAnswered(v)
  \/ \E h \in HealthChecks : HealthBegins(h) \/ ProofRestored(h)

GatewaySpec == GatewayInit /\ [][GatewayNext]_gateVars

-------------------------------------------------------------------------------
(* As long as logins come one after the other, no stretch of time as long as a     *)
(* rate window sees more than two windows' worth of wrong passwords: neither a     *)
(* slow body, nor an unusable one, nor a window that is renewed lets more through. *)
(* (Logins that overlap are all tested before any of them is counted.)           *)
LoginsAreLimited ==
  ~overlapped => \A k \in 1 .. Len(guesses) - 2 * LoginLimit :
                   guesses[k] + LoginWindow <= guesses[k + 2 * LoginLimit]

(* The proof of a conversation gives way to nothing but a restart or the search of  *)
(* a health check that began before there was a proof.                          *)
ProofYieldsToOlder ==
  [][proof # "none" /\ proof' = "none" =>
       GatewayRestarts \/ \E h \in HealthChecks \ newer : health[h] = "restore"]_gateVars
===============================================================================
