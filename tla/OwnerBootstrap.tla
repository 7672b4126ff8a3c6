----------------------------- MODULE OwnerBootstrap -----------------------------
(***************************************************************************)
(* The phone's loopback bridge (LocalBridgeServer.kt): the owner arms a     *)
(* one-time nonce, a worker thread hands the pairing token to whoever       *)
(* presents it.  The two fields are written one after the other and arming  *)
(* is not synchronized with consuming; a stopped server's worker may still  *)
(* be in its last request when the next server's worker takes another.      *)
(***************************************************************************)
EXTENDS Naturals

CONSTANTS
  Nonces,
  Workers,     \* worker threads, one for each start of the server
  MaxArms      \* bound of the model, for each nonce

ASSUME BootstrapAssumption == MaxArms \in Nat

VARIABLES
  running,     \* the worker of the open server socket, or "none"
  nonce,       \* ownerBootstrapNonce
  deadline,    \* ownerBootstrapExpiresAt: zero, or whether it has passed
  owner,       \* the arming thread, between its two writes or not
  worker,      \* a worker: its place, the nonce of its request and the one it read
  arms,        \* history: how often each nonce was armed, by the write of the field
  handed       \* history: how often each nonce was given the pairing token

bootVars == <<running, nonce, deadline, owner, worker, arms, handed>>

NoNonce == "null"
BootTypeOK ==
  /\ running \in Workers \union {"none"}
  /\ nonce \in Nonces \union {NoNonce} /\ deadline \in {"zero", "ahead", "passed"}
  /\ owner \in {"idle", "armed"}
  /\ worker \in [Workers -> [at : {"new", "accept", "request", "locked", "closed"},
                             nonce : Nonces \union {NoNonce}, expected : Nonces \union {NoNonce}]]
  /\ arms \in [Nonces -> Nat] /\ handed \in [Nonces -> Nat]

BootInit ==
  /\ running = "none" /\ nonce = NoNonce /\ deadline = "zero"
  /\ owner = "idle"
  /\ worker = [w \in Workers |-> [at |-> "new", nonce |-> NoNonce, expected |-> NoNonce]]
  /\ arms = [n \in Nonces |-> 0] /\ handed = arms

-------------------------------------------------------------------------------
Starts(w) ==
  /\ running = "none" /\ worker[w].at = "new"
  /\ running' = w /\ worker' = [worker EXCEPT ![w].at = "accept"]

(* start and stop by the owner; a worker leaves its loop after the request it is in. *)
StartServer(w) == Starts(w) /\ UNCHANGED <<nonce, deadline, owner, arms, handed>>
StopServer ==
  /\ running # "none" /\ running' = "none"
  /\ worker' = [worker EXCEPT ![running].at = IF @ = "accept" THEN "closed" ELSE @]
  /\ UNCHANGED <<nonce, deadline, owner, arms, handed>>

(* armOwnerBootstrap: the server and the nonce, then the expiry.               *)
Arm(n) ==
  /\ owner = "idle" /\ arms[n] < MaxArms
  /\ \/ running # "none" /\ UNCHANGED <<running, worker>>
     \/ \E w \in Workers : Starts(w)
  /\ nonce' = n /\ owner' = "armed"
  /\ arms' = [arms EXCEPT ![n] = @ + 1]
  /\ UNCHANGED <<deadline, handed>>
Date ==
  /\ owner = "armed" /\ owner' = "idle"
  /\ deadline' = "ahead"
  /\ UNCHANGED <<running, nonce, worker, arms, handed>>
Expires ==
  /\ deadline = "ahead" /\ deadline' = "passed"
  /\ UNCHANGED <<running, nonce, owner, worker, arms, handed>>

-------------------------------------------------------------------------------
(* handle: a request arrives at the worker of the open server.                 *)
AcceptRequest(w, n) ==
  /\ running = w /\ worker[w].at = "accept"
  /\ worker' = [worker EXCEPT ![w] = [at |-> "request", nonce |-> n, expected |-> NoNonce]]
  /\ UNCHANGED <<running, nonce, deadline, owner, arms, handed>>
Done(w) == worker' = [worker EXCEPT ![w] = [at |-> IF running = w THEN "accept" ELSE "closed",
                                            nonce |-> NoNonce, expected |-> NoNonce]]
(* Every other path: health, or a reading for those with access and the token;   *)
(* a request that carries no nonce may be one of these.                        *)
Respond(w) ==
  /\ worker[w].at = "request" /\ worker[w].nonce = NoNonce
  /\ Done(w)
  /\ UNCHANGED <<running, nonce, deadline, owner, arms, handed>>
(* consumeOwnerBootstrap, one at a time: the nonce is read, then the expiry.    *)
Unlocked(w) == TRUE     \* mutant: consumeOwnerBootstrap is not synchronized
Locks(w) == \A v \in Workers : worker[v].at # "locked"
ReadNonce(w) ==
  /\ worker[w].at = "request" /\ Locks(w)
  /\ worker' = [worker EXCEPT ![w].at = "locked", ![w].expected = nonce]
  /\ UNCHANGED <<running, nonce, deadline, owner, arms, handed>>
NotArmed(w) ==
  /\ worker[w].at = "locked" /\ (worker[w].expected = NoNonce \/ deadline # "ahead")
  /\ nonce' = NoNonce /\ deadline' = "zero"
  /\ Done(w)
  /\ UNCHANGED <<running, owner, arms, handed>>
Mismatch(w) ==
  /\ worker[w].at = "locked" /\ worker[w].expected # NoNonce /\ deadline = "ahead"
  /\ worker[w].nonce # worker[w].expected
  /\ Done(w)
  /\ UNCHANGED <<running, nonce, deadline, owner, arms, handed>>
HandToken(w) ==
  /\ worker[w].at = "locked" /\ worker[w].expected # NoNonce /\ deadline = "ahead"
  /\ worker[w].nonce = worker[w].expected
  /\ nonce' = NoNonce /\ deadline' = "zero"
  /\ handed' = [handed EXCEPT ![worker[w].nonce] = @ + 1]
  /\ Done(w)
  /\ UNCHANGED <<running, owner, arms>>

BootNext ==
  \/ StopServer \/ Date \/ Expires
  \/ \E n \in Nonces : Arm(n)
  \/ \E w \in Workers :
       \/ StartServer(w) \/ Respond(w) \/ ReadNonce(w) \/ NotArmed(w) \/ Mismatch(w) \/ HandToken(w)
       \/ \E n \in Nonces \union {NoNonce} : AcceptRequest(w, n)

BootSpec == BootInit /\ [][BootNext]_bootVars

-------------------------------------------------------------------------------
(* The pairing token is handed out at most once for each time a nonce is armed,  *)
(* with servers that restart, requests that overlap and owners that arm again.  *)
HandedOncePerArm == \A n \in Nonces : handed[n] <= arms[n]
===============================================================================
