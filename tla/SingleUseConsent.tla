--------------------------- MODULE SingleUseConsent ---------------------------
(***************************************************************************)
(* What the replay guard promises of the nonces of consent tokens: while a *)
(* token is live, at most one verification at a time may hold its nonce,   *)
(* and once a holder has spent it nobody holds or spends it again.  No     *)
(* process, file or clock appears here; ReplayGuard implements this        *)
(* specification with lock files, a ledger and per-process maps.           *)
(***************************************************************************)

EXTENDS Naturals

CONSTANT Nonces

VARIABLES
  live,      \* nonces whose token has not reached its expiry instant
  held,      \* nonces reserved by a verification in progress, or lost with it
  accepted   \* how often a nonce was accepted on a reservation taken while live

vars == <<live, held, accepted>>

Init ==
  /\ live \in SUBSET Nonces
  /\ held = {}
  /\ accepted = [n \in Nonces |-> 0]

(* A verification reserves the nonce of a live token nobody has taken. *)
Reserve(n) ==
  /\ n \in live \ held
  /\ accepted[n] = 0
  /\ held' = held \union {n}
  /\ UNCHANGED <<live, accepted>>

(* The reservation becomes the one acceptance of the nonce. *)
Spend(n) ==
  /\ n \in held
  /\ held' = held \ {n}
  /\ accepted' = [accepted EXCEPT ![n] = @ + 1]
  /\ UNCHANGED live

(* The reservation is given back, unspent. *)
Release(n) ==
  /\ n \in held
  /\ held' = held \ {n}
  /\ UNCHANGED <<live, accepted>>

(* Tokens reach their expiry instant; reservations lost in a crash go with them. *)
Expire(E, H) ==
  /\ E # {}
  /\ live' = live \ E
  /\ held' = held \ H
  /\ UNCHANGED accepted

Next ==
  \/ \E n \in Nonces : Reserve(n) \/ Spend(n) \/ Release(n)
  \/ \E E \in SUBSET live : \E H \in SUBSET E : Expire(E, H)

Spec == Init /\ [][Next]_vars

===============================================================================
