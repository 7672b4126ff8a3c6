------------------------ MODULE ProcessSessionsProofs ------------------------
(***************************************************************************)
(* Theorems about ProcessSessions, for any number of sessions and any      *)
(* capacity.  The inductive invariant says that endedAt is set only of a   *)
(* session whose process closed, or could not be signalled; prune removes  *)
(* nothing else, so that a running process stays in the table.             *)
(***************************************************************************)
EXTENDS ProcessSessions, TLAPS

Ends == {"no", "yes", "aged"}

(* The part of the types the proofs need. *)
SlotTypes ==
  /\ state \in [Sids -> ActiveStates \union {"none", "EXITED", "TIMED_OUT", "SPAWN_FAILED"}]
  /\ start \in [Sids -> {"new", "cwd", "done", "refused"}]
  /\ ended \in [Sids -> Ends]
  /\ child \subseteq Sids /\ alive \subseteq child

(* A session exists once its start is done; a process that runs and was not   *)
(* missed by a signal is in the table, and has no end recorded.               *)
HeldInv ==
  \A i \in Sids :
    /\ i \in child \/ ended[i] # "no" => start[i] = "done"
    /\ i \in alive \ unkillable => i \in table /\ ended[i] = "no"

IInv == SlotTypes /\ HeldInv

-------------------------------------------------------------------------------
(* Every initial state satisfies the invariant. *)
LEMMA InitInv == Init => IInv
  BY DEF Init, IInv, SlotTypes, HeldInv, Ends

(* prune keeps every session whose end is not recorded. *)
LEMMA KeptLive ==
  ASSUME NEW i \in table, ended[i] = "no" PROVE i \in Kept
  BY DEF Kept

(* Every step keeps the invariant. *)
LEMMA NextInv == IInv /\ [Next]_vars => IInv'
<1> SUFFICES ASSUME IInv, [Next]_vars PROVE IInv'
  OBVIOUS
<1> USE DEF IInv, SlotTypes, HeldInv, Ends, ActiveStates
<1>1. CASE Prune
  BY <1>1, KeptLive DEF Prune, os, output
<1>2. ASSUME NEW i \in Sids, StartBegin(i) PROVE IInv'
  BY <1>2, KeptLive DEF StartBegin, os, output
<1>3. ASSUME NEW i \in Sids, StartFails(i) PROVE IInv'
  BY <1>3 DEF StartFails, os, output
<1>4. ASSUME NEW i \in Sids, StartSpawns(i) PROVE IInv'
  BY <1>4 DEF StartSpawns, os, output
<1>5. ASSUME NEW i \in Sids, Stop(i) PROVE IInv'
  <2>1. CASE KillSent(i, "STOPPING")
    BY <1>5, <2>1, KeptLive DEF Stop, Stoppable, KillSent, os, output
  <2>2. CASE KillFails(i)
    BY <1>5, <2>2, KeptLive DEF Stop, Stoppable, KillFails, os, output
  <2> QED
    BY <1>5, <2>1, <2>2 DEF Stop
<1>6. ASSUME NEW i \in Sids, Timeout(i) PROVE IInv'
  <2>1. CASE i \in child /\ KillSent(i, "TIMED_OUT")
    BY <1>6, <2>1 DEF Timeout, KillSent, os, output
  <2>2. CASE i \in child /\ KillFails(i)
    BY <1>6, <2>2 DEF Timeout, KillFails, os, output
  <2>3. CASE i \notin child
    BY <1>6, <2>3 DEF Timeout, os, output
  <2> QED
    BY <1>6, <2>1, <2>2, <2>3 DEF Timeout
<1>7. ASSUME NEW i \in Sids, Exit(i) PROVE IInv'
  BY <1>7 DEF Exit, slot, output
<1>8. ASSUME NEW i \in Sids, Close(i) PROVE IInv'
  BY <1>8 DEF Close, Keeps, os, output
<1>9. ASSUME NEW i \in Sids, Age(i) PROVE IInv'
  BY <1>9 DEF Age, os, output
<1>10. ASSUME NEW i \in Sids, NEW n \in 1 .. MaxBytes, Collect(i, n) PROVE IInv'
  BY <1>10 DEF Collect, slot, os
<1>11. ASSUME NEW i \in Sids, NEW offset \in 0 .. MaxBytes, Read(i, offset) PROVE IInv'
  BY <1>11, KeptLive DEF Read, os
<1>12. CASE UNCHANGED vars
  BY <1>12 DEF vars, slot, os, output
<1> QED
  BY <1>1, <1>2, <1>3, <1>4, <1>5, <1>6, <1>7, <1>8, <1>9, <1>10, <1>11, <1>12 DEF Next

(* The invariant holds in every reachable state. *)
THEOREM Invariance == Spec => []IInv
<1>1. Init => IInv
  BY InitInv
<1>2. IInv /\ [Next]_vars => IInv'
  BY NextInv
<1> QED
  BY <1>1, <1>2, PTL DEF Spec

(* A process that runs is in the table, where it can be seen and stopped, unless *)
(* a signal to it failed, for any number of sessions and whatever order starts,  *)
(* timers, exits and prunes come in.                                             *)
THEOREM LiveHeld == Spec => []LiveIsHeld
<1>1. IInv => LiveIsHeld
  BY DEF IInv, SlotTypes, HeldInv, LiveIsHeld
<1> QED
  BY <1>1, Invariance, PTL

(* A step that is not a step of the session itself, or comes after its process   *)
(* closed, leaves its outcome alone.                                             *)
LEMMA OutcomeStep ==
  ASSUME IInv, [Next]_vars, NEW i \in Sids, ended[i] # "no", i \notin child
  PROVE  state'[i] = state[i]
<1> USE DEF IInv, SlotTypes, HeldInv
<1>1. start[i] = "done"
  OBVIOUS
<1>2. CASE Prune \/ UNCHANGED vars
  BY <1>2 DEF Prune, vars, slot
<1>3. ASSUME NEW j \in Sids, StartBegin(j) \/ StartFails(j) \/ Exit(j) \/ Age(j)
      PROVE state' = state
  BY <1>3 DEF StartBegin, StartFails, Exit, Age, slot
<1>4. ASSUME NEW j \in Sids, StartSpawns(j) PROVE state'[i] = state[i]
  BY <1>1, <1>4 DEF StartSpawns
<1>5. ASSUME NEW j \in Sids, Stop(j) PROVE state'[i] = state[i]
  BY <1>5 DEF Stop, Stoppable, KillSent, KillFails
<1>6. ASSUME NEW j \in Sids, Timeout(j) PROVE state'[i] = state[i]
  BY <1>6 DEF Timeout, KillSent, KillFails
<1>7. ASSUME NEW j \in Sids, Close(j) PROVE state'[i] = state[i]
  BY <1>7 DEF Close, Keeps
<1>8. ASSUME NEW j \in Sids, NEW n \in 1 .. MaxBytes, Collect(j, n) PROVE state' = state
  BY <1>8 DEF Collect, slot
<1>9. ASSUME NEW j \in Sids, NEW offset \in 0 .. MaxBytes, Read(j, offset)
      PROVE state' = state
  BY <1>9 DEF Read
<1> QED
  BY <1>2, <1>3, <1>4, <1>5, <1>6, <1>7, <1>8, <1>9 DEF Next

(* No late timer, stop or start changes the outcome of a session whose process   *)
(* has closed.                                                                   *)
THEOREM OutcomeFinal == Spec => OutcomeIsFinal
<1>1. IInv /\ [Next]_vars =>
        [\A i \in Sids : ended[i] # "no" /\ i \notin child => state'[i] = state[i]]_vars
  BY OutcomeStep
<1> QED
  BY <1>1, Invariance, PTL DEF Spec, OutcomeIsFinal

-------------------------------------------------------------------------------
(* The ring: what is retained of a session is the newest part of what its        *)
(* process wrote, each byte at its own position.                                 *)
RingHolds(r, n) ==
  /\ r \in Seq(Nat) /\ Len(r) <= n
  /\ \A k \in 1 .. Len(r) : r[k] = n - Len(r) + k - 1

RingInv ==
  /\ produced \in [Sids -> 0 .. MaxBytes]
  /\ ring \in [Sids -> Seq(Nat)]
  /\ \A i \in Sids : RingHolds(ring[i], produced[i])
  /\ PageIsFaithful /\ page \in [offset : Nat, bytes : Seq(Nat)]

(* Appending the bytes just written keeps the positions. *)
LEMMA AppendHolds ==
  ASSUME NEW r, NEW p \in Nat, NEW n \in Nat, RingHolds(r, p)
  PROVE  RingHolds(r \o [k \in 1 .. n |-> p + k - 1], p + n)
<1> DEFINE chunk == [k \in 1 .. n |-> p + k - 1]
           all == r \o chunk
<1>1. chunk \in Seq(Nat) /\ Len(chunk) = n /\ \A k \in 1 .. n : chunk[k] = p + k - 1
  OBVIOUS
<1>2. r \in Seq(Nat) /\ Len(r) \in Nat /\ Len(r) <= p
  BY DEF RingHolds
<1> HIDE DEF chunk
<1>3. all \in Seq(Nat) /\ Len(all) = Len(r) + n
  BY <1>1, <1>2
<1>4. ASSUME NEW k \in 1 .. Len(all) PROVE all[k] = p + n - Len(all) + k - 1
  <2>1. CASE k <= Len(r)
    <3>1. all[k] = r[k] /\ k \in 1 .. Len(r)
      BY <1>1, <1>2, <1>3, <2>1
    <3> QED
      BY <1>2, <1>3, <3>1 DEF RingHolds
  <2>2. CASE k > Len(r)
    <3>1. all[k] = chunk[k - Len(r)] /\ k - Len(r) \in 1 .. n
      BY <1>1, <1>2, <1>3, <2>2
    <3> QED
      BY <1>1, <1>2, <1>3, <3>1
  <2> QED
    BY <1>2, <1>3, <2>1, <2>2
<1> QED
  BY <1>2, <1>3, <1>4 DEF RingHolds

(* Dropping the oldest bytes keeps them too. *)
LEMMA NewestHolds ==
  ASSUME NEW r, NEW p \in Nat, RingHolds(r, p)
  PROVE  RingHolds(NewestOf(r), p)
<1> USE BoundAssumption DEF RingHolds, NewestOf
<1>1. CASE Len(r) > Retained
  <2> DEFINE d == Len(r) - Retained
  <2>1. d \in Nat /\ NewestOf(r) = SubSeq(r, d + 1, Len(r))
    BY <1>1
  <2>2. NewestOf(r) \in Seq(Nat) /\ Len(NewestOf(r)) = Retained
    BY <1>1, <2>1
  <2>3. \A k \in 1 .. Retained : NewestOf(r)[k] = r[d + k]
    BY <1>1, <2>1
  <2> QED
    BY <1>1, <2>2, <2>3
<1>2. CASE ~(Len(r) > Retained)
  BY <1>2
<1> QED
  BY <1>1, <1>2

(* A stretch of the ring is the bytes of its positions. *)
Stretch(r, from, n) == [k \in 1 .. n |-> r[from + k]]
LEMMA StretchHolds ==
  ASSUME NEW r, NEW p \in Nat, RingHolds(r, p),
         NEW from \in Nat, NEW n \in Nat, from + n <= Len(r)
  PROVE  /\ Stretch(r, from, n) \in Seq(Nat) /\ Len(Stretch(r, from, n)) = n
         /\ \A k \in 1 .. n : Stretch(r, from, n)[k] = p - Len(r) + from + k - 1
<1>1. r \in Seq(Nat) /\ Len(r) \in Nat
  BY DEF RingHolds
<1>2. \A k \in 1 .. n : from + k \in 1 .. Len(r)
  BY <1>1
<1>3. \A k \in 1 .. n : r[from + k] \in Nat
  BY <1>1, <1>2
<1> QED
  BY <1>1, <1>2, <1>3 DEF RingHolds, Stretch

(* A page that a read fills from the ring holds the bytes asked for. *)
LEMMA ReadFaithful ==
  ASSUME RingInv, NEW i \in Sids, NEW offset \in 0 .. MaxBytes, Read(i, offset)
  PROVE  PageIsFaithful' /\ page' \in [offset : Nat, bytes : Seq(Nat)]
<1> DEFINE from == offset - First(i)
           n == IF PageSize < Len(ring[i]) - from THEN PageSize ELSE Len(ring[i]) - from
           bytes == Stretch(ring[i], from, n)
<1>1. RingHolds(ring[i], produced[i]) /\ produced[i] \in Nat /\ Len(ring[i]) \in Nat
  BY BoundAssumption DEF RingInv, RingHolds
<1>2. /\ offset >= First(i) /\ offset <= produced[i]
      /\ page' = [offset |-> offset, bytes |-> bytes]
  BY DEF Read, Stretch
<1>3. from \in Nat /\ from <= Len(ring[i]) /\ offset = produced[i] - Len(ring[i]) + from
  BY <1>1, <1>2, BoundAssumption DEF First
<1>4. page.bytes' = bytes /\ page.offset' = offset
  BY <1>2
<1> HIDE DEF from
<1>5. n \in Nat /\ from + n <= Len(ring[i])
  BY <1>1, <1>3, BoundAssumption
<1> HIDE DEF n
<1>6. /\ bytes \in Seq(Nat) /\ Len(bytes) = n
      /\ \A k \in 1 .. n : bytes[k] = produced[i] - Len(ring[i]) + from + k - 1
  BY <1>1, <1>3, <1>5, StretchHolds
<1>7. \A k \in 1 .. n : bytes[k] = offset + k - 1
  BY <1>3, <1>6
<1> QED
  BY <1>2, <1>4, <1>6, <1>7, BoundAssumption DEF PageIsFaithful

(* Every step keeps the positions of the retained bytes. *)
LEMMA RingStep == RingInv /\ [Next]_vars => RingInv'
<1> SUFFICES ASSUME RingInv, [Next]_vars PROVE RingInv'
  OBVIOUS
<1>1. CASE UNCHANGED output
  BY <1>1 DEF RingInv, PageIsFaithful, output
<1>2. ASSUME NEW i \in Sids, NEW n \in 1 .. MaxBytes, Collect(i, n) PROVE RingInv'
  <2> DEFINE grown == ring[i] \o [k \in 1 .. n |-> produced[i] + k - 1]
  <2>1. /\ produced' = [produced EXCEPT ![i] = @ + n] /\ produced[i] + n <= MaxBytes
        /\ ring' = [ring EXCEPT ![i] = NewestOf(grown)] /\ page' = page
    BY <1>2 DEF Collect
  <2>2. produced' \in [Sids -> 0 .. MaxBytes]
    BY <2>1, BoundAssumption DEF RingInv
  <2>3. RingHolds(NewestOf(grown), produced[i] + n)
    BY AppendHolds, NewestHolds, BoundAssumption DEF RingInv
  <2>4. ring' \in [Sids -> Seq(Nat)]
    BY <2>1, <2>3 DEF RingInv, RingHolds
  <2>5. \A j \in Sids : RingHolds(ring'[j], produced'[j])
    BY <2>1, <2>3 DEF RingInv
  <2> QED
    BY <2>1, <2>2, <2>4, <2>5 DEF RingInv, PageIsFaithful
<1>3. ASSUME NEW i \in Sids, NEW offset \in 0 .. MaxBytes, Read(i, offset) PROVE RingInv'
  BY <1>3, ReadFaithful DEF RingInv, Read
<1>4. ASSUME NEW i \in Sids,
             \/ Prune \/ StartBegin(i) \/ StartFails(i) \/ StartSpawns(i) \/ Stop(i)
             \/ Timeout(i) \/ Exit(i) \/ Close(i) \/ Age(i)
      PROVE UNCHANGED output
  BY <1>4 DEF Prune, StartBegin, StartFails, StartSpawns, Stop, Timeout, Exit, Close, Age
<1>5. Prune => UNCHANGED output
  BY DEF Prune
<1> QED
  BY <1>1, <1>2, <1>3, <1>4, <1>5 DEF Next, vars

(* A reader that follows the cursors sees the output as it was written, for any  *)
(* size of the ring, of the pages and of the chunks.                             *)
THEOREM FaithfulPages == Spec => []PageIsFaithful
<1>1. Init => RingInv
  BY BoundAssumption DEF Init, RingInv, RingHolds, PageIsFaithful, NoPage
<1>2. RingInv => PageIsFaithful
  BY DEF RingInv
<1> QED
  BY <1>1, <1>2, RingStep, PTL DEF Spec

-------------------------------------------------------------------------------
(* What TypeOK says besides: the table holds started sessions, and a timer is    *)
(* armed only while there is a child to stop.                                    *)
OtherTypes ==
  /\ table \subseteq {i \in Sids : start[i] = "done"} /\ timer \subseteq child
  /\ unkillable \subseteq Sids

(* Every step keeps them. *)
LEMMA OtherStep == IInv /\ OtherTypes /\ [Next]_vars => OtherTypes'
<1> SUFFICES ASSUME IInv, OtherTypes, [Next]_vars PROVE OtherTypes'
  OBVIOUS
<1> USE DEF IInv, SlotTypes, OtherTypes
<1>1. CASE Prune
  BY <1>1 DEF Prune, Kept, os
<1>2. ASSUME NEW i \in Sids, StartBegin(i) PROVE OtherTypes'
  BY <1>2 DEF StartBegin, Kept, os
<1>3. ASSUME NEW i \in Sids, StartFails(i) \/ StartSpawns(i) PROVE OtherTypes'
  BY <1>3 DEF StartFails, StartSpawns, Arms, os
<1>4. ASSUME NEW i \in Sids, Stop(i) PROVE OtherTypes'
  BY <1>4 DEF Stop, KillSent, KillFails, Kept
<1>5. ASSUME NEW i \in Sids, Timeout(i) PROVE OtherTypes'
  BY <1>5 DEF Timeout, KillSent, KillFails
<1>6. ASSUME NEW i \in Sids, Exit(i) \/ Close(i) \/ Age(i) PROVE OtherTypes'
  BY <1>6 DEF Exit, Close, Disarms, Age, slot, os
<1>7. ASSUME NEW i \in Sids, NEW n \in 1 .. MaxBytes, Collect(i, n) PROVE OtherTypes'
  BY <1>7 DEF Collect, slot, os
<1>8. ASSUME NEW i \in Sids, NEW offset \in 0 .. MaxBytes, Read(i, offset) PROVE OtherTypes'
  BY <1>8 DEF Read, Kept, os
<1>9. CASE UNCHANGED vars
  BY <1>9 DEF vars, slot, os
<1> QED
  BY <1>1, <1>2, <1>3, <1>4, <1>5, <1>6, <1>7, <1>8, <1>9 DEF Next

(* The bytes of a ring are positions its process has reached. *)
LEMMA RingPositions ==
  ASSUME NEW r, NEW p \in 0 .. MaxBytes, RingHolds(r, p)
  PROVE  r \in Seq(0 .. MaxBytes)
<1>1. r \in Seq(Nat) /\ Len(r) \in Nat /\ Len(r) <= p
  BY DEF RingHolds
<1>2. \A k \in 1 .. Len(r) : r[k] \in 0 .. MaxBytes
  BY <1>1, BoundAssumption DEF RingHolds
<1>3. r = [k \in 1 .. Len(r) |-> r[k]]
  BY <1>1
<1>4. [k \in 1 .. Len(r) |-> r[k]] \in Seq(0 .. MaxBytes)
  BY <1>1, <1>2
<1> QED
  BY <1>3, <1>4

(* Type correctness: among the rest, a timer never outlives its child and a      *)
(* process never outlives its session's handle.                                  *)
THEOREM TypeCorrect == Spec => []TypeOK
<1>1. Init => OtherTypes /\ RingInv
  BY BoundAssumption DEF Init, OtherTypes, RingInv, RingHolds, PageIsFaithful, NoPage
<1>2. RingInv => ring \in [Sids -> Seq(0 .. MaxBytes)]
  BY RingPositions DEF RingInv
<1>3. IInv /\ OtherTypes /\ RingInv => TypeOK
  BY <1>2 DEF IInv, SlotTypes, Ends, OtherTypes, RingInv, TypeOK
<1> QED
  BY <1>1, <1>3, OtherStep, RingStep, Invariance, PTL DEF Spec

===============================================================================
