--------------------------- MODULE ReplayGuardProofs ---------------------------
(***************************************************************************)
(* Proofs about ReplayGuard, for any number of processes, any set of       *)
(* nonces and any timestamps.  The inductive invariant says who may hold   *)
(* the lock of a nonce while its token is live.                            *)
(***************************************************************************)
EXTENDS ReplayGuard, TLAPS

InCall(p) == pc[p] \notin {"down", "loading", "idle"}
HoldStages == {"writing", "filing", "filingCompact", "appending"}
WrittenStages == {"filing", "filingCompact", "appending"}

(* A call in progress is about a nonce, and no pruning lies in the future. *)
Sane ==
  \A p \in Procs : /\ InCall(p) => arg[p] \in Nonces
                   /\ lastPrune[p] <= clock

(* A lock created too late stays too late. *)
LateStaysLate ==
  \A p \in Procs : pc[p] \in HoldStages /\ ~inTime[p] => clock >= Expires[arg[p]]

(* While the token is live, its holder's lock file exists, and is written    *)
(* once the holder got past the write.                                       *)
HolderHasLock ==
  \A p \in Procs : \A n \in Nonces :
    Holding(p, n) /\ clock < Expires[n] =>
      /\ locks[n] # "absent"
      /\ pc[p] \in WrittenStages => locks[n] = "written"

OneHolder ==
  \A p, q \in Procs : \A n \in Nonces : Holding(p, n) /\ Holding(q, n) => p = q

HeldIsUnspent ==
  \A p \in Procs : \A n \in Nonces : Holding(p, n) => liveUses[n] = 0

IInv ==
  /\ TypeOK /\ Sane /\ LateStaysLate
  /\ HolderHasLock /\ OneHolder /\ HeldIsUnspent
  /\ SpentKeepsLock /\ SingleUse

-------------------------------------------------------------------------------
(* Every action keeps the types. *)
LEMMA TypeStep == TypeOK /\ Sane /\ [Next]_vars => TypeOK'
<1> SUFFICES ASSUME TypeOK, Sane, [Next]_vars PROVE TypeOK'
  OBVIOUS
<1> USE TimesAssumption, NonceAssumption DEF TypeOK
<1>1. CASE Tick
  BY <1>1 DEF Tick, files, history
<1>2. CASE \E p \in Procs : \E n \in Nonces : Begin(p, n)
  BY <1>2 DEF Begin, files, history, Stages
<1>3. ASSUME NEW p \in Procs, NEW stage \in Stages, Goto(p, stage)
      PROVE /\ pc' \in [Procs -> Stages]
            /\ arg' \in [Procs -> Nonces \union {NoNonce}]
            /\ inTime' \in [Procs -> BOOLEAN]
  BY <1>3 DEF Goto
<1>4. ASSUME NEW p \in Procs, Start(p) PROVE TypeOK'
  BY <1>3, <1>4 DEF Start, Stages, files, history
<1>5. ASSUME NEW p \in Procs, LoadLocks(p) PROVE TypeOK'
  BY <1>3, <1>5 DEF LoadLocks, Loadable, Stages, history, LockStates
<1>6. ASSUME NEW p \in Procs, Prune(p) PROVE TypeOK'
  <2>1. /\ ToCompact[pc[p]] \in Stages
        /\ AfterPrune[pc[p]] \in Stages
    BY <1>6 DEF Prune, PruneStages, ToCompact, AfterPrune, Stages
  <2>2. QED
    BY <1>3, <1>6, <2>1 DEF Prune, history, LockStates
<1>7. ASSUME NEW p \in Procs, Compact(p) PROVE TypeOK'
  <2>1. AfterCompact[pc[p]] \in Stages
    BY <1>7 DEF Compact, AfterCompact, Stages
  <2>2. QED
    BY <1>3, <1>7, <2>1 DEF Compact, history
<1>8. ASSUME NEW p \in Procs, HasLookup(p) PROVE TypeOK'
  BY <1>3, <1>8 DEF HasLookup, Stages, files, history
<1>9. ASSUME NEW p \in Procs, InCall(p) PROVE arg[p] \in Nonces
  BY <1>9 DEF Sane
<1>10. ASSUME NEW p \in Procs, HasRead(p) PROVE TypeOK'
  <2>1. arg[p] \in Nonces
    BY <1>9, <1>10 DEF HasRead, InCall
  <2>2. QED
    BY <1>3, <1>10, <2>1 DEF HasRead, Remember, Stages, history, LockStates
<1>11. ASSUME NEW p \in Procs, CheckBinding(p) PROVE TypeOK'
  BY <1>3, <1>11 DEF CheckBinding, Stages, files, history
<1>12. ASSUME NEW p \in Procs, ConsumeCheck(p) PROVE TypeOK'
  BY <1>3, <1>12 DEF ConsumeCheck, Stages, files, history
<1>13. ASSUME NEW p \in Procs, OpenLock(p) PROVE TypeOK'
  <2>1. arg[p] \in Nonces
    BY <1>9, <1>13 DEF OpenLock, Creates, InCall
  <2>2. inTime' \in [Procs -> BOOLEAN]
    <3>1. CASE inTime' = [inTime EXCEPT ![p] = clock < Expires[arg[p]]]
      BY <3>1
    <3>2. CASE Goto(p, "idle")
      BY <1>3, <3>2 DEF Stages
    <3>3. QED
      BY <1>13, <3>1, <3>2 DEF OpenLock, Creates
  <2>3. /\ locks' \in [Nonces -> LockStates]
        /\ mem' \in [Procs -> SUBSET Nonces]
    BY <1>13, <2>1 DEF OpenLock, Creates, Remember, LockStates
  <2>4. /\ pc' \in [Procs -> Stages]
        /\ arg' \in [Procs -> Nonces \union {NoNonce}]
    BY <1>3, <1>13 DEF OpenLock, Creates, Stages
  <2>5. QED
    BY <1>13, <2>2, <2>3, <2>4 DEF OpenLock, Creates, history
<1>14. ASSUME NEW p \in Procs, WriteLock(p) PROVE TypeOK'
  BY <1>3, <1>14 DEF WriteLock, Stages, history, LockStates
<1>15. ASSUME NEW p \in Procs, Append(p) PROVE TypeOK'
  <2>1. arg[p] \in Nonces
    BY <1>9, <1>15 DEF Append, Entering, InCall
  <2>2. QED
    BY <1>3, <1>15, <2>1 DEF Append, Remember, Stages
<1>16. ASSUME NEW p \in Procs, AppendFails(p) PROVE TypeOK'
  BY <1>3, <1>16 DEF AppendFails, Stages, history, LockStates
<1>17. ASSUME NEW p \in Procs, Crash(p) PROVE TypeOK'
  BY <1>3, <1>17 DEF Crash, Stages, files, history
<1>18. CASE UNCHANGED vars
  BY <1>18 DEF vars, files, history
<1>19. QED
  BY <1>1, <1>2, <1>4, <1>5, <1>6, <1>7, <1>8, <1>10, <1>11, <1>12, <1>13,
     <1>14, <1>15, <1>16, <1>17, <1>18 DEF Next

-------------------------------------------------------------------------------
(* A step that lets nobody become a holder, accepts nothing and leaves the   *)
(* files of live tokens alone keeps every part of the invariant.             *)
Quiet ==
  /\ clock' >= clock
  /\ liveUses' = liveUses
  /\ \A n \in Nonces :
       clock' < Expires[n] /\ locks[n] # "absent" => locks'[n] = locks[n]
  /\ \A p \in Procs : \A n \in Nonces : Holding(p, n)' =>
       /\ Holding(p, n)
       /\ pc'[p] \in WrittenStages => pc[p] \in WrittenStages

Ownership == HolderHasLock /\ OneHolder /\ HeldIsUnspent /\ SpentKeepsLock /\ SingleUse

LEMMA QuietKeepsOwnership ==
  ASSUME TypeOK, TypeOK', Ownership, Quiet
  PROVE Ownership'
<1> USE DEF Ownership
<1> \A n \in Nonces : clock \in Int /\ clock' \in Int /\ Expires[n] \in Int
  BY TimesAssumption DEF TypeOK
<1>1. HolderHasLock'
  <2> SUFFICES ASSUME NEW p \in Procs, NEW n \in Nonces,
                      Holding(p, n)', clock' < Expires[n]
               PROVE /\ locks'[n] # "absent"
                     /\ pc'[p] \in WrittenStages => locks'[n] = "written"
    BY DEF HolderHasLock
  <2>1. /\ Holding(p, n)
        /\ pc'[p] \in WrittenStages => pc[p] \in WrittenStages
    BY DEF Quiet
  <2>2. clock < Expires[n]
    BY DEF Quiet
  <2>3. /\ locks[n] # "absent"
        /\ pc[p] \in WrittenStages => locks[n] = "written"
    BY <2>1, <2>2 DEF HolderHasLock
  <2>4. locks'[n] = locks[n]
    BY <2>3 DEF Quiet
  <2>5. QED
    BY <2>1, <2>3, <2>4
<1>2. OneHolder'
  BY DEF Quiet, OneHolder
<1>3. HeldIsUnspent'
  BY DEF Quiet, HeldIsUnspent
<1>4. SpentKeepsLock'
  BY DEF Quiet, SpentKeepsLock
<1>5. SingleUse'
  BY DEF Quiet, SingleUse
<1>6. QED
  BY <1>1, <1>2, <1>3, <1>4, <1>5

(* What Goto leaves of a holder: the same holder, or nobody. *)
LEMMA GotoHolding ==
  ASSUME TypeOK, NEW p \in Procs, NEW stage \in Stages, Goto(p, stage),
         stage \in HoldStages => pc[p] \in HoldStages,
         stage \in WrittenStages => pc[p] \in WrittenStages
  PROVE  \A q \in Procs : \A n \in Nonces : Holding(q, n)' =>
           /\ Holding(q, n)
           /\ pc'[q] \in WrittenStages => pc[q] \in WrittenStages
BY DEF Goto, Holding, TypeOK, HoldStages, WrittenStages

(* Goto to a stage outside a lock, or from one holding stage to another,     *)
(* keeps what is known of late locks while the clock stands still.           *)
LEMMA GotoSane ==
  ASSUME TypeOK, Sane, LateStaysLate, NEW p \in Procs, NEW stage \in Stages,
         Goto(p, stage), clock' = clock,
         lastPrune' \in {lastPrune, [lastPrune EXCEPT ![p] = clock]},
         stage \notin {"idle", "down", "loading"} => InCall(p),
         stage \in HoldStages => pc[p] \in HoldStages
  PROVE  Sane' /\ LateStaysLate'
<1>1. Sane'
  BY DEF Goto, Sane, InCall, TypeOK
<1>2. LateStaysLate'
  BY DEF Goto, LateStaysLate, TypeOK, HoldStages
<1>3. QED
  BY <1>1, <1>2

-------------------------------------------------------------------------------
(* The inductive step.  Only OpenLock, WriteLock, Append and AppendFails     *)
(* touch a lock that may be live; every other action is quiet.               *)
LEMMA InvStep == IInv /\ [Next]_vars => IInv'
<1> SUFFICES ASSUME IInv, [Next]_vars PROVE IInv'
  OBVIOUS
<1> USE TimesAssumption, NonceAssumption
<1>a. TypeOK /\ TypeOK' /\ Sane /\ LateStaysLate /\ Ownership
  BY TypeStep DEF IInv, Ownership
<1> USE <1>a
<1>b. ASSUME Sane' /\ LateStaysLate', Ownership' PROVE IInv'
  BY <1>b DEF IInv, Ownership
<1>c. ASSUME Sane' /\ LateStaysLate', Quiet PROVE IInv'
  BY <1>b, <1>c, QuietKeepsOwnership
<1>d. \A p \in Procs : InCall(p) => arg[p] \in Nonces
  BY DEF Sane
<1>t. clock \in Int /\ \A n \in Nonces : Expires[n] \in Int
  BY DEF TypeOK
<1>1. CASE Tick
  <2>1. Sane'
    BY <1>1 DEF Tick, Sane, InCall, TypeOK
  <2>2. LateStaysLate'
    <3> SUFFICES ASSUME NEW p \in Procs, (pc[p] \in HoldStages)', (~inTime[p])'
                 PROVE (clock >= Expires[arg[p]])'
      BY DEF LateStaysLate
    <3>1. clock >= Expires[arg[p]] /\ arg[p] \in Nonces
      BY <1>1, <1>d DEF Tick, LateStaysLate, HoldStages, InCall
    <3>2. QED
      BY <1>1, <3>1, <1>t DEF Tick
  <2>3. Quiet
    BY <1>1, <1>t DEF Tick, Quiet, Holding, history, files
  <2>4. QED
    BY <1>c, <2>1, <2>2, <2>3
<1>2. ASSUME NEW p \in Procs, NEW n \in Nonces, Begin(p, n) PROVE IInv'
  <2>1. Sane' /\ LateStaysLate'
    BY <1>2 DEF Begin, Sane, LateStaysLate, InCall, HoldStages, TypeOK
  <2>2. Quiet
    BY <1>2, <1>t DEF Begin, Quiet, Holding, history, files, WrittenStages, TypeOK
  <2>3. QED
    BY <1>c, <2>1, <2>2
<1>3. ASSUME NEW p \in Procs, NEW stage \in Stages, Goto(p, stage), clock' = clock,
             lastPrune' \in {lastPrune, [lastPrune EXCEPT ![p] = clock]},
             stage \notin {"idle", "down", "loading"} => InCall(p),
             stage \in HoldStages => pc[p] \in HoldStages,
             stage \in WrittenStages => pc[p] \in WrittenStages,
             liveUses' = liveUses,
             \A n \in Nonces :
               clock < Expires[n] /\ locks[n] # "absent" => locks'[n] = locks[n]
      PROVE IInv'
  <2>1. Sane' /\ LateStaysLate'
    BY <1>3, GotoSane
  <2>2. Quiet
    BY <1>3, <1>t, GotoHolding DEF Quiet
  <2>3. QED
    BY <1>c, <2>1, <2>2
<1>4. ASSUME NEW p \in Procs, Start(p) PROVE IInv'
  BY <1>3, <1>4 DEF Start, files, history, Stages, HoldStages, WrittenStages
<1>5. ASSUME NEW p \in Procs, LoadLocks(p) PROVE IInv'
  <2>1. \A n \in Nonces : clock < Expires[n] => locks'[n] = locks[n]
    BY <1>5, <1>t DEF LoadLocks, Loadable, Sane, TypeOK
  <2>2. QED
    BY <1>3, <1>5, <2>1 DEF LoadLocks, Loadable, history, Stages, HoldStages, WrittenStages
<1>6. ASSUME NEW p \in Procs, Prune(p) PROVE IInv'
  <2>1. \A n \in Nonces : clock < Expires[n] => locks'[n] = locks[n]
    BY <1>6, <1>t DEF Prune, Expired, TypeOK
  <2>2. PICK stage \in {ToCompact[pc[p]], AfterPrune[pc[p]]} : Goto(p, stage)
    BY <1>6 DEF Prune
  <2>3. /\ stage \in Stages
        /\ InCall(p)
        /\ stage \in HoldStages => pc[p] \in HoldStages
        /\ stage \in WrittenStages => pc[p] \in WrittenStages
    BY <1>6 DEF Prune, PruneStages, ToCompact, AfterPrune, Stages, HoldStages,
                WrittenStages, InCall
  <2>4. QED
    BY <1>3, <1>6, <2>1, <2>2, <2>3 DEF Prune, history
<1>7. ASSUME NEW p \in Procs, Compact(p) PROVE IInv'
  <2>1. /\ AfterCompact[pc[p]] \in Stages
        /\ InCall(p)
        /\ AfterCompact[pc[p]] \in HoldStages => pc[p] \in HoldStages
        /\ AfterCompact[pc[p]] \in WrittenStages => pc[p] \in WrittenStages
    BY <1>7 DEF Compact, AfterCompact, Stages, HoldStages, WrittenStages, InCall
  <2>2. QED
    BY <1>3, <1>7, <2>1 DEF Compact, history
<1>8. ASSUME NEW p \in Procs, HasLookup(p) PROVE IInv'
  BY <1>3, <1>8 DEF HasLookup, Entering, files, history, Stages, HoldStages,
                    WrittenStages, InCall
<1>9. ASSUME NEW p \in Procs, HasRead(p) PROVE IInv'
  <2>1. \A n \in Nonces : clock < Expires[n] => locks'[n] = locks[n]
    BY <1>9, <1>t DEF HasRead, Expired, TypeOK
  <2>2. QED
    BY <1>3, <1>9, <2>1 DEF HasRead, history, Stages, HoldStages, WrittenStages, InCall
<1>10. ASSUME NEW p \in Procs, CheckBinding(p) PROVE IInv'
  BY <1>3, <1>10 DEF CheckBinding, files, history, Stages, HoldStages, WrittenStages,
                     InCall
<1>11. ASSUME NEW p \in Procs, ConsumeCheck(p) PROVE IInv'
  BY <1>3, <1>11 DEF ConsumeCheck, Entering, files, history, Stages, HoldStages,
                     WrittenStages, InCall
<1>12. ASSUME NEW p \in Procs, Crash(p) PROVE IInv'
  BY <1>3, <1>12 DEF Crash, files, history, Stages, HoldStages, WrittenStages
<1>13. ASSUME NEW p \in Procs, OpenLock(p) PROVE IInv'
  <2> DEFINE n == arg[p]
  <2>1. n \in Nonces
    BY <1>d, <1>13 DEF OpenLock, Creates, InCall
  <2>2. CASE Goto(p, "idle") /\ UNCHANGED locks
    BY <1>3, <1>13, <2>2 DEF OpenLock, Creates, history, Stages, HoldStages, WrittenStages
  <2>3. CASE /\ locks[n] = "absent"
             /\ locks' = [locks EXCEPT ![n] = "empty"]
             /\ inTime' = [inTime EXCEPT ![p] = clock < Expires[n]]
             /\ pc' = [pc EXCEPT ![p] = "writing"]
             /\ UNCHANGED <<arg, mem>>
    <3>1. Sane'
      BY <1>13, <2>1, <2>3 DEF OpenLock, Creates, Sane, InCall, TypeOK
    <3>2. LateStaysLate'
      <4> SUFFICES ASSUME NEW q \in Procs, (pc[q] \in HoldStages)', (~inTime[q])'
                   PROVE (clock >= Expires[arg[q]])'
        BY DEF LateStaysLate
      <4>1. CASE q = p
        <5>1. ~(clock < Expires[n])
          BY <2>3, <4>1 DEF TypeOK
        <5>2. QED
          BY <1>13, <1>t, <2>1, <2>3, <4>1, <5>1 DEF OpenLock, Creates
      <4>2. CASE q # p
        <5>1. pc[q] \in HoldStages /\ ~inTime[q]
          BY <2>3, <4>2 DEF TypeOK
        <5>2. QED
          BY <1>13, <2>3, <5>1 DEF OpenLock, Creates, LateStaysLate
      <4>3. QED
        BY <4>1, <4>2
    <3>3. /\ \A q \in Procs, m \in Nonces : Holding(q, m)' =>
               \/ q # p /\ Holding(q, m) /\ pc'[q] = pc[q]
               \/ q = p /\ m = n /\ clock < Expires[n] /\ pc'[p] = "writing"
          /\ UNCHANGED <<clock, liveUses>>
      BY <1>13, <2>3 DEF OpenLock, Creates, Holding, TypeOK, history
    <3>4. clock < Expires[n] =>
            /\ liveUses[n] = 0
            /\ \A q \in Procs : ~Holding(q, n)
      BY <2>1, <2>3 DEF Ownership, HolderHasLock, SpentKeepsLock, TypeOK
    <3>5. HolderHasLock'
      BY <2>1, <2>3, <3>3, <3>4 DEF Ownership, HolderHasLock, TypeOK, WrittenStages
    <3>6. OneHolder'
      BY <3>3, <3>4 DEF Ownership, OneHolder
    <3>7. HeldIsUnspent'
      BY <3>3, <3>4 DEF Ownership, HeldIsUnspent
    <3>8. SpentKeepsLock' /\ SingleUse'
      BY <2>1, <2>3, <3>3, <3>4 DEF Ownership, SpentKeepsLock, SingleUse, TypeOK
    <3>9. QED
      BY <1>b, <3>1, <3>2, <3>5, <3>6, <3>7, <3>8 DEF Ownership
  <2>4. QED
    BY <1>13, <2>2, <2>3 DEF OpenLock, Creates
<1>14. ASSUME NEW p \in Procs, WriteLock(p) PROVE IInv'
  <2> DEFINE n == arg[p]
  <2>1. n \in Nonces
    BY <1>d, <1>14 DEF WriteLock, InCall
  <2>2. CASE Goto(p, "idle") /\ UNCHANGED locks
    BY <1>3, <1>14, <2>2 DEF WriteLock, history, Stages, HoldStages, WrittenStages
  <2>3. CASE /\ locks' = [locks EXCEPT ![n] = IF @ = "empty" THEN "written" ELSE @]
             /\ Goto(p, "filing")
    <3>1. Sane' /\ LateStaysLate'
      BY <1>14, <2>3, GotoSane DEF WriteLock, Stages, HoldStages, InCall
    <3>2. /\ \A q \in Procs, m \in Nonces : Holding(q, m)' =>
               /\ Holding(q, m)
               /\ pc'[q] \in WrittenStages => (pc[q] \in WrittenStages \/ m = n)
          /\ UNCHANGED <<clock, liveUses>>
      <4> SUFFICES ASSUME NEW q \in Procs, NEW m \in Nonces, Holding(q, m)'
                   PROVE /\ Holding(q, m)
                         /\ pc'[q] \in WrittenStages =>
                              (pc[q] \in WrittenStages \/ m = n)
        BY <1>14 DEF WriteLock, history
      <4>1. CASE q = p
        BY <1>14, <2>3, <4>1 DEF WriteLock, Goto, Holding, TypeOK
      <4>2. CASE q # p
        BY <2>3, <4>2 DEF Goto, Holding, TypeOK
      <4>3. QED
        BY <4>1, <4>2
    <3>3. \A m \in Nonces : /\ locks[m] = "written" => locks'[m] = "written"
                            /\ locks[m] # "absent" => locks'[m] # "absent"
                            /\ m = n /\ locks[m] # "absent" => locks'[m] = "written"
      BY <2>3 DEF TypeOK, LockStates
    <3>4. HolderHasLock'
      BY <3>2, <3>3 DEF Ownership, HolderHasLock
    <3>5. OneHolder' /\ HeldIsUnspent' /\ SpentKeepsLock' /\ SingleUse'
      BY <3>2, <3>3 DEF Ownership, OneHolder, HeldIsUnspent, SpentKeepsLock, SingleUse
    <3>6. QED
      BY <1>b, <3>1, <3>4, <3>5 DEF Ownership
  <2>4. QED
    BY <1>14, <2>2, <2>3 DEF WriteLock
<1>15. ASSUME NEW p \in Procs, Append(p) PROVE IInv'
  <2> DEFINE n == arg[p]
  <2>1. n \in Nonces /\ pc[p] \in WrittenStages
    BY <1>d, <1>15 DEF Append, Entering, InCall, WrittenStages
  <2>2. CASE ~inTime[p]
    BY <1>3, <1>15, <2>2 DEF Append, Stages, HoldStages, WrittenStages
  <2>3. CASE inTime[p]
    <3>1. Sane' /\ LateStaysLate'
      BY <1>15, GotoSane DEF Append, Stages, HoldStages
    <3>2. /\ Holding(p, n)
          /\ liveUses' = [liveUses EXCEPT ![n] = @ + 1]
          /\ UNCHANGED <<clock, locks>>
      BY <1>15, <2>1, <2>3 DEF Append, Holding, WrittenStages
    <3>3. \A q \in Procs, m \in Nonces : Holding(q, m)' =>
             q # p /\ Holding(q, m) /\ pc'[q] = pc[q]
      BY <1>15 DEF Append, Goto, Holding, TypeOK
    <3>4. liveUses[n] = 0
      BY <2>1, <3>2 DEF Ownership, HeldIsUnspent
    <3>5. HolderHasLock' /\ OneHolder'
      BY <3>2, <3>3 DEF Ownership, HolderHasLock, OneHolder
    <3>6. HeldIsUnspent'
      BY <2>1, <3>2, <3>3 DEF Ownership, HeldIsUnspent, OneHolder, TypeOK
    <3>7. SpentKeepsLock'
      BY <2>1, <3>2 DEF Ownership, SpentKeepsLock, HolderHasLock, TypeOK
    <3>8. SingleUse'
      BY <2>1, <3>2, <3>4 DEF Ownership, SingleUse, TypeOK
    <3>9. QED
      BY <1>b, <3>1, <3>5, <3>6, <3>7, <3>8 DEF Ownership
  <2>4. QED
    BY <2>2, <2>3
<1>16. ASSUME NEW p \in Procs, AppendFails(p) PROVE IInv'
  <2> DEFINE n == arg[p]
  <2>1. n \in Nonces /\ pc[p] \in WrittenStages
    BY <1>d, <1>16 DEF AppendFails, Entering, InCall, WrittenStages
  <2>2. CASE UNCHANGED locks \/ clock >= Expires[n]
    <3>1. \A m \in Nonces : clock < Expires[m] => locks'[m] = locks[m]
      BY <1>16, <1>t, <2>1, <2>2 DEF AppendFails, TypeOK
    <3>2. QED
      BY <1>3, <1>16, <3>1 DEF AppendFails, history, Stages, HoldStages, WrittenStages
  <2>3. CASE locks' = [locks EXCEPT ![n] = "absent"] /\ clock < Expires[n]
    <3>1. Sane' /\ LateStaysLate'
      BY <1>16, GotoSane DEF AppendFails, Stages, HoldStages
    <3>2. Holding(p, n) /\ UNCHANGED <<clock, liveUses>>
      BY <1>16, <1>t, <2>1, <2>3
         DEF AppendFails, Holding, WrittenStages, HoldStages, LateStaysLate, history
    <3>3. \A q \in Procs, m \in Nonces : Holding(q, m)' =>
             q # p /\ Holding(q, m) /\ pc'[q] = pc[q]
      BY <1>16 DEF AppendFails, Goto, Holding, TypeOK
    <3>4. \A q \in Procs, m \in Nonces : Holding(q, m)' => m # n
      BY <2>1, <3>2, <3>3 DEF Ownership, OneHolder
    <3>5. HolderHasLock' /\ OneHolder' /\ HeldIsUnspent'
      BY <2>1, <2>3, <3>2, <3>3, <3>4
         DEF Ownership, HolderHasLock, OneHolder, HeldIsUnspent, TypeOK
    <3>6. SpentKeepsLock' /\ SingleUse'
      BY <2>1, <2>3, <3>2 DEF Ownership, HeldIsUnspent, SpentKeepsLock, SingleUse, TypeOK
    <3>7. QED
      BY <1>b, <3>1, <3>5, <3>6 DEF Ownership
  <2>4. QED
    BY <1>16, <1>t, <2>1, <2>2, <2>3 DEF AppendFails
<1>17. CASE UNCHANGED vars
  <2>1. Sane' /\ LateStaysLate'
    BY <1>17 DEF vars, Sane, LateStaysLate, InCall
  <2>2. Quiet
    BY <1>17, <1>t DEF vars, files, history, Quiet, Holding
  <2>3. QED
    BY <1>c, <2>1, <2>2
<1>18. QED
  BY <1>1, <1>2, <1>4, <1>5, <1>6, <1>7, <1>8, <1>9, <1>10, <1>11, <1>12, <1>13,
     <1>14, <1>15, <1>16, <1>17 DEF Next

LEMMA InvInit == Init => IInv
<1> SUFFICES ASSUME Init PROVE IInv
  OBVIOUS
<1>1. TypeOK
  BY TimesAssumption, NonceAssumption DEF Init, TypeOK, Stages, LockStates
<1>2. \A p \in Procs : pc[p] = "down" /\ lastPrune[p] = 0 /\ clock = 0
  BY DEF Init
<1>3. \A n \in Nonces : liveUses[n] = 0
  BY DEF Init
<1>4. Sane /\ LateStaysLate
  BY <1>2 DEF Sane, LateStaysLate, InCall, HoldStages
<1>5. HolderHasLock /\ OneHolder /\ HeldIsUnspent
  BY <1>2 DEF HolderHasLock, OneHolder, HeldIsUnspent, Holding
<1>6. SpentKeepsLock /\ SingleUse
  BY <1>3 DEF SpentKeepsLock, SingleUse
<1>7. QED
  BY <1>1, <1>4, <1>5, <1>6 DEF IInv

THEOREM Invariance == Spec => []IInv
BY InvInit, InvStep, PTL DEF Spec

(* Types are kept: TypeOK for any constants. *)
THEOREM TypeCorrect == Spec => []TypeOK
<1>1. IInv => TypeOK
  BY DEF IInv
<1>2. QED
  BY <1>1, Invariance, PTL

(* However many processes share the files, and however they are scheduled,   *)
(* killed and restarted, no nonce is accepted twice on locks made while its  *)
(* token was live (consume, prune, has, _loadFromDisk).                      *)
THEOREM NonceSpentOnce == Spec => []SingleUse
<1>1. IInv => SingleUse
  BY DEF IInv
<1>2. QED
  BY <1>1, Invariance, PTL

(* The lock file of an accepted nonce is never lost while its token is live. *)
THEOREM SpentIsDurable == Spec => []SpentKeepsLock
<1>1. IInv => SpentKeepsLock
  BY DEF IInv
<1>2. QED
  BY <1>1, Invariance, PTL

(* A nonce accepted while live never gets past has() again while it is live. *)
THEOREM SpentStopped == Spec => SpentStopsAtHas
<1>1. ASSUME IInv, [Next]_vars
      PROVE  [\A p \in Procs : pc[p] # "binding" /\ pc'[p] = "binding" =>
                ~(liveUses[arg[p]] > 0 /\ clock < Expires[arg[p]])]_vars
  <2> SUFFICES ASSUME NEW p \in Procs, pc[p] # "binding", pc'[p] = "binding",
                      liveUses[arg[p]] > 0, clock < Expires[arg[p]], Next
               PROVE FALSE
    BY <1>1
  <2>1. ASSUME NEW q \in Procs, NEW stage, Goto(q, stage) PROVE q = p /\ stage = "binding"
    BY <1>1, <2>1 DEF Goto, IInv, TypeOK
  <2>2. HasLookup(p) \/ HasRead(p)
    <3>1. ~Tick
      BY DEF Tick
    <3>2. ASSUME NEW q \in Procs PROVE \A n \in Nonces : ~Begin(q, n)
      BY <1>1 DEF Begin, IInv, TypeOK
    <3>3. ASSUME NEW q \in Procs
          PROVE /\ ~Start(q) /\ ~LoadLocks(q) /\ ~Compact(q) /\ ~CheckBinding(q)
                /\ ~ConsumeCheck(q) /\ ~WriteLock(q) /\ ~Append(q)
                /\ ~AppendFails(q) /\ ~Crash(q)
      BY <2>1 DEF Start, LoadLocks, Compact, AfterCompact, CheckBinding, ConsumeCheck,
                  WriteLock, Append, AppendFails, Crash
    <3>4. ASSUME NEW q \in Procs PROVE ~Prune(q)
      BY <2>1 DEF Prune, PruneStages, ToCompact, AfterPrune
    <3>5. ASSUME NEW q \in Procs PROVE ~OpenLock(q)
      BY <1>1, <2>1 DEF OpenLock, Creates, IInv, TypeOK
    <3>6. ASSUME NEW q \in Procs, HasLookup(q) \/ HasRead(q) PROVE q = p
      BY <2>1, <3>6 DEF HasLookup, HasRead
    <3>7. QED
      BY <3>1, <3>2, <3>3, <3>4, <3>5, <3>6 DEF Next
  <2>3. arg[p] \in Nonces
    BY <1>1, <2>2 DEF IInv, Sane, InCall, HasLookup, HasRead, Entering
  <2>4. locks[arg[p]] = "written" /\ ~(clock > Expires[arg[p]])
    BY <1>1, <2>3, TimesAssumption DEF IInv, SpentKeepsLock, TypeOK
  <2>5. QED
    BY <2>1, <2>2, <2>4 DEF HasLookup, HasRead, Expired, LockExists
<1>2. QED
  BY <1>1, Invariance, PTL DEF Spec, SpentStopsAtHas

-------------------------------------------------------------------------------
(* Refinement: what each step does to the nonces the promise is about. *)
LEMMA RefinementStep ==
  ASSUME IInv, [Next]_vars PROVE [Promise!Next]_(Promise!vars)
<1> USE TimesAssumption, NonceAssumption DEF Promise!vars
<1>a. TypeOK /\ Sane /\ LateStaysLate /\ Ownership
  BY DEF IInv, Ownership
<1> USE <1>a
<1>d. \A p \in Procs : InCall(p) => arg[p] \in Nonces
  BY DEF Sane
<1>t. clock \in Int /\ \A n \in Nonces : Expires[n] \in Int
  BY DEF TypeOK
<1>s. Spent \subseteq Nonces /\ Held \subseteq Nonces /\ Live \subseteq Nonces
  BY DEF Spent, Held, Live
<1>r. ASSUME NEW n \in Held, UNCHANGED <<Live, Spent, liveUses>>, Held' \in {Held, Held \ {n}}
      PROVE [Promise!Next]_(Promise!vars)
  <2>1. CASE Held' = Held
    BY <1>r, <2>1
  <2>2. CASE Held' = Held \ {n}
    BY <1>r, <1>s, <2>2 DEF Promise!Next, Promise!Release
  <2>3. QED
    BY <1>r, <2>1, <2>2
<1>1. CASE Tick
  <2> DEFINE E == Live \ Live'  H == Held \ Held'
  <2>1. Spent' = Spent /\ Live' \subseteq Live /\ liveUses' = liveUses
    BY <1>1, <1>t DEF Tick, history, Spent, Live
  <2>2. \A n \in Nonces : /\ locks'[n] = locks[n]
                          /\ \A p \in Procs : Holding(p, n)' <=> Holding(p, n)
    BY <1>1 DEF Tick, files, Holding
  <2>3. Held' \subseteq Held /\ H \subseteq E
    BY <2>1, <2>2 DEF Held
  <2>4. CASE E = {}
    BY <2>1, <2>3, <2>4
  <2>5. CASE E # {}
    <3>1. Live' = Live \ E /\ Held' = Held \ H
      BY <2>1, <2>3
    <3>2. Promise!Expire(E, H)
      BY <2>1, <2>5, <3>1 DEF Promise!Expire
    <3>3. QED
      BY <2>3, <3>2 DEF Promise!Next
  <2>6. QED
    BY <2>4, <2>5
<1>2. ASSUME NEW p \in Procs, UNCHANGED <<clock, liveUses>>,
             \A q \in Procs, n \in Nonces : Holding(q, n)' => Holding(q, n),
             \A q \in Procs, n \in Nonces : q # p /\ Holding(q, n) => Holding(q, n)',
             \A n \in Nonces :
               clock < Expires[n] => (locks'[n] = "absent" <=> locks[n] = "absent")
      PROVE [Promise!Next]_(Promise!vars)
  <2>1. UNCHANGED <<Live, Spent, liveUses>>
    BY <1>2 DEF Live, Spent
  <2>2. Held' \subseteq Held
    BY <1>2, <2>1 DEF Held, Live
  <2>3. \A n \in Held : n # arg[p] => n \in Held'
    BY <1>2, <2>1 DEF Held, Live, Holding
  <2>4. CASE Held' = Held
    BY <2>1, <2>4
  <2>5. CASE Held' # Held
    <3>1. arg[p] \in Held /\ Held' = Held \ {arg[p]}
      BY <2>2, <2>3, <2>5
    <3>2. QED
      BY <1>r, <2>1, <3>1
  <2>6. QED
    BY <2>4, <2>5
<1>3. ASSUME NEW p \in Procs, NEW stage \in Stages, Goto(p, stage),
             stage \in HoldStages => pc[p] \in HoldStages,
             UNCHANGED <<clock, liveUses>>,
             \A n \in Nonces :
               clock < Expires[n] => (locks'[n] = "absent" <=> locks[n] = "absent")
      PROVE [Promise!Next]_(Promise!vars)
  <2>1. \A q \in Procs, n \in Nonces : Holding(q, n)' => Holding(q, n)
    BY <1>3 DEF Goto, Holding, TypeOK, HoldStages
  <2>2. \A q \in Procs, n \in Nonces : q # p /\ Holding(q, n) => Holding(q, n)'
    BY <1>3 DEF Goto, Holding, TypeOK
  <2>3. QED
    BY <1>2, <1>3, <2>1, <2>2
<1>4. ASSUME NEW p \in Procs, Start(p) PROVE [Promise!Next]_(Promise!vars)
  BY <1>3, <1>4 DEF Start, files, history, Stages, HoldStages
<1>5. ASSUME NEW p \in Procs, LoadLocks(p) PROVE [Promise!Next]_(Promise!vars)
  <2>1. \A n \in Nonces : clock < Expires[n] => locks'[n] = locks[n]
    BY <1>5, <1>t DEF LoadLocks, Loadable, Sane, TypeOK
  <2>2. QED
    BY <1>3, <1>5, <2>1 DEF LoadLocks, Loadable, history, Stages, HoldStages
<1>6. ASSUME NEW p \in Procs, Prune(p) PROVE [Promise!Next]_(Promise!vars)
  <2>1. \A n \in Nonces : clock < Expires[n] => locks'[n] = locks[n]
    BY <1>6, <1>t DEF Prune, Expired, TypeOK
  <2>2. PICK stage \in {ToCompact[pc[p]], AfterPrune[pc[p]]} : Goto(p, stage)
    BY <1>6 DEF Prune
  <2>3. stage \in Stages /\ (stage \in HoldStages => pc[p] \in HoldStages)
    BY <1>6 DEF Prune, PruneStages, ToCompact, AfterPrune, Stages, HoldStages
  <2>4. QED
    BY <1>3, <1>6, <2>1, <2>2, <2>3 DEF Prune, history
<1>7. ASSUME NEW p \in Procs, Compact(p) PROVE [Promise!Next]_(Promise!vars)
  <2>1. /\ AfterCompact[pc[p]] \in Stages
        /\ AfterCompact[pc[p]] \in HoldStages => pc[p] \in HoldStages
    BY <1>7 DEF Compact, AfterCompact, Stages, HoldStages
  <2>2. QED
    BY <1>3, <1>7, <2>1 DEF Compact, history
<1>8. ASSUME NEW p \in Procs, HasLookup(p) PROVE [Promise!Next]_(Promise!vars)
  BY <1>3, <1>8 DEF HasLookup, files, history, Stages, HoldStages
<1>9. ASSUME NEW p \in Procs, HasRead(p) PROVE [Promise!Next]_(Promise!vars)
  <2>1. \A n \in Nonces : clock < Expires[n] => locks'[n] = locks[n]
    BY <1>9, <1>t DEF HasRead, Expired, TypeOK
  <2>2. QED
    BY <1>3, <1>9, <2>1 DEF HasRead, history, Stages, HoldStages
<1>10. ASSUME NEW p \in Procs, CheckBinding(p) \/ ConsumeCheck(p)
       PROVE [Promise!Next]_(Promise!vars)
  BY <1>3, <1>10 DEF CheckBinding, ConsumeCheck, files, history, Stages, HoldStages
<1>11. ASSUME NEW p \in Procs, Crash(p) PROVE [Promise!Next]_(Promise!vars)
  BY <1>3, <1>11 DEF Crash, files, history, Stages, HoldStages
<1>12. ASSUME NEW p \in Procs, NEW n \in Nonces, Begin(p, n)
       PROVE [Promise!Next]_(Promise!vars)
  <2>1. /\ \A q \in Procs, m \in Nonces : Holding(q, m)' => Holding(q, m)
        /\ \A q \in Procs, m \in Nonces : q # p /\ Holding(q, m) => Holding(q, m)'
    BY <1>12 DEF Begin, Holding, TypeOK
  <2>2. QED
    BY <1>2, <1>12, <2>1 DEF Begin, files, history
<1>13. ASSUME NEW p \in Procs, OpenLock(p) PROVE [Promise!Next]_(Promise!vars)
  <2> DEFINE n == arg[p]
  <2>1. n \in Nonces
    BY <1>d, <1>13 DEF OpenLock, Creates, InCall
  <2>2. CASE Goto(p, "idle") /\ UNCHANGED locks
    BY <1>3, <1>13, <2>2 DEF OpenLock, Creates, history, Stages, HoldStages
  <2>3. CASE /\ locks[n] = "absent"
             /\ locks' = [locks EXCEPT ![n] = "empty"]
             /\ inTime' = [inTime EXCEPT ![p] = clock < Expires[n]]
             /\ pc' = [pc EXCEPT ![p] = "writing"]
             /\ UNCHANGED <<arg, mem>>
    <3>1. UNCHANGED <<clock, liveUses, Live, Spent>>
      BY <1>13 DEF OpenLock, Creates, history, Live, Spent
    <3>2. /\ \A q \in Procs, m \in Nonces : q # p => (Holding(q, m)' <=> Holding(q, m))
          /\ \A m \in Nonces : ~Holding(p, m)
          /\ \A m \in Nonces : Holding(p, m)' <=> m = n /\ clock < Expires[n]
      BY <1>13, <2>1, <2>3 DEF OpenLock, Creates, Holding, TypeOK
    <3>3. /\ \A m \in Nonces \ {n} : locks'[m] = locks[m]
          /\ locks'[n] # "absent"
      BY <2>1, <2>3 DEF TypeOK
    <3>4. \A m \in Nonces \ {n} : m \in Held' <=> m \in Held
      BY <3>1, <3>2, <3>3 DEF Held
    <3>5. CASE clock < Expires[n]
      <4>1. n \in Live \ Spent
        BY <2>1, <2>3, <3>5 DEF Live, Spent, Ownership, SpentKeepsLock, TypeOK
      <4>2. \A q \in Procs : ~Holding(q, n)
        BY <2>1, <2>3, <3>5 DEF Ownership, HolderHasLock
      <4>3. n \notin Held
        BY <2>3, <4>2 DEF Held
      <4>4. n \in Held'
        BY <2>1, <3>1, <3>2, <3>5, <4>1 DEF Held
      <4>5. Held' = Held \union {n}
        <5>1. Held' \subseteq Nonces
          BY DEF Held
        <5>2. QED
          BY <1>s, <2>1, <3>4, <4>3, <4>4, <5>1
      <4>6. Promise!Reserve(n)
        <5>1. liveUses[n] = 0
          BY <2>1, <4>1 DEF Spent, TypeOK
        <5>2. QED
          BY <3>1, <4>1, <4>3, <4>5, <5>1 DEF Promise!Reserve
      <4>7. QED
        BY <2>1, <4>6 DEF Promise!Next
    <3>6. CASE ~(clock < Expires[n])
      <4>1. n \notin Live /\ n \notin Live'
        BY <3>1, <3>6 DEF Live
      <4>2. n \in Held' <=> n \in Held
        BY <3>1, <3>2, <3>6, <4>1 DEF Held
      <4>3. Held' = Held
        <5>1. Held' \subseteq Nonces
          BY DEF Held
        <5>2. QED
          BY <1>s, <3>4, <4>2, <5>1
      <4>4. QED
        BY <3>1, <4>3
    <3>7. QED
      BY <3>5, <3>6
  <2>4. QED
    BY <1>13, <2>2, <2>3 DEF OpenLock, Creates
<1>14. ASSUME NEW p \in Procs, WriteLock(p) PROVE [Promise!Next]_(Promise!vars)
  <2>1. \A n \in Nonces : locks'[n] = "absent" <=> locks[n] = "absent"
    BY <1>14 DEF WriteLock, TypeOK
  <2>2. QED
    BY <1>3, <1>14, <2>1 DEF WriteLock, history, Stages, HoldStages
<1>15. ASSUME NEW p \in Procs, Append(p) PROVE [Promise!Next]_(Promise!vars)
  <2> DEFINE n == arg[p]
  <2>1. n \in Nonces /\ pc[p] \in WrittenStages
    BY <1>d, <1>15 DEF Append, Entering, InCall, WrittenStages
  <2>2. CASE ~inTime[p]
    BY <1>3, <1>15, <2>2 DEF Append, Stages, HoldStages
  <2>3. CASE inTime[p]
    <3>1. /\ Holding(p, n)
          /\ liveUses' = [liveUses EXCEPT ![n] = @ + 1]
          /\ UNCHANGED <<clock, locks>>
      BY <1>15, <2>1, <2>3 DEF Append, Holding, WrittenStages
    <3>2. liveUses[n] = 0 /\ liveUses'[n] = 1 /\ \A m \in Nonces \ {n} : liveUses'[m] = liveUses[m]
      BY <2>1, <3>1 DEF Ownership, HeldIsUnspent, TypeOK
    <3>3. Live' = Live /\ Spent' = Spent \union {n} /\ n \notin Spent
      BY <2>1, <3>1, <3>2 DEF Live, Spent
    <3>4. n \in Held /\ n \notin Held'
      BY <2>1, <3>1, <3>3 DEF Held
    <3>5. \A m \in Nonces \ {n}, q \in Procs : Holding(q, m)' <=> Holding(q, m)
      BY <1>15, <2>1 DEF Append, Goto, Holding, TypeOK
    <3>6. \A m \in Nonces \ {n} : m \in Held' <=> m \in Held
      BY <3>1, <3>3, <3>5 DEF Held
    <3>7. Held' = Held \ {n}
      <4>1. Held' \subseteq Nonces
        BY DEF Held
      <4>2. QED
        BY <1>s, <3>4, <3>6, <4>1
    <3>8. QED
      BY <2>1, <3>1, <3>3, <3>4, <3>7 DEF Promise!Next, Promise!Spend
  <2>4. QED
    BY <2>2, <2>3
<1>16. ASSUME NEW p \in Procs, AppendFails(p) PROVE [Promise!Next]_(Promise!vars)
  <2> DEFINE n == arg[p]
  <2>1. n \in Nonces /\ pc[p] \in WrittenStages
    BY <1>d, <1>16 DEF AppendFails, Entering, InCall, WrittenStages
  <2>2. CASE UNCHANGED locks \/ clock >= Expires[n]
    <3>1. \A m \in Nonces : clock < Expires[m] => locks'[m] = locks[m]
      BY <1>16, <1>t, <2>1, <2>2 DEF AppendFails, TypeOK
    <3>2. QED
      BY <1>3, <1>16, <3>1 DEF AppendFails, history, Stages, HoldStages
  <2>3. CASE locks' = [locks EXCEPT ![n] = "absent"] /\ clock < Expires[n]
    <3>1. Holding(p, n) /\ UNCHANGED <<clock, liveUses, Live, Spent>>
      BY <1>16, <1>t, <2>1, <2>3 DEF AppendFails, Holding, WrittenStages, HoldStages,
         LateStaysLate, history, Live, Spent
    <3>2. n \in Held
      BY <2>1, <3>1 DEF Held, Spent, Ownership, HeldIsUnspent
    <3>3. \A m \in Nonces, q \in Procs : Holding(q, m)' <=> Holding(q, m) /\ q # p
      BY <1>16 DEF AppendFails, Goto, Holding, TypeOK
    <3>4. n \notin Held'
      BY <2>1, <2>3, <3>1, <3>3 DEF Held, Ownership, OneHolder, TypeOK
    <3>5. \A m \in Nonces \ {n} : m \in Held' <=> m \in Held
      <4>1. \A m \in Nonces \ {n} : locks'[m] = locks[m]
        BY <2>1, <2>3 DEF TypeOK
      <4>2. \A m \in Nonces \ {n} : ~Holding(p, m)
        BY DEF Holding
      <4>3. QED
        BY <3>1, <3>3, <4>1, <4>2 DEF Held
    <3>6. Held' = Held \ {n}
      <4>1. Held' \subseteq Nonces
        BY DEF Held
      <4>2. QED
        BY <1>s, <3>2, <3>4, <3>5, <4>1
    <3>7. QED
      BY <1>r, <3>1, <3>2, <3>6
  <2>4. QED
    BY <1>16, <1>t, <2>1, <2>2, <2>3 DEF AppendFails
<1>17. CASE UNCHANGED vars
  BY <1>17 DEF vars, files, history, Live, Held, Spent, Holding
<1>18. QED
  BY <1>1, <1>4, <1>5, <1>6, <1>7, <1>8, <1>9, <1>10, <1>11, <1>12, <1>13,
     <1>14, <1>15, <1>16, <1>17 DEF Next

LEMMA RefinementInit == Init => Promise!Init
<1> SUFFICES ASSUME Init PROVE Promise!Init
  OBVIOUS
<1>1. Spent = {}
  BY DEF Init, Spent
<1>2. Held = {}
  BY DEF Init, Held, Holding
<1>3. QED
  BY <1>1, <1>2 DEF Init, Promise!Init, Live

(* The lock files, the ledger and the maps of any number of processes        *)
(* implement the single-use promise.                                         *)
THEOREM GuardKeepsPromise == Spec => KeepsPromise
BY RefinementInit, RefinementStep, Invariance, PTL DEF Spec, KeepsPromise, Promise!Spec

===============================================================================
