-------------------------- MODULE VoicePairingProofs --------------------------
(***************************************************************************)
(* Theorems about VoicePairing for any number of applications, pairings    *)
(* and claims.  The owner's consent travels from the dialog over the       *)
(* signing, the approval file and the claim to the session; the inductive  *)
(* invariant follows it, and says that the live part of the table has one  *)
(* entry per application.                                                  *)
(***************************************************************************)
EXTENDS VoicePairing, TLAPS

(* The part of the types the proofs need. *)
Types ==
  /\ now \in Nat /\ began \in [Ids -> Nat] /\ app \in [Ids -> Apps \union {None}]
  /\ table \subseteq Ids
  /\ okFile \in [Ids -> FileStates]
  /\ claim \in [Claims -> [id : Ids \union {None}, at : Stages]]
  /\ sessions \subseteq Claims \X Ids
  /\ dialog \in Ids \union {None}
  /\ signing \in [Ids -> {"no", "checking", "creating", "filling"}]

(* Whatever carries a consent belongs to a request the owner approved. *)
ConsentInv ==
  /\ \A i \in Ids : signing[i] # "no" \/ okFile[i] # "absent" => i \in approved
  /\ \A c \in Claims : claim[c].at # "idle" => claim[c].id \in Ids
  /\ \A c \in Claims : claim[c].at \in {"found", "cleanup"} => claim[c].id \in approved
  /\ \A s \in sessions : s[2] \in approved

TableInv ==
  /\ \A i \in table : app[i] # None
  /\ OneLiveRequest

IInv == Types /\ ConsentInv /\ TableInv

-------------------------------------------------------------------------------
(* Every initial state satisfies the invariant. *)
LEMMA InitInv == Init => IInv
  BY DEF Init, IInv, Types, ConsentInv, TableInv, OneLiveRequest, FileStates, Stages

(* Every step keeps the types. *)
LEMMA TypesStep == IInv /\ [Next]_vars => Types'
<1> SUFFICES ASSUME IInv, [Next]_vars PROVE Types'
  OBVIOUS
<1> USE PairingAssumption DEF IInv, Types, FileStates, Stages, approver, gateway
<1>1. CASE Tick
  BY <1>1 DEF Tick
<1>2. CASE Restart
  BY <1>2 DEF Restart, Cleared
<1>3. CASE ApproverRestart
  BY <1>3 DEF ApproverRestart
<1>4. ASSUME NEW a \in Apps, StartRefused(a) PROVE Types'
  BY <1>4 DEF StartRefused, Swept
<1>5. ASSUME NEW a \in Apps, NEW i \in Ids, Start(i, a) PROVE Types'
  BY <1>5 DEF Start, Swept
<1>6. ASSUME NEW i \in Ids, WriteRequest(i) \/ Scan(i) \/ Inspect(i) PROVE Types'
  BY <1>6 DEF WriteRequest, Scan, Inspect
<1>7. ASSUME NEW i \in Ids, SignCheck(i) \/ SignWrite(i) PROVE Types'
  BY <1>7 DEF SignCheck, SignWrite
<1>8. ASSUME NEW yes \in BOOLEAN, Decide(yes) PROVE Types'
  <2>1. CASE yes
    BY <1>8, <2>1 DEF Decide
  <2>2. CASE ~yes
    BY <1>8, <2>2 DEF Decide
  <2> QED
    BY <2>1, <2>2
<1>9. ASSUME NEW c \in Claims, ClaimRead(c) \/ ClaimWaits(c) \/ ClaimApproved(c) PROVE Types'
  <2>1. \A at \in Stages : [claim EXCEPT ![c].at = at] \in
                                  [Claims -> [id : Ids \union {None}, at : Stages]]
    OBVIOUS
  <2>2. CASE ClaimRead(c)
    <3>1. \E at \in Stages : claim' = [claim EXCEPT ![c].at = at]
      BY <2>2 DEF ClaimRead, ReadsApproval
    <3> QED
      BY <2>1, <2>2, <3>1 DEF ClaimRead
  <2>3. CASE ClaimWaits(c)
    BY <2>3 DEF ClaimWaits, Cleared
  <2>4. CASE ClaimApproved(c)
    BY <2>1, <2>4 DEF ClaimApproved
  <2> QED
    BY <1>9, <2>2, <2>3, <2>4
<1>10. ASSUME NEW c \in Claims, ClaimEnd(c) PROVE Types'
  BY <1>10 DEF ClaimEnd, ConsentInv
<1>11. ASSUME NEW c \in Claims, NEW i \in Ids, ClaimStart(c, i) PROVE Types'
  BY <1>11 DEF ClaimStart
<1>12. CASE UNCHANGED vars
  BY <1>12 DEF vars
<1> QED
  BY <1>1, <1>2, <1>3, <1>4, <1>5, <1>6, <1>7, <1>8, <1>9, <1>10, <1>11, <1>12 DEF Next

(* Every step hands the consent on only from a request the owner approved. *)
LEMMA ConsentStep == IInv /\ [Next]_vars => ConsentInv'
<1> SUFFICES ASSUME IInv, [Next]_vars PROVE ConsentInv'
  OBVIOUS
<1> USE PairingAssumption DEF IInv, Types, ConsentInv, FileStates, Stages, approver, gateway
<1>1. CASE Tick
  BY <1>1 DEF Tick
<1>2. CASE Restart
  BY <1>2 DEF Restart, Cleared
<1>3. CASE ApproverRestart
  BY <1>3 DEF ApproverRestart
<1>4. ASSUME NEW a \in Apps, StartRefused(a) PROVE ConsentInv'
  BY <1>4 DEF StartRefused
<1>5. ASSUME NEW a \in Apps, NEW i \in Ids, Start(i, a) PROVE ConsentInv'
  BY <1>5 DEF Start
<1>6. ASSUME NEW i \in Ids, WriteRequest(i) \/ Scan(i) \/ Inspect(i) PROVE ConsentInv'
  BY <1>6 DEF WriteRequest, Scan, Inspect
<1>7. ASSUME NEW i \in Ids, SignCheck(i) PROVE ConsentInv'
  BY <1>7 DEF SignCheck
<1>8. ASSUME NEW i \in Ids, SignWrite(i) PROVE ConsentInv'
  BY <1>8 DEF SignWrite
<1>9. ASSUME NEW yes \in BOOLEAN, Decide(yes) PROVE ConsentInv'
  BY <1>9 DEF Decide
<1>10. ASSUME NEW c \in Claims, ClaimRead(c) PROVE ConsentInv'
  <2>1. PICK seenAs \in ReadsApproval(claim[c].id) : claim' = [claim EXCEPT ![c].at = seenAs]
    BY <1>10 DEF ClaimRead
  <2>2. claim[c].id \in Ids /\ (seenAs = "found" => claim[c].id \in approved)
    BY <1>10, <2>1 DEF ClaimRead, ReadsApproval
  <2> QED
    BY <1>10, <2>1, <2>2 DEF ClaimRead, ReadsApproval
<1>11. ASSUME NEW c \in Claims, ClaimWaits(c) \/ ClaimApproved(c) PROVE ConsentInv'
  BY <1>11 DEF ClaimWaits, ClaimApproved, Cleared
<1>12. ASSUME NEW c \in Claims, ClaimEnd(c) PROVE ConsentInv'
  <2>1. claim[c].id \in approved /\ claim[c].id \in Ids
    BY <1>12 DEF ClaimEnd
  <2>2. \A i \in Ids : okFile'[i] # "absent" => okFile[i] # "absent"
    BY <1>12 DEF ClaimEnd
  <2> QED
    BY <1>12, <2>1, <2>2 DEF ClaimEnd
<1>13. ASSUME NEW c \in Claims, NEW i \in Ids, ClaimStart(c, i) PROVE ConsentInv'
  BY <1>13 DEF ClaimStart
<1>14. CASE UNCHANGED vars
  BY <1>14 DEF vars
<1> QED
  BY <1>1, <1>2, <1>3, <1>4, <1>5, <1>6, <1>7, <1>8, <1>9, <1>10, <1>11, <1>12, <1>13, <1>14
     DEF Next

(* Only a start adds to the table, and the clock only shortens its live part. *)
LEMMA TableStep == IInv /\ [Next]_vars => TableInv'
<1> SUFFICES ASSUME IInv, [Next]_vars PROVE TableInv'
  OBVIOUS
<1> USE PairingAssumption DEF IInv, Types, TableInv, OneLiveRequest, Expired, Expires
<1>1. ASSUME table' \subseteq table, UNCHANGED <<app, began>>, now' \in Nat, now' >= now
      PROVE  TableInv'
  BY <1>1
<1>2. CASE Tick
  BY <1>1, <1>2 DEF Tick, gateway
<1>3. CASE Restart
  BY <1>1, <1>3 DEF Restart
<1>4. ASSUME NEW a \in Apps, StartRefused(a) PROVE TableInv'
  BY <1>1, <1>4 DEF StartRefused, Swept
<1>5. ASSUME NEW a \in Apps, NEW i \in Ids, Start(i, a) PROVE TableInv'
  BY <1>5 DEF Start, Swept, Pending
<1>6. CASE UNCHANGED <<table, app, began, now>>
  BY <1>1, <1>6
<1>7. ASSUME NEW i \in Ids, WriteRequest(i) \/ Scan(i) \/ Inspect(i) \/ SignCheck(i)
                            \/ SignWrite(i)
      PROVE UNCHANGED <<table, app, began, now>>
  BY <1>7 DEF WriteRequest, Scan, Inspect, SignCheck, SignWrite, gateway
<1>8. ASSUME NEW c \in Claims, NEW i \in Ids, ClaimStart(c, i)
      PROVE UNCHANGED <<table, app, began, now>>
  BY <1>8 DEF ClaimStart, gateway
<1>9. ASSUME NEW yes \in BOOLEAN, Decide(yes) PROVE UNCHANGED <<table, app, began, now>>
  BY <1>9 DEF Decide, gateway
<1>10. ASSUME NEW c \in Claims,
              ClaimRead(c) \/ ClaimWaits(c) \/ ClaimApproved(c) \/ ClaimEnd(c)
       PROVE UNCHANGED <<table, app, began, now>>
  BY <1>10 DEF ClaimRead, ClaimWaits, ClaimApproved, ClaimEnd, gateway
<1>11. CASE ApproverRestart
  BY <1>6, <1>11 DEF ApproverRestart, gateway
<1>12. CASE UNCHANGED vars
  BY <1>6, <1>12 DEF vars, gateway
<1> QED
  BY <1>2, <1>3, <1>4, <1>5, <1>6, <1>7, <1>8, <1>9, <1>10, <1>11, <1>12 DEF Next

(* The invariant holds in every reachable state. *)
THEOREM Invariance == Spec => []IInv
<1>1. Init => IInv
  BY InitInv
<1>2. IInv /\ [Next]_vars => IInv'
  BY TypesStep, ConsentStep, TableStep DEF IInv
<1> QED
  BY <1>1, <1>2, PTL DEF Spec

(* A voice session exists only for a request the owner approved in the dialog,  *)
(* however the two processes, their files and their restarts interleave.        *)
THEOREM OnlyApproved == Spec => []SessionIsApproved
<1>1. IInv => SessionIsApproved
  BY DEF IInv, ConsentInv, SessionIsApproved
<1> QED
  BY <1>1, Invariance, PTL

(* An application never has two live requests in the table. *)
THEOREM OneLive == Spec => []OneLiveRequest
<1>1. IInv => OneLiveRequest
  BY DEF IInv, TableInv
<1> QED
  BY <1>1, Invariance, PTL

-------------------------------------------------------------------------------
(* What TypeOK says besides: the bounds, the approver's sets and the files of the    *)
(* requests, and that a claim has an id exactly as long as it is under way.          *)
OtherTypes ==
  /\ now \in 0 .. MaxNow /\ crashes \in 0 .. MaxCrashes
  /\ used \subseteq Ids /\ rates \in [Apps -> Nat \union {None}] /\ writing \subseteq Ids
  /\ reqFile \in [Ids -> FileStates]
  /\ seen \subseteq Ids /\ reading \subseteq Ids /\ prompted \subseteq Ids /\ approved \subseteq Ids
  /\ \A c \in Claims : claim[c].id = None <=> claim[c].at = "idle"

(* Every step keeps them. *)
LEMMA OtherStep == IInv /\ OtherTypes /\ [Next]_vars => OtherTypes'
<1> SUFFICES ASSUME IInv, OtherTypes, [Next]_vars PROVE OtherTypes'
  OBVIOUS
<1> USE PairingAssumption DEF IInv, Types, OtherTypes, FileStates, Stages, approver, gateway
<1>1. CASE Tick
  BY <1>1 DEF Tick
<1>2. CASE Restart
  BY <1>2 DEF Restart, Cleared
<1>3. CASE ApproverRestart
  BY <1>3 DEF ApproverRestart
<1>4. ASSUME NEW a \in Apps, StartRefused(a) PROVE OtherTypes'
  BY <1>4 DEF StartRefused
<1>5. ASSUME NEW a \in Apps, NEW i \in Ids, Start(i, a) PROVE OtherTypes'
  BY <1>5 DEF Start
<1>6. ASSUME NEW i \in Ids, WriteRequest(i) \/ Scan(i) \/ Inspect(i) PROVE OtherTypes'
  BY <1>6 DEF WriteRequest, Scan, Notice, Inspect
<1>7. ASSUME NEW i \in Ids, SignCheck(i) \/ SignWrite(i) PROVE OtherTypes'
  BY <1>7 DEF SignCheck, SignWrite
<1>8. ASSUME NEW yes \in BOOLEAN, Decide(yes) PROVE OtherTypes'
  BY <1>8 DEF Decide
<1>9. ASSUME NEW c \in Claims, ClaimRead(c) PROVE OtherTypes'
  <2>1. \E at \in {"found", "missing"} : claim' = [claim EXCEPT ![c].at = at]
    BY <1>9 DEF ClaimRead, ReadsApproval
  <2> QED
    BY <1>9, <2>1 DEF ClaimRead
<1>10. ASSUME NEW c \in Claims, ClaimWaits(c) \/ ClaimApproved(c) \/ ClaimEnd(c) PROVE OtherTypes'
  BY <1>10 DEF ClaimWaits, Cleared, ClaimApproved, ClaimEnd
<1>11. ASSUME NEW c \in Claims, NEW i \in Ids, ClaimStart(c, i) PROVE OtherTypes'
  BY <1>11 DEF ClaimStart
<1>12. CASE UNCHANGED vars
  BY <1>12 DEF vars
<1> QED
  BY <1>1, <1>2, <1>3, <1>4, <1>5, <1>6, <1>7, <1>8, <1>9, <1>10, <1>11, <1>12 DEF Next

(* Types are kept, and a claim carries an id exactly as long as it is under way. *)
THEOREM TypeCorrect == Spec => []TypeOK
<1>1. Init => OtherTypes
  BY PairingAssumption DEF Init, OtherTypes, FileStates
<1>2. IInv /\ OtherTypes => TypeOK
  BY DEF IInv, Types, OtherTypes, TypeOK
<1> QED
  BY <1>1, <1>2, OtherStep, Invariance, PTL DEF Spec

-------------------------------------------------------------------------------
(* A request the approver is still reading, or has asked about, is one it has seen; *)
(* and it does not read again what it has asked about.                              *)
AskInv ==
  /\ prompted \subseteq seen /\ reading \subseteq seen
  /\ prompted \intersect reading = {}

(* Every step keeps that, and opens a dialog only for a request not asked about. *)
LEMMA AskStep ==
  ASSUME IInv, OtherTypes, AskInv, [Next]_vars
  PROVE  AskInv' /\ (dialog' \notin {dialog, None} => dialog' \notin prompted)
<1> DEFINE Goal == AskInv' /\ (dialog' \notin {dialog, None} => dialog' \notin prompted)
<1> USE DEF AskInv
<1>1. CASE UNCHANGED approver
  BY <1>1 DEF approver
<1>2. CASE ApproverRestart
  BY <1>2 DEF ApproverRestart
<1>3. ASSUME NEW i \in Ids, Scan(i) PROVE Goal
  BY <1>3 DEF Scan, Notice
<1>4. ASSUME NEW i \in Ids, Inspect(i) PROVE Goal
  BY <1>4 DEF Inspect
<1>5. ASSUME NEW i \in Ids, SignCheck(i) \/ SignWrite(i) PROVE Goal
  BY <1>5 DEF SignCheck, SignWrite
<1>6. ASSUME NEW yes \in BOOLEAN, Decide(yes) PROVE Goal
  BY <1>6 DEF Decide
<1>7. ASSUME NEW a \in Apps, StartRefused(a) PROVE UNCHANGED approver
  BY <1>7 DEF StartRefused
<1>8. ASSUME NEW i \in Ids, WriteRequest(i) PROVE UNCHANGED approver
  BY <1>8 DEF WriteRequest
<1>9. ASSUME NEW i \in Ids, NEW c \in Claims, ClaimStart(c, i) PROVE UNCHANGED approver
  BY <1>9 DEF ClaimStart
<1>10. ASSUME NEW a \in Apps, NEW i \in Ids, Start(i, a) PROVE UNCHANGED approver
  BY <1>10 DEF Start
<1>11. ASSUME NEW c \in Claims,
              ClaimRead(c) \/ ClaimWaits(c) \/ ClaimApproved(c) \/ ClaimEnd(c)
       PROVE UNCHANGED approver
  BY <1>11 DEF ClaimRead, ClaimWaits, ClaimApproved, ClaimEnd
<1>12. CASE Tick \/ Restart \/ UNCHANGED vars
  BY <1>1, <1>12 DEF Tick, Restart, vars
<1> QED
  BY <1>1, <1>2, <1>3, <1>4, <1>5, <1>6, <1>7, <1>8, <1>9, <1>10, <1>11, <1>12 DEF Next

(* The owner is asked about a request once, however the approver's scans, reads and *)
(* dialogs overlap; only a restart of the approver makes it ask again.              *)
THEOREM AskedOnce == Spec => AsksOnce
<1>1. Init => AskInv /\ OtherTypes
  BY PairingAssumption DEF Init, AskInv, OtherTypes, FileStates
<1>2. IInv /\ OtherTypes /\ AskInv /\ [Next]_vars => AskInv'
  BY AskStep
<1>3. IInv /\ OtherTypes /\ AskInv /\ [Next]_vars =>
        [dialog' \notin {dialog, None} => dialog' \notin prompted]_vars
  BY AskStep
<1> QED
  BY <1>1, <1>2, <1>3, OtherStep, Invariance, PTL DEF Spec, AsksOnce

===============================================================================
