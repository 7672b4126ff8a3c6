--------------------------- MODULE BridgeCallProofs ---------------------------
(***************************************************************************)
(* The invariants of BridgeCall for any number of calls, capabilities,     *)
(* tokens and crashes.  The inductive invariant says how far a call has    *)
(* come: a call whose outcome is FAILED has its ADMITTED receipt on disk   *)
(* and passed the gate vector, and a consent token held by a call is spent *)
(* and held by no other, or was reopened by a start at its expiry instant. *)
(***************************************************************************)
EXTENDS BridgeCall, TLAPS

Begun(c) == outcome[c] = "FAILED"

(* The stages a call reaches only after, or only before, it called the adapter. *)
ProgressInv(c) ==
  /\ pc[c] \in {"execute", "post"} => Begun(c)
  /\ Begun(c) => pc[c] \in {"execute", "post", "evidence", "answered", "lost"}
  /\ pc[c] = "post" => c \in effects
  /\ c \in effects => Begun(c)

(* What each receipt on disk implies. *)
LogInv(c) ==
  /\ Begun(c) => <<c, "ADMITTED">> \in log
  /\ <<c, "PASS">> \in log => c \in effects
  /\ <<c, "BLOCKED">> \in log => ~Begun(c) /\ pc[c] \in {"answered", "lost"}
  /\ <<c, "FAILED">> \in log => Begun(c)

AnswerInv(c) ==
  /\ answer[c] # NoAnswer => pc[c] = "answered"
  /\ answer[c] = "ok" => c \in effects /\ <<c, "PASS">> \in log
  /\ answer[c] = "refused" => ~Begun(c)

(* A token is held by the one call that verified it, unless it was reopened. *)
ConsentInv(c) ==
  /\ pc[c] \in {"idle", "consent"} => consent[c] = NoToken
  /\ consent[c] # NoToken => consent[c] \in spent \union reopened /\ Bound[consent[c]] = cap[c]
  /\ \A d \in Calls : d # c /\ consent[d] = consent[c] => consent[c] \in reopened \union {NoToken}

(* Past the gate vector a call that is not a read holds a token. *)
GateInv(c) ==
  pc[c] \in {"discover", "pre", "execute", "post"} \/ Begun(c) =>
    (Tier[cap[c]] # "READ" => consent[c] # NoToken)

CallInv(c) ==
  ProgressInv(c) /\ LogInv(c) /\ AnswerInv(c) /\ ConsentInv(c) /\ GateInv(c)
IInv == TypeOK /\ \A c \in Calls : CallInv(c)

-------------------------------------------------------------------------------
(* Every initial state satisfies the inductive invariant. *)
LEMMA InitInv == Init => IInv
  BY CatalogueAssumption, TokenAssumption
     DEF Init, IInv, TypeOK, CallInv, ProgressInv, LogInv, AnswerInv, ConsentInv,
         GateInv, Begun, Stages, Outcomes, Receipts, Answers, NoAnswer

(* Every step keeps every variable in its set. *)
LEMMA TypeStep == TypeOK /\ [Next]_vars => TypeOK'
<1> SUFFICES ASSUME TypeOK, [Next]_vars PROVE TypeOK'
  OBVIOUS
<1> USE CatalogueAssumption, TokenAssumption DEF TypeOK, guard
<1>1. CASE Crash
  BY <1>1 DEF Crash, Stages
<1>2. ASSUME NEW c \in Calls, NEW t \in Tokens \union {NoToken}, ConsentAnswer(c, t)
      PROVE TypeOK'
  BY <1>2 DEF ConsentAnswer, Verifies, Consumes, Goto, Stages
<1>3. ASSUME NEW c \in Calls, Submit(c) \/ FormulaAnswer(c) \/ VeritasAnswer(c)
                              \/ DiscoverAnswer(c) \/ ExecuteAnswer(c)
      PROVE TypeOK'
  BY <1>3 DEF Submit, FormulaAnswer, VeritasAnswer, DiscoverAnswer, ExecuteAnswer, Goto,
              Stages
<1>4. ASSUME NEW c \in Calls, Pre(c) PROVE TypeOK'
  BY <1>4 DEF Pre, SinkKeeps, SinkRejects, Goto, Stages, Outcomes, Receipts
<1>5. ASSUME NEW c \in Calls, Effect(c) PROVE TypeOK'
  BY <1>5 DEF Effect, locals
<1>6. ASSUME NEW c \in Calls, Post(c) PROVE TypeOK'
  BY <1>6 DEF Post, SinkKeeps, SinkRejects, Goto, Stages, Receipts, Answers
<1>7. ASSUME NEW c \in Calls, Evidence(c) PROVE TypeOK'
  BY <1>7 DEF Evidence, EvidenceOutcome, MayHaveExecuted, SinkRejects, Goto, Stages,
              Outcomes, Receipts, Answers
<1>8. ASSUME NEW t \in Tokens, Age(t) PROVE TypeOK'
  BY <1>8 DEF Age, locals
<1>9. CASE UNCHANGED vars
  BY <1>9 DEF vars, locals, guard
<1> QED
  BY <1>1, <1>2, <1>3, <1>4, <1>5, <1>6, <1>7, <1>8, <1>9 DEF Next

(* Actions that move a call from one await to the next and change nothing else. *)
LEMMA MoveStep ==
  ASSUME IInv, NEW c \in Calls,
         Submit(c) \/ FormulaAnswer(c) \/ VeritasAnswer(c) \/ DiscoverAnswer(c)
         \/ ExecuteAnswer(c)
  PROVE  \A d \in Calls : CallInv(d)'
<1> SUFFICES ASSUME NEW d \in Calls PROVE CallInv(d)'
  OBVIOUS
<1> USE DEF IInv, TypeOK, CallInv, Goto
<1>1. UNCHANGED <<cap, consent, outcome, answer, spent, reopened, log, effects>>
  BY DEF Submit, FormulaAnswer, VeritasAnswer, DiscoverAnswer, ExecuteAnswer, guard
<1>2. /\ pc[c] \notin {"answered", "lost", "evidence", "post"}
      /\ d # c => pc'[d] = pc[d]
  BY DEF Submit, FormulaAnswer, VeritasAnswer, DiscoverAnswer, ExecuteAnswer
<1>3. CASE pc'[d] = pc[d]
  BY <1>1, <1>3 DEF ProgressInv, LogInv, AnswerInv, ConsentInv, GateInv, Begun
<1>4. CASE d = c
  <2>1. ProgressInv(c)'
    BY <1>1 DEF ProgressInv, Begun, Submit, FormulaAnswer, VeritasAnswer, DiscoverAnswer,
                ExecuteAnswer
  <2>2. LogInv(c)' /\ AnswerInv(c)'
    BY <1>1, <1>2 DEF LogInv, AnswerInv, Begun
  <2>3. ConsentInv(c)'
    BY <1>1 DEF ConsentInv, Submit, FormulaAnswer, VeritasAnswer, DiscoverAnswer,
                ExecuteAnswer
  <2>4. pc'[c] = "discover" => Eligible(c)
    BY DEF Submit, FormulaAnswer, VeritasAnswer, DiscoverAnswer, ExecuteAnswer
  <2>5. Eligible(c) => (Tier[cap[c]] # "READ" => consent[c] # NoToken)
    <3>1. "bit3" \in DOMAIN GateVector(c)
      BY DEF GateVector
    <3>2. GateVector(c)["bit3"] = (consent[c] # NoToken \/ Tier[cap[c]] = "READ")
      BY DEF GateVector
    <3> QED
      BY <3>1, <3>2 DEF Eligible
  <2>6. GateInv(c)'
    BY <1>1, <2>4, <2>5 DEF GateInv, Begun, Submit, FormulaAnswer, VeritasAnswer,
                            DiscoverAnswer, ExecuteAnswer
  <2> QED
    BY <1>4, <2>1, <2>2, <2>3, <2>6
<1> QED
  BY <1>2, <1>3, <1>4

(* The consent answer is the only step that spends a token: it was not spent *)
(* before, so no other call holds it.                                        *)
LEMMA ConsentStep ==
  ASSUME IInv, NEW c \in Calls, NEW t \in Tokens \union {NoToken}, ConsentAnswer(c, t)
  PROVE  \A d \in Calls : CallInv(d)'
<1> SUFFICES ASSUME NEW d \in Calls PROVE CallInv(d)'
  OBVIOUS
<1> USE TokenAssumption DEF IInv, TypeOK, CallInv, Goto
<1> DEFINE verified == IF Verifies(t, cap[c]) THEN t ELSE NoToken
<1>1. /\ UNCHANGED <<cap, outcome, answer, reopened, log, effects>>
      /\ pc[c] = "consent" /\ ~Begun(c)
      /\ pc' = [pc EXCEPT ![c] =
                  IF KernelAdmits(cap[c], verified) THEN "formula" ELSE "evidence"]
      /\ consent' = [consent EXCEPT ![c] = verified]
      /\ spent \subseteq spent' /\ (verified # NoToken => verified \in spent')
  BY DEF ConsentAnswer, Consumes, ProgressInv, Begun
<1>2. verified # NoToken =>
        /\ verified \in Tokens \ spent /\ Bound[verified] = cap[c]
        /\ \A e \in Calls : consent[e] = verified => verified \in reopened
  BY DEF Verifies, ConsentInv
<1> HIDE DEF verified
<1>3. ProgressInv(d)' /\ LogInv(d)' /\ AnswerInv(d)'
  BY <1>1 DEF ProgressInv, LogInv, AnswerInv, Begun
<1>4. GateInv(d)'
  BY <1>1 DEF GateInv, Begun
<1>5. ConsentInv(d)'
  BY <1>1, <1>2 DEF ConsentInv
<1> QED
  BY <1>3, <1>4, <1>5

(* Steps that write a receipt, or carry the operation out. *)
LEMMA ReceiptStep ==
  ASSUME IInv, NEW c \in Calls, Pre(c) \/ Effect(c) \/ Post(c) \/ Evidence(c)
  PROVE  \A d \in Calls : CallInv(d)'
<1> SUFFICES ASSUME NEW d \in Calls PROVE CallInv(d)'
  OBVIOUS
<1> USE DEF IInv, TypeOK, CallInv, Goto
<1>1. UNCHANGED <<cap, consent, spent, reopened>> /\ (d # c => pc'[d] = pc[d] /\ Begun(d)' = Begun(d))
  BY DEF Pre, Effect, Post, Evidence, Begun, locals, guard
<1>2. ConsentInv(d)'
  BY <1>1 DEF ConsentInv, Pre, Effect, Post, Evidence, locals
<1>3. CASE Pre(c)
  <2>1. UNCHANGED <<answer, effects>> /\ log \subseteq log'
        /\ log' \subseteq log \union {<<c, "ADMITTED">>}
    BY <1>3 DEF Pre, SinkKeeps, SinkRejects
  <2>2. ProgressInv(d)' /\ AnswerInv(d)' /\ GateInv(d)'
    BY <1>1, <1>3, <2>1 DEF Pre, ProgressInv, AnswerInv, GateInv, Begun, NoAnswer
  <2>3. LogInv(d)'
    BY <1>1, <1>3, <2>1 DEF Pre, SinkKeeps, LogInv, ProgressInv, Begun
  <2> QED
    BY <1>2, <2>2, <2>3
<1>4. CASE Effect(c)
  BY <1>2, <1>4 DEF Effect, locals, ProgressInv, LogInv, AnswerInv, GateInv, Begun
<1>5. CASE Post(c)
  <2>1. UNCHANGED <<outcome, effects>> /\ log \subseteq log'
        /\ log' \subseteq log \union {<<c, "PASS">>} /\ c \in effects
    BY <1>5 DEF Post, SinkKeeps, SinkRejects, ProgressInv
  <2>2. ProgressInv(d)' /\ GateInv(d)'
    BY <1>1, <1>5, <2>1 DEF Post, ProgressInv, GateInv, Begun
  <2>3. LogInv(d)'
    BY <1>1, <1>5, <2>1 DEF Post, LogInv, Begun
  <2>4. AnswerInv(d)'
    BY <1>1, <1>5, <2>1 DEF Post, SinkKeeps, AnswerInv, Begun, NoAnswer
  <2> QED
    BY <1>2, <2>2, <2>3, <2>4
<1>6. CASE Evidence(c)
  <2>1. UNCHANGED <<outcome, effects>> /\ log \subseteq log'
        /\ log' \subseteq log \union {<<c, outcome[c]>>} /\ pc[c] = "evidence"
    BY <1>6 DEF Evidence, EvidenceOutcome, SinkRejects
  <2>2. ProgressInv(d)' /\ GateInv(d)'
    BY <1>1, <1>6, <2>1 DEF Evidence, ProgressInv, GateInv, Begun
  <2>3. LogInv(d)'
    BY <1>1, <1>6, <2>1 DEF Evidence, LogInv, Begun, Outcomes
  <2>4. AnswerInv(d)'
    BY <1>1, <1>6, <2>1 DEF Evidence, MayHaveExecuted, AnswerInv, Begun, NoAnswer
  <2> QED
    BY <1>2, <2>2, <2>3, <2>4
<1> QED
  BY <1>3, <1>4, <1>5, <1>6

(* Every step keeps the inductive invariant. *)
LEMMA NextInv == IInv /\ [Next]_vars => IInv'
<1> SUFFICES ASSUME IInv, [Next]_vars PROVE \A c \in Calls : CallInv(c)'
  BY TypeStep DEF IInv
<1>1. CASE Crash
  <2> SUFFICES ASSUME NEW c \in Calls PROVE CallInv(c)'
    OBVIOUS
  <2>1. pc'[c] = (IF pc[c] \in {"idle", "answered"} THEN pc[c] ELSE "lost")
        /\ UNCHANGED <<cap, consent, outcome, answer, log, effects>>
        /\ spent \union reopened = spent' \union reopened' /\ reopened \subseteq reopened'
    BY <1>1 DEF Crash, IInv, TypeOK
  <2> QED
    BY <2>1 DEF IInv, CallInv, ProgressInv, LogInv, AnswerInv, ConsentInv, GateInv, Begun
<1>2. ASSUME NEW t \in Tokens, Age(t) PROVE \A c \in Calls : CallInv(c)'
  BY <1>2 DEF Age, locals, IInv, CallInv, ProgressInv, LogInv, AnswerInv, ConsentInv,
              GateInv, Begun
<1>3. CASE UNCHANGED vars
  BY <1>3 DEF vars, locals, guard, IInv, CallInv, ProgressInv, LogInv, AnswerInv, ConsentInv,
              GateInv, Begun
<1> QED
  BY <1>1, <1>2, <1>3, MoveStep, ConsentStep, ReceiptStep DEF Next

(* The inductive invariant holds in every reachable state. *)
THEOREM Invariance == Spec => []IInv
<1>1. Init => IInv
  BY InitInv
<1>2. IInv /\ [Next]_vars => IInv'
  BY NextInv
<1> QED
  BY <1>1, <1>2, PTL DEF Spec

-------------------------------------------------------------------------------
(* Type correctness of Bridge.call and its admission gate. *)
THEOREM TypeCorrect == Spec => []TypeOK
<1>1. IInv => TypeOK
  BY DEF IInv
<1> QED
  BY <1>1, Invariance, PTL

(* No adapter carries out an operation before its ADMITTED receipt is on disk, *)
(* for any number of concurrent calls and crashes.                             *)
THEOREM ReceiptBeforeEffect == Spec => []EffectIsReceipted
<1>1. IInv => EffectIsReceipted
  BY DEF IInv, TypeOK, CallInv, ProgressInv, LogInv, EffectIsReceipted
<1> QED
  BY <1>1, Invariance, PTL

(* Every operation other than a read rests on a consent token of its own, save *)
(* where a process started in the millisecond that token expired.             *)
THEOREM ConsentPerEffect == Spec => []EffectOwnsConsent
<1>1. IInv => EffectOwnsConsent
  BY DEF IInv, TypeOK, CallInv, ProgressInv, ConsentInv, GateInv, EffectOwnsConsent
<1> QED
  BY <1>1, Invariance, PTL

(* What a caller is told of an operation agrees with what the device did. *)
THEOREM HonestAnswer == Spec => []AnswerIsHonest
<1>1. IInv => AnswerIsHonest
  BY DEF IInv, CallInv, ProgressInv, AnswerInv, AnswerIsHonest
<1> QED
  BY <1>1, Invariance, PTL

(* What the receipts say of an operation agrees with what the device did. *)
THEOREM HonestReceipts == Spec => []ReceiptsAreHonest
<1>1. IInv => ReceiptsAreHonest
  BY DEF IInv, CallInv, ProgressInv, LogInv, ReceiptsAreHonest
<1> QED
  BY <1>1, Invariance, PTL

===============================================================================
