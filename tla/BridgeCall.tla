------------------------------ MODULE BridgeCall ------------------------------
(***************************************************************************)
(* Bridge.call (packages/protocol/index.mjs) with the admission gate that  *)
(* createC3AdmissionBinding builds (operator/c3-admission-binding.mjs).    *)
(* Calls run concurrently in one Node process: code between two awaits is  *)
(* one action, and at every await other calls run.  The consent provider,  *)
(* the two pre-gates, the device adapter and the receipt sink are host     *)
(* code: they answer anything, in any order, and a write that rejects may  *)
(* still have reached the disk.  The process may die at any await and be   *)
(* started again.  The replay guard is used through what ReplayGuard shows *)
(* of it: one verification of a nonce succeeds, except that a process that *)
(* starts in the very millisecond a token expires forgets the token was    *)
(* spent, and verification still accepts it in that millisecond.           *)
(***************************************************************************)
EXTENDS Naturals

CONSTANTS
  Calls,       \* one per Bridge.call
  Caps,        \* capabilities of the schema catalogue
  Tier,        \* authorityTier derived by resolveCapabilityMetadata
  Declared,    \* capabilities the platform's adapter declares in a usable state
  Granted,     \* capabilities in the device's grants
  Tokens,      \* consent tokens the carrier has signed for this device
  Bound,       \* the capability and arguments a token is bound to
  NoToken,
  MaxCrashes   \* bound of the model

ASSUME CatalogueAssumption ==
  /\ Tier \in [Caps -> {"READ", "OPERATE", "MUTATE"}]
  /\ Declared \subseteq Caps /\ Granted \subseteq Caps
ASSUME TokenAssumption ==
  /\ Bound \in [Tokens -> Caps]
  /\ NoToken \notin Tokens
  /\ MaxCrashes \in Nat

VARIABLES
  pc,          \* the await a call is suspended at
  cap,         \* the capability it asks for
  consent,     \* its verifiedConsent
  outcome,     \* the local of Bridge.call
  answer,      \* what its caller was told
  phase,       \* whether the clock is before, at or after a token's expiry
  spent,       \* nonces the replay guard has consumed
  reopened,    \* history: spent tokens a process forgot at their expiry instant
  log,         \* receipts that are on disk: call and outcome
  effects,     \* calls whose operation the adapter has carried out
  crashes

locals == <<pc, cap, consent, outcome, answer>>
guard == <<phase, spent, reopened>>
vars == <<locals, guard, log, effects, crashes>>

Stages == {"idle", "consent", "formula", "veritas", "discover", "pre", "execute",
           "post", "evidence", "answered", "lost"}
Outcomes == {"BLOCKED", "FAILED"}
Receipts == Calls \X {"ADMITTED", "PASS", "BLOCKED", "FAILED"}
NoAnswer == "none"
Answers == {NoAnswer, "ok", "refused", "mayHaveExecuted"}

TypeOK ==
  /\ pc \in [Calls -> Stages]
  /\ cap \in [Calls -> Caps]
  /\ consent \in [Calls -> Tokens \union {NoToken}]
  /\ outcome \in [Calls -> Outcomes]
  /\ answer \in [Calls -> Answers]
  /\ phase \in [Tokens -> {"live", "instant", "over"}]
  /\ spent \in SUBSET Tokens /\ reopened \in SUBSET Tokens
  /\ log \in SUBSET Receipts
  /\ effects \in SUBSET Calls
  /\ crashes \in Nat

Init ==
  /\ pc = [c \in Calls |-> "idle"]
  /\ cap \in [Calls -> Caps]
  /\ consent = [c \in Calls |-> NoToken]
  /\ outcome = [c \in Calls |-> "BLOCKED"]
  /\ answer = [c \in Calls |-> NoAnswer]
  /\ phase = [t \in Tokens |-> "live"]
  /\ spent = {} /\ reopened = {} /\ log = {} /\ effects = {} /\ crashes = 0

-------------------------------------------------------------------------------
Goto(c, stage) == pc' = [pc EXCEPT ![c] = stage]
Consequential(k) == Tier[k] = "MUTATE"

(* admitCommand, and the check before it: a consequential capability needs   *)
(* a verified consent.                                                       *)
KernelAdmits(k, t) == k \in Declared /\ (Consequential(k) => t # NoToken)

(* The gate bits once both pre-gates have passed and the registrations held: *)
(* what is left open is bit 3, consent or read policy, and bit 6, nonce or   *)
(* stateless read.                                                           *)
GateVector(c) ==
  LET verified == consent[c] # NoToken
      read == Tier[cap[c]] = "READ"
  IN  [bit1 |-> cap[c] \in Declared, bit2 |-> KernelAdmits(cap[c], consent[c]),
       bit3 |-> verified \/ read, bit6 |-> verified \/ read]
Eligible(c) == \A bit \in DOMAIN GateVector(c) : GateVector(c)[bit]

(* The call, up to the consent provider: device, capability, schema, grant,  *)
(* registration and capability state.  A refusal goes to the catch clause.   *)
Submit(c) ==
  /\ pc[c] = "idle"
  /\ Goto(c, IF cap[c] \in Granted \intersect Declared THEN "consent" ELSE "evidence")
  /\ UNCHANGED <<cap, consent, outcome, answer, guard, log, effects, crashes>>

(* verifyConsentEvidence accepts a token bound to this request, up to and in *)
(* its expiry instant, whose nonce the guard does not know, and consumes it. *)
VerifiesReplayed(t, k) ==   \* mutant: no replay guard
  t \in Tokens /\ phase[t] # "over" /\ Bound[t] = k
Verifies(t, k) == t \in Tokens \ spent /\ phase[t] # "over" /\ Bound[t] = k

Consumes(t) == {t} \ {NoToken}

(* The provider answers with some token or none; the kernel decides.         *)
ConsentAnswer(c, t) ==
  LET verified == IF Verifies(t, cap[c]) THEN t ELSE NoToken
  IN  /\ pc[c] = "consent"
      /\ consent' = [consent EXCEPT ![c] = verified]
      /\ spent' = spent \union Consumes(verified)
      /\ Goto(c, IF KernelAdmits(cap[c], verified) THEN "formula" ELSE "evidence")
      /\ UNCHANGED <<cap, outcome, answer, phase, reopened, log, effects, crashes>>

(* The Formula pre-gate passes, or it refuses or throws. *)
FormulaAnswer(c) ==
  /\ pc[c] = "formula"
  /\ \E stage \in {"veritas", "evidence"} : Goto(c, stage)
  /\ UNCHANGED <<cap, consent, outcome, answer, guard, log, effects, crashes>>

(* The Veritas pre-gate passes and the vector is evaluated, or it refuses.   *)
VeritasAnswer(c) ==
  /\ pc[c] = "veritas"
  /\ \/ Eligible(c) /\ Goto(c, "discover")
     \/ Goto(c, "evidence")
  /\ UNCHANGED <<cap, consent, outcome, answer, guard, log, effects, crashes>>

(* The adapter still lists the capability, or does not, or throws.           *)
DiscoverAnswer(c) ==
  /\ pc[c] = "discover"
  /\ \E stage \in {"pre", "evidence"} : Goto(c, stage)
  /\ UNCHANGED <<cap, consent, outcome, answer, guard, log, effects, crashes>>

(* The sink is given a receipt: it keeps it and resolves, or rejects, and    *)
(* then the receipt may be on disk all the same.                             *)
SinkKeeps(c, o) == log' = log \union {<<c, o>>}
SinkRejects(c, o) == log' \in {log, log \union {<<c, o>>}}

(* A pre-execution receipt that is not durable prevents execution.           *)
PreUnchecked(c) ==   \* mutant: a rejected receipt is not noticed
  /\ pc[c] = "pre"
  /\ SinkRejects(c, "ADMITTED")
  /\ Goto(c, "execute")
  /\ outcome' = [outcome EXCEPT ![c] = "FAILED"]
  /\ UNCHANGED <<cap, consent, answer, guard, effects, crashes>>
Pre(c) ==
  /\ pc[c] = "pre"
  /\ \/ /\ SinkKeeps(c, "ADMITTED")
        /\ Goto(c, "execute")
        /\ outcome' = [outcome EXCEPT ![c] = "FAILED"]
     \/ /\ SinkRejects(c, "ADMITTED")
        /\ Goto(c, "evidence")
        /\ UNCHANGED outcome
  /\ UNCHANGED <<cap, consent, answer, guard, effects, crashes>>

(* The device carries the operation out.  Once the adapter was called that    *)
(* may be before or after it answers: a relay that times out, or a process    *)
(* that dies, does not stop a phone that has received the command.            *)
Effect(c) ==
  /\ outcome[c] = "FAILED"
  /\ c \notin effects
  /\ effects' = effects \union {c}
  /\ UNCHANGED <<locals, guard, log, crashes>>

(* adapter.execute resolves, or throws with or without an effect.            *)
ExecuteAnswer(c) ==
  /\ pc[c] = "execute"
  /\ \/ c \in effects /\ Goto(c, "post")
     \/ Goto(c, "evidence")
  /\ UNCHANGED <<cap, consent, outcome, answer, guard, log, effects, crashes>>

(* The PASS receipt: the caller gets its result only if it was kept.         *)
Post(c) ==
  /\ pc[c] = "post"
  /\ \/ /\ SinkKeeps(c, "PASS")
        /\ Goto(c, "answered")
        /\ answer' = [answer EXCEPT ![c] = "ok"]
     \/ /\ SinkRejects(c, "PASS")
        /\ Goto(c, "evidence")
        /\ UNCHANGED answer
  /\ UNCHANGED <<cap, consent, outcome, guard, effects, crashes>>

(* The catch clause: the evidence receipt carries the outcome reached, and   *)
(* operationMayHaveExecuted says whether execution had begun.                *)
MayHaveExecutedWhenTold(c) == FALSE   \* mutant: the error answer never says so
MayHaveExecuted(c) == outcome[c] = "FAILED"
EvidenceOutcomeFixed(c) == "BLOCKED"   \* mutant: the receipt of every refusal
EvidenceOutcome(c) == outcome[c]
Evidence(c) ==
  /\ pc[c] = "evidence"
  /\ SinkRejects(c, EvidenceOutcome(c))
  /\ Goto(c, "answered")
  /\ answer' = [answer EXCEPT ![c] =
                  IF MayHaveExecuted(c) THEN "mayHaveExecuted" ELSE "refused"]
  /\ UNCHANGED <<cap, consent, outcome, guard, effects, crashes>>

(* The clock reaches the expiry of a token, and passes it.                   *)
Age(t) ==
  /\ \/ phase[t] = "live" /\ phase' = [phase EXCEPT ![t] = "instant"]
     \/ phase[t] = "instant" /\ phase' = [phase EXCEPT ![t] = "over"]
  /\ UNCHANGED <<locals, spent, reopened, log, effects, crashes>>

(* The process dies and is started again; what is on disk and what the       *)
(* devices did stay, but loading keeps a nonce only before its expiry.       *)
Crash ==
  LET forgotten == {t \in spent : phase[t] = "instant"}
  IN
  /\ crashes < MaxCrashes
  /\ crashes' = crashes + 1
  /\ spent' = spent \ forgotten
  /\ reopened' = reopened \union forgotten
  /\ pc' = [c \in Calls |-> IF pc[c] \in {"idle", "answered"} THEN pc[c] ELSE "lost"]
  /\ UNCHANGED <<cap, consent, outcome, answer, phase, log, effects>>

Next ==
  \/ Crash
  \/ \E t \in Tokens : Age(t)
  \/ \E c \in Calls :
       \/ Submit(c) \/ FormulaAnswer(c) \/ VeritasAnswer(c) \/ DiscoverAnswer(c)
       \/ Pre(c) \/ Effect(c) \/ ExecuteAnswer(c) \/ Post(c) \/ Evidence(c)
       \/ \E t \in Tokens \union {NoToken} : ConsentAnswer(c, t)

Spec == Init /\ [][Next]_vars

-------------------------------------------------------------------------------
(* No device operation happens before its ADMITTED receipt is on disk, even   *)
(* if the process dies right after ("Durable pre-execution evidence failure   *)
(* prevents execution", Bridge.call).                                         *)
EffectIsReceipted == \A c \in effects : <<c, "ADMITTED">> \in log

(* Every operation that is not a plain read was carried out on a consent      *)
(* token bound to it, and no two operations shared one, unless a process was  *)
(* started in the millisecond the token expired (registry:142 against :181):  *)
(* neither a retry nor a concurrent call rides on another call's consent,     *)
(* whatever the provider hands out and whenever else the process restarts.    *)
(* Operate-tier calls are only caught by the gate vector.                     *)
EffectOwnsConsent ==
  \A c \in effects : Tier[cap[c]] # "READ" =>
    /\ consent[c] \in Tokens /\ Bound[consent[c]] = cap[c]
    /\ \A d \in effects \ {c} : consent[d] = consent[c] => consent[c] \in reopened

(* A caller is told "ok" only of an operation that happened and whose PASS    *)
(* receipt is kept, and "refused" only of one that did not happen.            *)
AnswerIsHonest ==
  \A c \in Calls :
    /\ answer[c] = "ok" => c \in effects /\ <<c, "PASS">> \in log
    /\ answer[c] = "refused" => c \notin effects

(* The receipts on disk do not lie: PASS means done, BLOCKED means not done,  *)
(* and FAILED is never written of a call that was not admitted.               *)
ReceiptsAreHonest ==
  \A c \in Calls :
    /\ <<c, "PASS">> \in log => c \in effects
    /\ <<c, "BLOCKED">> \in log => c \notin effects
    /\ <<c, "FAILED">> \in log => <<c, "ADMITTED">> \in log

===============================================================================
