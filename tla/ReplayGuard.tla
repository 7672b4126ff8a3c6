----------------------------- MODULE ReplayGuard ------------------------------
(***************************************************************************)
(* ConsentReplayGuard and the part of verifyConsentEvidence that uses it   *)
(* (operator/trusted-issuer-registry.mjs).  Several operating-system       *)
(* processes share one ledger file and one directory of lock files; each   *)
(* keeps its own map of consumed nonces.  Every function is synchronous,   *)
(* so the unit of interleaving is the system call: an action is the code   *)
(* between two file operations.  A process may die at any action and be    *)
(* started again; its map dies with it, the files do not.                  *)
(*                                                                         *)
(* A nonce stands for the signed token that carries it, whose timestamps   *)
(* never change, so a map entry or a file record is just the nonce: its    *)
(* expiry is Expires[n].                                                   *)
(***************************************************************************)
EXTENDS Integers, FiniteSets

CONSTANTS
  Procs,          \* processes that share the ledger and the lock directory
  Nonces,
  NoNonce,        \* no nonce is being verified
  Issued,         \* issuedAt of the token that carries the nonce
  Expires,        \* its expiresAt
  MaxAge,         \* maxAgeMs of verifyConsentEvidence
  MaxEntries,     \* _maxEntries: map size at which consume prunes
  PruneInterval,  \* _pruneIntervalMs
  MaxClock,       \* bound of the model: the clock stops here
  MaxCrashes      \* bound of the model: how many times a process dies

ASSUME TimesAssumption ==
  /\ Issued \in [Nonces -> Nat]
  /\ Expires \in [Nonces -> Nat]
  /\ {MaxAge, PruneInterval, MaxClock, MaxCrashes} \subseteq Nat
ASSUME NonceAssumption == NoNonce \notin Nonces /\ MaxEntries \in Nat

VARIABLES
  clock,          \* Date.now(), one machine, never set back
  crashes,        \* how many times a process has died
  \* files
  locks,          \* the lock file of a nonce: absent, created but empty, written
  ledger,         \* nonces that have a line in the ledger file
  ledgerExists,
  \* one process each
  pc,             \* which system call comes next
  arg,            \* nonce being verified
  lastPrune,      \* _lastPrune; at start-up also the Date.now() of _loadFromDisk
  mem,            \* _consumedNonces
  inTime,         \* history: the lock file was created before the expiry instant
  \* history
  liveUses,       \* acceptances whose lock was created before the expiry instant
  lateUses        \* acceptances whose lock was created at or after it

files == <<locks, ledger, ledgerExists>>
history == <<liveUses, lateUses>>
vars == <<clock, crashes, files, pc, arg, lastPrune, mem, inTime, history>>

Stages == {"down", "loading", "idle", "probe", "lookup", "reading", "binding",
           "consuming", "checking", "opening", "writing", "filing", "appending",
           "probeCompact", "consumingCompact", "filingCompact"}
(* Stages at which prune is called, the stage between its unlinking and its  *)
(* rewriting of the ledger, and the stage it returns to.                     *)
PruneStages == {"probe", "consuming", "filing"}
ToCompact == [probe |-> "probeCompact", consuming |-> "consumingCompact",
              filing |-> "filingCompact"]
AfterPrune == [probe |-> "lookup", consuming |-> "checking", filing |-> "appending"]
AfterCompact == [probeCompact |-> "lookup", consumingCompact |-> "checking",
                 filingCompact |-> "appending"]
LockStates == {"absent", "empty", "written"}

TypeOK ==
  /\ clock \in Nat /\ crashes \in Nat
  /\ locks \in [Nonces -> LockStates]
  /\ ledger \in SUBSET Nonces
  /\ ledgerExists \in BOOLEAN
  /\ pc \in [Procs -> Stages]
  /\ arg \in [Procs -> Nonces \union {NoNonce}]
  /\ lastPrune \in [Procs -> Nat]
  /\ mem \in [Procs -> SUBSET Nonces]
  /\ inTime \in [Procs -> BOOLEAN]
  /\ liveUses \in [Nonces -> Nat]
  /\ lateUses \in [Nonces -> Nat]

Init ==
  /\ clock = 0 /\ crashes = 0
  /\ locks = [n \in Nonces |-> "absent"]
  /\ ledger = {}
  /\ ledgerExists = FALSE
  /\ pc = [p \in Procs |-> "down"]
  /\ arg = [p \in Procs |-> NoNonce]
  /\ lastPrune = [p \in Procs |-> 0]
  /\ mem = [p \in Procs |-> {}]
  /\ inTime = [p \in Procs |-> FALSE]
  /\ liveUses = [n \in Nonces |-> 0]
  /\ lateUses = [n \in Nonces |-> 0]

-------------------------------------------------------------------------------
(* The next system call of p; a call that returns or dies has no locals.     *)
Goto(p, stage) ==
  LET over == stage \in {"idle", "down"}
  IN  /\ pc' = [pc EXCEPT ![p] = stage]
      /\ arg' = [arg EXCEPT ![p] = IF over THEN NoNonce ELSE @]
      /\ inTime' = [inTime EXCEPT ![p] = ~over /\ @]
ExpiredOnceIssued(n, t) == t > Issued[n]   \* mutant: the wrong timestamp
Expired(n, t) == t > Expires[n]
(* What _loadFromDisk keeps: not quite the complement of Expired.            *)
LoadableUntilIssued(n, t) == Issued[n] > t   \* mutant
Loadable(n, t) == Expires[n] > t
(* existsSync of the lock file, and what openSync with O_EXCL requires of it. *)
LockExistsNever(n) == FALSE   \* mutant: has() trusts its own map
LockExists(n) == locks[n] # "absent"
CreatesAlways(n) == TRUE   \* mutant: O_CREAT without O_EXCL
Creates(n) == locks[n] = "absent"
Remember(p, n) == mem' = [mem EXCEPT ![p] = @ \union {n}]

(* The constructor: _lastPrune, then the first half of _loadFromDisk.  With  *)
(* no ledger file it returns before it looks at the lock directory.          *)
Start(p) ==
  /\ pc[p] = "down"
  /\ lastPrune' = [lastPrune EXCEPT ![p] = clock]
  /\ mem' = [mem EXCEPT ![p] = {n \in ledger : Loadable(n, clock)}]
  /\ Goto(p, IF ledgerExists THEN "loading" ELSE "idle")
  /\ UNCHANGED <<clock, crashes, files, history>>

(* Its second half: a written lock that is live is remembered, one that is   *)
(* not is unlinked; an empty one does not parse and is left alone.           *)
LoadLocks(p) ==
  LET written == {n \in Nonces : locks[n] = "written"}
      keep == {n \in written : Loadable(n, lastPrune[p])}
  IN  /\ pc[p] = "loading"
      /\ mem' = [mem EXCEPT ![p] = @ \union keep]
      /\ locks' = [n \in Nonces |-> IF n \in written \ keep THEN "absent" ELSE locks[n]]
      /\ Goto(p, "idle")
      /\ UNCHANGED <<clock, crashes, ledger, ledgerExists, lastPrune, history>>

(* verifyConsentEvidence is called with a token that is neither expired nor  *)
(* older than maxAgeMs; any other token is refused before the guard is used. *)
Begin(p, n) ==
  /\ pc[p] = "idle"
  /\ ~Expired(n, clock)
  /\ clock <= Issued[n] + MaxAge
  /\ arg' = [arg EXCEPT ![p] = n]
  /\ pc' = [pc EXCEPT ![p] = "probe"]
  /\ UNCHANGED <<inTime, clock, crashes, files, lastPrune, mem, history>>

-------------------------------------------------------------------------------
PruneDue(p) ==
  IF pc[p] = "filing" THEN Cardinality(mem[p]) >= MaxEntries
                      ELSE clock - lastPrune[p] > PruneInterval
Entering(p, stage) == pc[p] = stage /\ ~PruneDue(p)

(* prune: expired map entries go with their locks, then every written lock   *)
(* that has expired; the ledger is rewritten only if the map lost an entry.  *)
Prune(p) ==
  LET stale == {n \in mem[p] : Expired(n, clock)}
      swept == stale \union {n \in Nonces : locks[n] = "written" /\ Expired(n, clock)}
  IN  /\ pc[p] \in PruneStages
      /\ PruneDue(p)
      /\ mem' = [mem EXCEPT ![p] = @ \ stale]
      /\ locks' = [n \in Nonces |-> IF n \in swept THEN "absent" ELSE locks[n]]
      /\ lastPrune' = [lastPrune EXCEPT ![p] = clock]
      /\ Goto(p, IF stale # {} /\ ledgerExists
                 THEN ToCompact[pc[p]] ELSE AfterPrune[pc[p]])
      /\ UNCHANGED <<clock, crashes, ledger, ledgerExists, history>>

(* The end of prune: the ledger is replaced by this process's own map, with  *)
(* a temporary file and a rename; a failure is ignored.                      *)
Compact(p) ==
  /\ pc[p] \in DOMAIN AfterCompact
  /\ ledger' \in {mem[p], ledger}
  /\ Goto(p, AfterCompact[pc[p]])
  /\ UNCHANGED <<clock, crashes, locks, ledgerExists, lastPrune, mem, history>>

-------------------------------------------------------------------------------
(* has(nonce), up to existsSync of the lock file. *)
HasLookup(p) ==
  LET n == arg[p]
  IN  /\ Entering(p, "probe") \/ pc[p] = "lookup"
      /\ Goto(p, IF n \in mem[p] THEN "idle"
                 ELSE IF LockExists(n) THEN "reading" ELSE "binding")
      /\ UNCHANGED <<clock, crashes, files, lastPrune, mem, history>>

(* has(nonce), from readFileSync: an expired lock is unlinked and does not   *)
(* count, a live one is remembered, one that is gone or does not parse makes *)
(* the token refused.                                                        *)
HasRead(p) ==
  LET n == arg[p]
  IN  /\ pc[p] = "reading"
      /\ \/ /\ locks[n] = "written" /\ Expired(n, clock)
            /\ locks' = [locks EXCEPT ![n] = "absent"]
            /\ Goto(p, "binding")
            /\ UNCHANGED mem
         \/ /\ locks[n] = "written" /\ ~Expired(n, clock)
            /\ Remember(p, n)
            /\ Goto(p, "idle")
            /\ UNCHANGED locks
         \/ /\ locks[n] # "written"
            /\ Goto(p, "idle")
            /\ UNCHANGED <<locks, mem>>
      /\ UNCHANGED <<clock, crashes, ledger, ledgerExists, lastPrune, history>>

(* Device, platform, capability, digest and signature checks: pass or throw. *)
CheckBinding(p) ==
  /\ pc[p] = "binding"
  /\ \E stage \in {"consuming", "idle"} : Goto(p, stage)
  /\ UNCHANGED <<clock, crashes, files, lastPrune, mem, history>>

(* consume(nonce, expiresAtMs), up to the map check. *)
ConsumeCheck(p) ==
  LET n == arg[p]
  IN  /\ Entering(p, "consuming") \/ pc[p] = "checking"
      /\ Goto(p, IF Expired(n, clock) \/ n \in mem[p] THEN "idle" ELSE "opening")
      /\ UNCHANGED <<clock, crashes, files, lastPrune, mem, history>>

(* openSync of the lock with O_CREAT | O_EXCL: it creates the file, finds it *)
(* (the nonce is remembered and refused) or fails in some other way.         *)
OpenLock(p) ==
  LET n == arg[p]
  IN  /\ pc[p] = "opening"
      /\ \/ /\ Creates(n)
            /\ locks' = [locks EXCEPT ![n] = "empty"]
            /\ inTime' = [inTime EXCEPT ![p] = clock < Expires[n]]
            /\ pc' = [pc EXCEPT ![p] = "writing"]
            /\ UNCHANGED <<arg, mem>>
         \/ /\ LockExists(n)
            /\ Remember(p, n)
            /\ Goto(p, "idle")
            /\ UNCHANGED locks
         \/ Goto(p, "idle") /\ UNCHANGED <<locks, mem>>
      /\ UNCHANGED <<clock, crashes, ledger, ledgerExists, lastPrune, history>>

(* The record is written through the open descriptor, which changes the file *)
(* only while it is linked; a failure throws and leaves the lock empty.      *)
WriteLock(p) ==
  LET n == arg[p]
  IN  /\ pc[p] = "writing"
      /\ \/ /\ locks' = [locks EXCEPT ![n] = IF @ = "empty" THEN "written" ELSE @]
            /\ Goto(p, "filing")
         \/ UNCHANGED locks /\ Goto(p, "idle")
      /\ UNCHANGED <<clock, crashes, ledger, ledgerExists, lastPrune, mem, history>>

(* appendFileSync of the ledger line, and the return of true.                *)
Append(p) ==
  LET n == arg[p]
  IN  /\ Entering(p, "filing") \/ pc[p] = "appending"
      /\ ledger' = ledger \union {n}
      /\ ledgerExists' = TRUE
      /\ Remember(p, n)
      /\ IF inTime[p]
         THEN liveUses' = [liveUses EXCEPT ![n] = @ + 1] /\ UNCHANGED lateUses
         ELSE lateUses' = [lateUses EXCEPT ![n] = @ + 1] /\ UNCHANGED liveUses
      /\ Goto(p, "idle")
      /\ UNCHANGED <<clock, crashes, locks, lastPrune>>

(* The append fails: the lock is unlinked (that may fail too) and consume    *)
(* throws REPLAY_LEDGER_WRITE_FAILED.                                        *)
AppendFails(p) ==
  LET n == arg[p]
  IN  /\ Entering(p, "filing") \/ pc[p] = "appending"
      /\ \/ locks' = [locks EXCEPT ![n] = "absent"]
         \/ UNCHANGED locks
      /\ Goto(p, "idle")
      /\ UNCHANGED <<clock, crashes, ledger, ledgerExists, lastPrune, mem, history>>

-------------------------------------------------------------------------------
(* The process dies between two system calls; its map is gone.               *)
Crash(p) ==
  /\ pc[p] # "down"
  /\ crashes < MaxCrashes
  /\ crashes' = crashes + 1
  /\ mem' = [mem EXCEPT ![p] = {}]
  /\ Goto(p, "down")
  /\ UNCHANGED <<clock, files, lastPrune, history>>

Tick ==
  /\ clock < MaxClock
  /\ clock' = clock + 1
  /\ UNCHANGED <<crashes, files, pc, arg, lastPrune, mem, inTime, history>>

Next ==
  \/ Tick
  \/ \E p \in Procs :
       \/ Start(p) \/ LoadLocks(p) \/ Prune(p) \/ Compact(p)
       \/ HasLookup(p) \/ HasRead(p) \/ CheckBinding(p)
       \/ ConsumeCheck(p) \/ OpenLock(p) \/ WriteLock(p) \/ Append(p) \/ AppendFails(p)
       \/ Crash(p)
       \/ \E n \in Nonces : Begin(p, n)

Spec == Init /\ [][Next]_vars

-------------------------------------------------------------------------------
(* Whatever the processes do, die and restart, a nonce is accepted at most    *)
(* once on a lock created before its token's expiry instant: the purpose of   *)
(* the guard (verifyConsentEvidence, has, consume, prune, _loadFromDisk).     *)
SingleUse == \A n \in Nonces : liveUses[n] <= 1

(* Until the expiry instant an accepted nonce keeps its written lock file:    *)
(* this, not the ledger, is what survives a restart of any process, a sweep   *)
(* by another one and a rewritten ledger.                                     *)
SpentKeepsLock ==
  \A n \in Nonces : liveUses[n] > 0 /\ clock < Expires[n] => locks[n] = "written"

(* A nonce already accepted is refused by has() itself, before the signature  *)
(* is looked at, in every process and after every restart.                    *)
SpentStopsAtHas ==
  [][\A p \in Procs : pc[p] # "binding" /\ pc'[p] = "binding" =>
       ~(liveUses[arg[p]] > 0 /\ clock < Expires[arg[p]])]_vars

(* What the comments of the class and of the default guard claim: a token is  *)
(* never accepted twice, at no instant of its validity.                       *)
AtMostOnce == \A n \in Nonces : liveUses[n] + lateUses[n] <= 1

(* The abstract promise: a reservation is a live lock file or a holder of one. *)
Holding(p, n) ==
  /\ arg[p] = n
  /\ pc[p] \in {"writing", "filing", "filingCompact", "appending"}
  /\ inTime[p]
Live == {n \in Nonces : clock < Expires[n]}
Spent == {n \in Nonces : liveUses[n] > 0}
Held == {n \in Nonces \ Spent : \/ n \in Live /\ locks[n] # "absent"
                                \/ \E p \in Procs : Holding(p, n)}
Promise == INSTANCE SingleUseConsent WITH live <- Live, held <- Held, accepted <- liveUses
KeepsPromise == Promise!Spec

===============================================================================
