----------------------------- MODULE PocketCommand -----------------------------
(***************************************************************************)
(* One-step commands of the Pocket application (PocketCommandService.kt,    *)
(* PocketCommandPolicy.kt, PocketGrantStore.kt).  The main thread takes a   *)
(* message, a single-threaded lane carries the command out; destroying the  *)
(* service interrupts the lane, and a new instance starts with a lease and  *)
(* a list of seen ids of its own.  Signature, grant, access, grammar and    *)
(* age of a message are read when it is handled, and each may be wrong then.*)
(***************************************************************************)
EXTENDS Naturals, Sequences

CONSTANTS
  Orders,        \* command ids
  SeenLimit,     \* 128
  MaxService,    \* bound of the model: instances of the service
  MaxSends       \* bound of the model: messages

ASSUME PocketAssumption == SeenLimit \in Nat \ {0} /\ MaxService \in Nat \ {0} /\ MaxSends \in Nat

Services == 1 .. MaxService

VARIABLES
  service, bound,     \* the last instance, and whether it lives
  mail, sends,        \* messages on their way: a command and the instance it is for
  leased,             \* instances whose lease is held
  seenIds,            \* seen, of each instance, oldest first
  lane,               \* what the lane of an instance carries out
  forgotten,          \* history: ids an instance removed from seen to stay in its limit
  acted               \* history: how often a command acted in an instance

pocketVars == <<service, bound, mail, sends, leased, seenIds, lane, forgotten, acted>>

NoOrder == [at |-> "idle", id |-> "none"]

PocketTypeOK ==
  /\ service \in Services /\ bound \in BOOLEAN
  /\ mail \subseteq Orders \X Services /\ sends \in Nat /\ leased \subseteq Services
  /\ seenIds \in [Services -> Seq(Orders)]
  /\ lane \in [Services -> [at : {"idle", "look", "plan", "act", "acting", "verify", "over"},
                            id : Orders \union {"none"}]]
  /\ \A g \in Services : lane[g].at # "idle" => lane[g].id \in Orders
  /\ leased = {g \in Services : lane[g].at # "idle"}
  /\ forgotten \in [Services -> SUBSET Orders]
  /\ acted \in [Orders -> [Services -> Nat]]

PocketInit ==
  /\ service = 1 /\ bound = TRUE
  /\ mail = {} /\ sends = 0 /\ leased = {}
  /\ seenIds = [g \in Services |-> <<>>] /\ forgotten = [g \in Services |-> {}]
  /\ lane = [g \in Services |-> NoOrder]
  /\ acted = [o \in Orders |-> [g \in Services |-> 0]]

-------------------------------------------------------------------------------
(* Pocket sends a command, and may send it again.                             *)
Sends(o) ==
  /\ bound /\ sends < MaxSends /\ sends' = sends + 1
  /\ mail' = mail \union {<<o, service>>}
  /\ UNCHANGED <<service, bound, leased, seenIds, lane, forgotten, acted>>

(* handleMessage, up to the hand-over to the lane.                             *)
SeenIn(g) == {seenIds[g][k] : k \in DOMAIN seenIds[g]}
AnyId(o, g) == TRUE    \* mutant: seen is not consulted
NewId(o, g) == o \notin SeenIn(g)
Acceptable(o, g) == NewId(o, g) /\ g \notin leased
Living(g) == bound /\ g = service

Rejects(o, g) ==
  /\ <<o, g>> \in mail
  /\ mail' = mail \ {<<o, g>>}
  /\ UNCHANGED <<service, bound, sends, leased, seenIds, lane, forgotten, acted>>
Takes(o, g) ==
  LET all == IF o \in SeenIn(g) THEN seenIds[g] ELSE Append(seenIds[g], o)
      full == Len(all) > SeenLimit
  IN /\ <<o, g>> \in mail /\ Acceptable(o, g) /\ Living(g)
     /\ mail' = mail \ {<<o, g>>}
     /\ leased' = leased \union {g}
     /\ seenIds' = [seenIds EXCEPT ![g] = IF full THEN Tail(all) ELSE all]
     /\ forgotten' = [forgotten EXCEPT ![g] = IF full THEN @ \union {Head(all)} ELSE @]
     /\ lane' = [lane EXCEPT ![g] = [at |-> "look", id |-> o]]
     /\ UNCHANGED <<service, bound, sends, acted>>

-------------------------------------------------------------------------------
(* execute: a call of the router is preceded by the test of the deadline and of   *)
(* the interrupt, and may fail or find nothing; the last one only observes.     *)
LaneGoes(g, from, to) ==
  /\ lane[g].at = from
  /\ lane' = [lane EXCEPT ![g].at = to]
  /\ UNCHANGED <<service, bound, mail, sends, leased, seenIds, forgotten, acted>>
FindsTarget(g) == Living(g) /\ LaneGoes(g, "look", "plan")
ListsApps(g) == Living(g) /\ LaneGoes(g, "plan", "act")
CallsAction(g) == Living(g) /\ LaneGoes(g, "act", "acting")
Acts(g) ==
  /\ lane[g].at = "acting"
  /\ lane' = [lane EXCEPT ![g].at = "verify"]
  /\ acted' = [acted EXCEPT ![lane[g].id][g] = @ + 1]
  /\ UNCHANGED <<service, bound, mail, sends, leased, seenIds, forgotten>>
Observes(g) == LaneGoes(g, "verify", "over")
LaneFails(g) == \E from \in {"look", "plan", "act", "acting"} : LaneGoes(g, from, "over")
(* finally: the lease is released; the receipt is written, the result sent.      *)
Released(g) == leased \ {g}
Finishes(g) ==
  /\ lane[g].at = "over"
  /\ leased' = Released(g)
  /\ lane' = [lane EXCEPT ![g] = NoOrder]
  /\ UNCHANGED <<service, bound, mail, sends, seenIds, forgotten, acted>>

-------------------------------------------------------------------------------
(* onDestroy; a later bind creates the next instance.                          *)
Destroyed ==
  /\ bound /\ bound' = FALSE
  /\ UNCHANGED <<service, mail, sends, leased, seenIds, lane, forgotten, acted>>
Created ==
  /\ ~bound /\ service < MaxService
  /\ bound' = TRUE /\ service' = service + 1
  /\ UNCHANGED <<mail, sends, leased, seenIds, lane, forgotten, acted>>
(* The process dies: killed, or because a destroyed instance accepts a message   *)
(* and its lane refuses the work (RejectedExecutionException).                 *)
RefusedByLane == \E o \in Orders, g \in Services : <<o, g>> \in mail /\ Acceptable(o, g) /\ ~Living(g)
ProcessDies ==
  /\ bound \/ RefusedByLane
  /\ bound' = FALSE /\ mail' = {} /\ leased' = {}
  /\ lane' = [g \in Services |-> NoOrder]
  /\ UNCHANGED <<service, sends, seenIds, forgotten, acted>>

LaneStep(g) ==
  \/ FindsTarget(g) \/ ListsApps(g) \/ CallsAction(g) \/ Acts(g)
  \/ Observes(g) \/ LaneFails(g) \/ Finishes(g)
PocketNext ==
  \/ Destroyed \/ Created \/ ProcessDies
  \/ \E o \in Orders : Sends(o) \/ \E g \in Services : Rejects(o, g) \/ Takes(o, g)
  \/ \E g \in Services : LaneStep(g)

PocketSpec == PocketInit /\ [][PocketNext]_pocketVars

-------------------------------------------------------------------------------
(* A command that is sent again acts once in the life of an instance, unless that *)
(* instance forgot its id to keep to its limit: whatever fails, is interrupted    *)
(* or is destroyed on the way.                                                *)
ActsOnce == \A o \in Orders, g \in Services : acted[o][g] > 1 => o \in forgotten[g]
===============================================================================
