------------------------------- MODULE GpuService -------------------------------
(***************************************************************************)
(* The local GPU service (packages/leeway-gpu-service: service.mjs,         *)
(* inference-routes.mjs, preferences.mjs): requests for inference against   *)
(* the owner's switch.  A step of a handler ends at an await; the switch    *)
(* is a file that a control call replaces in one turn.                      *)
(***************************************************************************)
EXTENDS Naturals

CONSTANTS
  Requests,      \* POSTs of /v1/generate and /v1/models/activate, or of the preview routes
  Controls       \* calls of /v1/control and /v1/status

VARIABLES
  preference,    \* the preference file: "absent", "on" or "off"
  kind, request, \* a request's route and how far its handler is
  pending, aborted,   \* the routes' AbortControllers, and those that were aborted
  control,       \* a control or status call: its place, what it wants, what it has read
  optedOut       \* history: requests that were pending when the owner opted out

gpuVars == <<preference, kind, request, pending, aborted, control, optedOut>>

InFlight == {"authenticate", "body", "provider"}
GpuTypeOK ==
  /\ preference \in {"absent", "on", "off"}
  /\ kind \in [Requests -> {"inference", "preview"}]
  /\ request \in [Requests -> InFlight \union {"new", "ok", "error"}]
  /\ pending = {r \in Requests : kind[r] = "inference" /\ request[r] \in InFlight}
  /\ aborted \subseteq pending /\ optedOut \subseteq Requests
  /\ control \in [Controls -> [at : {"idle", "body", "describe", "active", "inactive", "error"},
                               wants : {"on", "off", "status"}, enabled : BOOLEAN]]

GpuInit ==
  /\ preference = "absent"
  /\ kind \in [Requests -> {"inference", "preview"}]
  /\ request = [r \in Requests |-> "new"]
  /\ pending = {} /\ aborted = {} /\ optedOut = {}
  /\ control = [c \in Controls |-> [at |-> "idle", wants |-> "status", enabled |-> FALSE]]

-------------------------------------------------------------------------------
Enabled == preference = "on"
HandlerGoes(r, from, to) ==
  /\ request[r] = from /\ request' = [request EXCEPT ![r] = to]
  /\ UNCHANGED <<preference, kind, control, optedOut>>
(* The finally block; the controllers of requests that ended are forgotten.      *)
StaysPending(r, from, to) == HandlerGoes(r, from, to) /\ UNCHANGED <<pending, aborted>>   \* mutant
Ends(r, from, to) ==
  HandlerGoes(r, from, to) /\ pending' = pending \ {r} /\ aborted' = aborted \ {r}

OpenInference(r) ==
  /\ kind[r] = "inference" /\ HandlerGoes(r, "new", "authenticate")
  /\ pending' = pending \union {r} /\ UNCHANGED aborted
OpenPreview(r) ==
  /\ kind[r] = "preview" /\ HandlerGoes(r, "new", "body")
  /\ UNCHANGED <<pending, aborted>>
Authenticate(r) ==
  /\ Enabled /\ HandlerGoes(r, "authenticate", "body") /\ UNCHANGED <<pending, aborted>>
ReadBody(r) == HandlerGoes(r, "body", "provider") /\ UNCHANGED <<pending, aborted>>
(* The provider has answered: an inference asks the switch and its signal again.  *)
Stands(r) == kind[r] = "preview" \/ (r \notin aborted /\ Enabled)
Answer(r) == Stands(r) /\ Ends(r, "provider", "ok")
(* A refusal at any place: of the client, the switch, the body, the provider, the  *)
(* signal or the evidence.                                                    *)
Refuse(r) == \E at \in InFlight : Ends(r, at, "error")
(* The client goes away.                                                      *)
ClientAborts(r) ==
  /\ r \in pending /\ aborted' = aborted \union {r}
  /\ UNCHANGED <<preference, kind, request, pending, control, optedOut>>

-------------------------------------------------------------------------------
BeginControl(c, wants) ==
  /\ control[c].at = "idle"
  /\ control' = [control EXCEPT ![c] = [at |-> "body", wants |-> wants, enabled |-> FALSE]]
  /\ UNCHANGED <<preference, kind, request, pending, aborted, optedOut>>
(* setGpuPreference, then cancelAll if it was switched off, then the switch as     *)
(* status reads it before it asks the provider.                               *)
CancelsNone(wants) == {}      \* mutant: cancelAll is not called
Cancelled(wants) == IF wants = "off" THEN pending ELSE {}
SetPreference(c) ==
  LET wants == control[c].wants
  IN /\ control[c].at = "body" /\ wants # "status"
     /\ preference' = wants
     /\ aborted' = aborted \union Cancelled(wants)
     /\ optedOut' = IF wants = "off" THEN optedOut \union pending ELSE optedOut
     /\ control' = [control EXCEPT ![c].at = "describe", ![c].enabled = (wants = "on")]
     /\ UNCHANGED <<kind, request, pending>>
ReadPreference(c) ==
  /\ control[c].at = "body" /\ control[c].wants = "status"
  /\ control' = [control EXCEPT ![c].at = "describe", ![c].enabled = Enabled]
  /\ UNCHANGED <<preference, kind, request, pending, aborted, optedOut>>
(* The provider has described itself, verified or not.                          *)
ReplyStatus(c) ==
  /\ control[c].at = "describe"
  /\ \E verified \in BOOLEAN :
       control' = [control EXCEPT ![c].at = IF @ = "describe" /\ control[c].enabled /\ verified
                                             THEN "active" ELSE "inactive"]
  /\ UNCHANGED <<preference, kind, request, pending, aborted, optedOut>>
(* The body is refused, or the file cannot be written and stays as it was.       *)
ControlFails(c) ==
  /\ control[c].at = "body" /\ control' = [control EXCEPT ![c].at = "error"]
  /\ UNCHANGED <<preference, kind, request, pending, aborted, optedOut>>

(* The service dies and is started again; the file stays.                        *)
ServiceDies ==
  /\ \E r \in Requests : request[r] \in InFlight
  /\ request' = [r \in Requests |-> IF request[r] \in InFlight THEN "error" ELSE request[r]]
  /\ control' = [c \in Controls |-> IF control[c].at \in {"body", "describe"}
                                    THEN [control[c] EXCEPT !.at = "error"] ELSE control[c]]
  /\ pending' = {} /\ aborted' = {}
  /\ UNCHANGED <<preference, kind, optedOut>>

GpuNext ==
  \/ ServiceDies
  \/ \E r \in Requests :
       \/ OpenInference(r) \/ OpenPreview(r) \/ Authenticate(r) \/ ReadBody(r)
       \/ Answer(r) \/ Refuse(r) \/ ClientAborts(r)
  \/ \E c \in Controls :
       \/ \E wants \in {"on", "off", "status"} : BeginControl(c, wants)
       \/ SetPreference(c) \/ ReadPreference(c) \/ ReplyStatus(c) \/ ControlFails(c)

GpuSpec == GpuInit /\ [][GpuNext]_gpuVars

-------------------------------------------------------------------------------
(* An inference that was under way when the owner opted out is never answered with  *)
(* a result, even if the owner opts in again before its provider is done; and an   *)
(* opt-out is never answered as active, whatever else is switched while the reply  *)
(* waits for the provider.                                                    *)
OptOutHolds ==
  /\ \A r \in optedOut : request[r] # "ok"
  /\ \A c \in Controls : control[c].wants = "off" => control[c].at # "active"
===============================================================================
