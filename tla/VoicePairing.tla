----------------------------- MODULE VoicePairing -----------------------------
(***************************************************************************)
(* Passwordless pairing of a voice application: the gateway's pairing      *)
(* table (operator/voice-owner-pairing.mjs) with the session it issues on  *)
(* a claim (pairClaim of operator/voice-auth-gateway.mjs), and the         *)
(* approver on the owner's desktop (operator/voice-owner-approval-         *)
(* desktop.mjs).  The two are processes that meet in a directory of        *)
(* request and approval files.  A file is created empty and then filled;   *)
(* code between two awaits is one action; an expired entry leaves the      *)
(* table only when some start sweeps it; a restart of the gateway empties  *)
(* its tables and keeps the files.                                         *)
(***************************************************************************)
EXTENDS Naturals, FiniteSets

CONSTANTS
  Apps, Ids, Claims,  \* applications, pairing ids, claim requests
  Ttl, RateGap,       \* ttlMs and the gap between two starts of an application
  MaxPending,
  None,
  MaxNow, MaxCrashes  \* bounds of the model

ASSUME PairingAssumption ==
  /\ Ttl \in Nat \ {0} /\ RateGap \in Nat
  /\ MaxPending \in Nat \ {0}
  /\ None \notin Apps \union Ids
  /\ MaxNow \in Nat /\ MaxCrashes \in Nat

VARIABLES
  now, crashes,
  app, began,        \* application and start time of an id, None if it is unused
  table,             \* ids in the gateway's map of requests
  used,              \* ids whose request is marked used
  rates,             \* last accepted start of an application, or None
  writing,           \* ids whose start is still writing its request file
  reqFile, okFile,   \* <id>.request.json and <id>.approved.json
  claim,             \* id and stage of a claim, and what it read
  sessions,          \* sessions issued: claim and id
  seen, reading,     \* the approver's set of names, and ids it is reading
  dialog, signing,   \* the id its dialog asks about, and ids being signed
  prompted, approved \* history: ids a dialog was shown for, ids approved in it

gateway == <<app, began, table, used, rates, writing>>
approver == <<seen, reading, dialog, signing, prompted, approved>>
vars == <<now, crashes, gateway, reqFile, okFile, claim, sessions, approver>>

FileStates == {"absent", "empty", "written"}
Stages == {"idle", "reading", "found", "missing", "cleanup", "answered"}
TypeOK ==
  /\ now \in 0 .. MaxNow /\ crashes \in 0 .. MaxCrashes
  /\ app \in [Ids -> Apps \union {None}] /\ began \in [Ids -> Nat]
  /\ table \subseteq Ids /\ used \subseteq Ids
  /\ rates \in [Apps -> Nat \union {None}] /\ writing \subseteq Ids
  /\ reqFile \in [Ids -> FileStates] /\ okFile \in [Ids -> FileStates]
  /\ claim \in [Claims -> [id : Ids \union {None}, at : Stages]]
  /\ \A c \in Claims : claim[c].id = None <=> claim[c].at = "idle"
  /\ sessions \subseteq Claims \X Ids
  /\ seen \subseteq Ids /\ reading \subseteq Ids
  /\ dialog \in Ids \union {None}
  /\ signing \in [Ids -> {"no", "checking", "creating", "filling"}]
  /\ prompted \subseteq Ids /\ approved \subseteq Ids

Init ==
  /\ now = 0 /\ crashes = 0
  /\ app = [i \in Ids |-> None] /\ began = [i \in Ids |-> 0]
  /\ table = {} /\ used = {} /\ rates = [a \in Apps |-> None] /\ writing = {}
  /\ reqFile = [i \in Ids |-> "absent"] /\ okFile = [i \in Ids |-> "absent"]
  /\ claim = [c \in Claims |-> [id |-> None, at |-> "idle"]]
  /\ sessions = {} /\ seen = {} /\ reading = {} /\ dialog = None
  /\ signing = [i \in Ids |-> "no"]
  /\ prompted = {} /\ approved = {}

-------------------------------------------------------------------------------
Cleared(c) == [id |-> None, at |-> "idle"]

Expires(i) == began[i] + Ttl
Expired(i) == Expires(i) <= now

(* What is left of the table after start's sweep. *)
Swept == {i \in table : ~Expired(i)}
AnyPending(a) == FALSE   \* mutant: an application may have several pending
Pending(a) == \E i \in Swept : app[i] = a
RateLimited(a) == rates[a] # None /\ now < rates[a] + RateGap

(* pairing.start, up to its first await.  A start that is refused has swept. *)
Start(i, a) ==
  /\ app[i] = None
  /\ Cardinality(Swept) < MaxPending /\ ~Pending(a) /\ ~RateLimited(a)
  /\ app' = [app EXCEPT ![i] = a] /\ began' = [began EXCEPT ![i] = now]
  /\ table' = Swept \union {i}
  /\ rates' = [rates EXCEPT ![a] = now]
  /\ writing' = writing \union {i}
  /\ UNCHANGED <<now, crashes, used, reqFile, okFile, claim, sessions, approver>>
StartRefused(a) ==
  /\ Cardinality(Swept) >= MaxPending \/ Pending(a) \/ RateLimited(a)
  /\ table' = Swept
  /\ UNCHANGED <<now, crashes, app, began, used, rates, writing, reqFile, okFile, claim,
                 sessions, approver>>

(* writeFile(request.json, wx): the file appears, and then its content.  If   *)
(* it fails the caller gets an error and the entry stays in the table.        *)
WriteRequest(i) ==
  /\ i \in writing
  /\ \/ /\ reqFile[i] = "absent" /\ reqFile' = [reqFile EXCEPT ![i] = "empty"]
        /\ UNCHANGED writing
     \/ /\ reqFile[i] = "empty" /\ reqFile' = [reqFile EXCEPT ![i] = "written"]
        /\ writing' = writing \ {i}
     \/ writing' = writing \ {i} /\ UNCHANGED reqFile
  /\ UNCHANGED <<now, crashes, app, began, table, used, rates, okFile, claim, sessions,
                 approver>>

(* pairing.check, up to the read of the approval.  Its caller knows the       *)
(* token, which start returned once the request file was written.             *)
Usable(i) == i \in table /\ i \notin used /\ ~Expired(i)
ClaimStart(c, i) ==
  /\ claim[c].at = "idle"
  /\ reqFile[i] = "written" \/ i \in used
  /\ Usable(i)
  /\ claim' = [claim EXCEPT ![c] = [id |-> i, at |-> "reading"]]
  /\ UNCHANGED <<now, crashes, gateway, reqFile, okFile, sessions, approver>>

ReadsNothing(i) == {"found", "missing"}   \* mutant: an unreadable approval passes
ReadsApproval(i) == {IF okFile[i] = "written" THEN "found" ELSE "missing"}
ClaimRead(c) ==
  /\ claim[c].at = "reading"
  /\ \E seenAs \in ReadsApproval(claim[c].id) : claim' = [claim EXCEPT ![c].at = seenAs]
  /\ UNCHANGED <<now, crashes, gateway, reqFile, okFile, sessions, approver>>

(* No approval yet: the client is told to wait, and asks again.               *)
ClaimWaits(c) ==
  /\ claim[c].at = "missing"
  /\ claim' = [claim EXCEPT ![c] = Cleared(c)]
  /\ UNCHANGED <<now, crashes, gateway, reqFile, okFile, sessions, approver>>
ClaimApproved(c) ==
  /\ claim[c].at = "found"
  /\ used' = used \union {claim[c].id}
  /\ claim' = [claim EXCEPT ![c].at = "cleanup"]
  /\ UNCHANGED <<now, crashes, app, began, table, rates, writing, reqFile, okFile,
                 sessions, approver>>

(* Both files are removed, each as far as that succeeds, and pairClaim issues *)
(* a session.                                                                 *)
ClaimEnd(c) ==
  LET i == claim[c].id IN
  /\ claim[c].at = "cleanup"
  /\ okFile' \in {okFile, [okFile EXCEPT ![i] = "absent"]}
  /\ reqFile' \in {reqFile, [reqFile EXCEPT ![i] = "absent"]}
  /\ sessions' = sessions \union {<<c, i>>}
  /\ claim' = [claim EXCEPT ![c].at = "answered"]
  /\ UNCHANGED <<now, crashes, gateway, approver>>

-------------------------------------------------------------------------------
(* The approver takes a name it has not seen, and then reads the file.        *)
NoticeUnmarked(i) == seen   \* mutant: the name is not remembered
Notice(i) == seen \union {i}
Scan(i) ==
  /\ dialog = None
  /\ reqFile[i] # "absent" /\ i \notin seen
  /\ seen' = Notice(i)
  /\ reading' = reading \union {i}
  /\ UNCHANGED <<now, crashes, gateway, reqFile, okFile, claim, sessions, dialog, signing,
                 prompted, approved>>
Inspect(i) ==
  /\ dialog = None /\ i \in reading
  /\ reading' = reading \ {i}
  /\ IF reqFile[i] = "written" /\ ~Expired(i)
     THEN dialog' = i /\ prompted' = prompted \union {i}
     ELSE UNCHANGED <<dialog, prompted>>
  /\ UNCHANGED <<now, crashes, gateway, reqFile, okFile, claim, sessions, seen, signing,
                 approved>>

(* The owner clicks Yes, or No, or the dialog times out.                      *)
Decide(yes) ==
  /\ dialog # None
  /\ dialog' = None
  /\ IF yes
     THEN /\ approved' = approved \union {dialog}
          /\ signing' = [signing EXCEPT ![dialog] = "checking"]
     ELSE UNCHANGED <<approved, signing>>
  /\ UNCHANGED <<now, crashes, gateway, reqFile, okFile, claim, sessions, seen, reading,
                 prompted>>

(* signVoiceOwnerApproval reads the request again and checks its expiry, and  *)
(* writes the approval with wx.                                               *)
SignCheck(i) ==
  /\ dialog = None /\ signing[i] = "checking"
  /\ signing' = [signing EXCEPT ![i] =
                   IF reqFile[i] = "written" /\ ~Expired(i) THEN "creating" ELSE "no"]
  /\ UNCHANGED <<now, crashes, gateway, reqFile, okFile, claim, sessions, seen, reading,
                 dialog, prompted, approved>>
SignWrite(i) ==
  /\ \/ signing[i] = "creating" /\ okFile[i] = "absent"
        /\ okFile' = [okFile EXCEPT ![i] = "empty"]
        /\ signing' = [signing EXCEPT ![i] = "filling"]
     \/ signing[i] = "filling"
        /\ okFile' = [okFile EXCEPT ![i] = "written"]
        /\ signing' = [signing EXCEPT ![i] = "no"]
  /\ UNCHANGED <<now, crashes, gateway, reqFile, claim, sessions, seen, reading, dialog,
                 prompted, approved>>

Tick ==
  /\ now < MaxNow
  /\ now' = now + 1
  /\ UNCHANGED <<crashes, gateway, reqFile, okFile, claim, sessions, approver>>

(* The gateway restarts: its table, its claims and its sessions are gone.     *)
Restart ==
  /\ crashes < MaxCrashes
  /\ crashes' = crashes + 1
  /\ table' = {} /\ rates' = [a \in Apps |-> None] /\ writing' = {}
  /\ claim' = [c \in Claims |-> IF claim[c].at = "answered" THEN claim[c] ELSE Cleared(c)]
  /\ sessions' = {}
  /\ UNCHANGED <<now, app, began, used, reqFile, okFile, approver>>

(* The approver restarts: it forgets which requests it has seen.              *)
ApproverRestart ==
  /\ crashes < MaxCrashes
  /\ crashes' = crashes + 1
  /\ seen' = {} /\ reading' = {} /\ dialog' = None /\ prompted' = {}
  /\ signing' = [i \in Ids |-> "no"]
  /\ UNCHANGED <<now, gateway, reqFile, okFile, claim, sessions, approved>>

Next ==
  \/ Tick \/ Restart \/ ApproverRestart
  \/ \E a \in Apps : StartRefused(a) \/ \E i \in Ids : Start(i, a)
  \/ \E i \in Ids : \/ WriteRequest(i) \/ Scan(i) \/ Inspect(i)
                    \/ SignCheck(i) \/ SignWrite(i)
  \/ \E c \in Claims : \/ ClaimRead(c) \/ ClaimWaits(c) \/ ClaimApproved(c) \/ ClaimEnd(c)
                       \/ \E i \in Ids : ClaimStart(c, i)
  \/ \E yes \in BOOLEAN : Decide(yes)

Spec == Init /\ [][Next]_vars

-------------------------------------------------------------------------------
(* A session exists only for a request the owner approved in the dialog: not  *)
(* on a half-written approval, nor on one left by an earlier run (check of    *)
(* voice-owner-pairing.mjs and pairClaim).                                    *)
SessionIsApproved == \A s \in sessions : s[2] \in approved

(* An application has at most one live request in the table: a start that     *)
(* failed to write its file, or an entry no start has swept, opens no second  *)
(* slot (start of voice-owner-pairing.mjs).                                   *)
OneLiveRequest ==
  \A i, j \in {k \in table : ~Expired(k)} : app[i] = app[j] => i = j

(* The approver asks about a request once: overlapping scans, whose reads      *)
(* interleave, do not ask again (scan of voice-owner-approval-desktop.mjs).    *)
AsksOnce == [][dialog' \notin {dialog, None} => dialog' \notin prompted]_vars

(* "single-use exchange" (header of voice-owner-pairing.mjs): a request yields *)
(* at most one session.                                                       *)
SingleUseExchange == \A s, t \in sessions : s[2] = t[2] => s = t

(* "watch owner ACL-protected requests, show native Yes/No dialog" (header of *)
(* voice-owner-approval-desktop.mjs): a live request the approver has taken   *)
(* up, whose file is complete, was put to the owner.                          *)
NoRequestOverlooked ==
  \A i \in seen \ reading : reqFile[i] = "written" /\ ~Expired(i) => i \in prompted

===============================================================================
