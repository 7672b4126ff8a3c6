-------------------------------- MODULE ReadAloud --------------------------------
(***************************************************************************)
(* The read-aloud application (ReadAloudService.java, VoiceOneHost.java):    *)
(* request threads and the page's callbacks write volatile flags one by one, *)
(* and requests post JavaScript to the main thread, which a WebView runs.    *)
(* The page is not in the repository: a stand-in that is started, plays one  *)
(* thing at a time and reports what becomes of it.  A request is the writes  *)
(* and the posts its handler has still to make; flags no answer or decision   *)
(* depends on (state, lastError, lastChars) are left out.                    *)
(***************************************************************************)
EXTENDS Naturals, Sequences

CONSTANTS
  Callers,       \* requests, each a thread of its own
  Streams        \* stream ids

VARIABLES
  muted, voiceReady, flags,   \* flags: speaking, streaming and activeStreamId
  caller,        \* a request: its route, stream and the steps it has still to take
  posted,        \* what the main thread has still to run
  page,          \* the WebView: absent, loading, quiet, or what it plays
  callbacks,     \* what the page has reported and the bridge has not handled
  bridge,        \* the steps of the callback that is being handled
  ended,         \* the service is being destroyed: "posted" to the main thread, or done
  unheard        \* history: since speaking was last written, speech failed and nothing reported it

readVars == <<muted, voiceReady, flags, caller, posted, page, callbacks, bridge, ended, unheard>>

NoStream == ""
Set(flag, value) == [do |-> flag, arg |-> value]
Post(what, id) == [do |-> "post", arg |-> [js |-> what, id |-> id]]
Silenced == <<Set("speaking", FALSE), Set("streaming", FALSE), Set("active", NoStream)>>
Prepare == Post("prepare", NoStream)

Routes == {"prepare", "resume", "stop", "speak", "start", "chunk", "end"}
ReadTypeOK ==
  /\ muted \in BOOLEAN /\ voiceReady \in BOOLEAN
  /\ flags.speaking \in BOOLEAN /\ flags.streaming \in BOOLEAN
  /\ flags.active \in Streams \union {NoStream}
  /\ \A c \in Callers : caller[c].route \in Routes \union {"none"} /\ caller[c].id \in Streams \union {NoStream}
  /\ page \in {"absent", "loading", "quiet", "playing"}
  /\ ended \in {"no", "posted", "yes"} /\ unheard \in BOOLEAN
  /\ \A k \in DOMAIN callbacks : callbacks[k] \in {"bridge", "ready", "spoken", "streamed", "stopped", "error"}

ReadInit ==
  /\ muted = FALSE /\ voiceReady = FALSE
  /\ flags = [speaking |-> FALSE, streaming |-> FALSE, active |-> NoStream]
  /\ caller = [c \in Callers |-> [route |-> "none", id |-> NoStream, at |-> "new", todo |-> <<>>]]
  /\ posted = <<Prepare.arg>> /\ page = "absent" /\ callbacks = <<>> /\ bridge = <<>>
  /\ ended = "no" /\ unheard = FALSE

-------------------------------------------------------------------------------
(* onDestroy closes the server, so that no request comes, and posts the end.      *)
DestroyHost ==
  /\ ended = "no" /\ ended' = "posted"
  /\ posted' = Append(posted, Post("destroy", NoStream).arg)
  /\ UNCHANGED <<muted, voiceReady, flags, caller, page, callbacks, bridge, unheard>>

(* handle, up to its test of muted; a request that is refused there is over.     *)
Audible == {"speak", "start", "chunk"}
Arrive(c, route, id) ==
  /\ caller[c].at = "new" /\ ended = "no"
  /\ route \in {"start", "chunk", "end"} <=> id # NoStream
  /\ caller' = [caller EXCEPT ![c] =
       [route |-> route, id |-> id, todo |-> <<>>,
        at |-> IF route \in Audible /\ muted THEN "over" ELSE "host"]]
  /\ UNCHANGED <<muted, voiceReady, flags, posted, page, callbacks, bridge, ended, unheard>>

(* The host's test, and the writes and posts that follow it.                    *)
Speak == <<Set("speaking", TRUE), Set("streaming", FALSE), Set("active", NoStream), Post("speak", NoStream)>>
StreamStart(id) ==
  <<Set("active", id), Set("speaking", TRUE), Set("streaming", TRUE), Post("start", id)>>
Admitted(c) == voiceReady /\ (caller[c].route \in {"chunk", "end"} => caller[c].id = flags.active)
Program(c) ==
  LET r == caller[c].route  id == caller[c].id
  IN CASE r = "prepare" -> <<Prepare>>
       [] r = "resume" -> <<Set("muted", FALSE), Prepare>>
       [] r = "stop" -> <<Set("muted", TRUE)>> \o Silenced \o <<Post("stop", NoStream)>>
       [] r = "speak" -> IF Admitted(c) THEN Speak ELSE <<Prepare>>
       [] r = "start" -> IF Admitted(c) THEN StreamStart(id) ELSE <<Prepare>>
       [] OTHER -> IF Admitted(c) THEN <<Post(r, id)>> ELSE <<>>
Decides(c) ==
  /\ caller[c].at = "host"
  /\ caller' = [caller EXCEPT ![c].at = "runs", ![c].todo = Program(c)]
  /\ UNCHANGED <<muted, voiceReady, flags, posted, page, callbacks, bridge, ended, unheard>>

(* A write or a post, of a request or of a callback.                            *)
Performs(step) ==
  /\ muted' = IF step.do = "muted" THEN step.arg ELSE muted
  /\ voiceReady' = IF step.do = "ready" THEN step.arg ELSE voiceReady
  /\ flags' = IF step.do \in {"speaking", "streaming", "active"} THEN [flags EXCEPT ![step.do] = step.arg] ELSE flags
  /\ posted' = IF step.do = "post" THEN Append(posted, step.arg) ELSE posted
  /\ unheard' = (unheard /\ step.do # "speaking")
CallerStep(c) ==
  /\ caller[c].todo # <<>>
  /\ Performs(Head(caller[c].todo))
  /\ caller' = [caller EXCEPT ![c].todo = Tail(@)]
  /\ UNCHANGED <<page, callbacks, bridge, ended>>

-------------------------------------------------------------------------------
(* The main thread: start makes a WebView if there is none; anything else goes to   *)
(* the page if there is one; destroy ends it and clears the flags.  (A request     *)
(* that is late makes the host a WebView again.)  A script that throws changes the  *)
(* host's state only, and one whose promise is rejected changes nothing.          *)
Reports(cb) == callbacks' = Append(callbacks, cb)
MainDestroys ==
  /\ posted # <<>> /\ Head(posted).js = "destroy" /\ posted' = Tail(posted)
  /\ page' = "absent" /\ ended' = "yes" /\ callbacks' = <<>> /\ voiceReady' = FALSE
  /\ flags' = [speaking |-> FALSE, streaming |-> FALSE, active |-> NoStream]
  /\ UNCHANGED <<muted, caller, bridge, unheard>>
MainRuns ==
  /\ posted # <<>> /\ posted' = Tail(posted)
  /\ LET js == Head(posted).js
     IN \/ js = "prepare" /\ page = "absent" /\ page' \in {"loading", "absent"} /\ UNCHANGED callbacks
        \/ js = "prepare" /\ page \in {"quiet", "playing"} /\ UNCHANGED page /\ Reports("ready")
        \/ js \in {"speak", "start"} /\ page \in {"quiet", "playing"} /\ page' = "playing" /\ UNCHANGED callbacks
        \/ js = "stop" /\ page \in {"quiet", "playing"} /\ page' = "quiet" /\ Reports("stopped")
        \/ /\ js \in {"chunk", "end"} \/ page = "loading" \/ (page = "absent" /\ js # "prepare")
           /\ js # "destroy" /\ UNCHANGED <<page, callbacks>>
  /\ UNCHANGED <<muted, voiceReady, flags, caller, bridge, ended, unheard>>
Plays(js) == js.js \in {"speak", "start"}
ScriptFails ==
  /\ posted # <<>> /\ page # "absent" /\ Head(posted).js # "destroy" /\ posted' = Tail(posted)
  /\ unheard' = (unheard \/ Plays(Head(posted)))
  /\ UNCHANGED <<muted, voiceReady, flags, caller, page, callbacks, bridge, ended>>
PageLoads ==
  /\ page = "loading" /\ page' = "quiet" /\ Reports("bridge")
  /\ UNCHANGED <<muted, voiceReady, flags, caller, posted, bridge, ended, unheard>>
(* What is played comes to its end or fails; its promise may be rejected alone.     *)
PageEnds(cb) ==
  /\ page = "playing" /\ page' = "quiet" /\ Reports(cb)
  /\ UNCHANGED <<muted, voiceReady, flags, caller, posted, bridge, ended, unheard>>
PageGivesUp ==
  /\ page = "playing" /\ page' = "quiet" /\ unheard' = TRUE
  /\ UNCHANGED <<muted, voiceReady, flags, caller, posted, callbacks, bridge, ended>>

(* NativeBridge: one callback at a time, on a thread of its own.                *)
ErrorUnnoticed == <<>>     \* mutant: onError leaves the flags as they are
ErrorNoticed == <<Set("speaking", FALSE), Set("streaming", FALSE)>>
Handler(cb) ==
  CASE cb = "bridge" -> <<Prepare>>
    [] cb = "ready" -> <<Set("ready", TRUE)>>
    [] cb = "spoken" -> <<Set("speaking", FALSE)>>
    [] cb = "error" -> ErrorNoticed
    [] OTHER -> Silenced
BridgeTakes ==
  /\ bridge = <<>> /\ callbacks # <<>>
  /\ bridge' = Handler(Head(callbacks)) /\ callbacks' = Tail(callbacks)
  /\ UNCHANGED <<muted, voiceReady, flags, caller, posted, page, ended, unheard>>
BridgeStep ==
  /\ bridge # <<>>
  /\ Performs(Head(bridge)) /\ bridge' = Tail(bridge)
  /\ UNCHANGED <<caller, page, callbacks, ended>>

ReadNext ==
  \/ MainRuns \/ ScriptFails \/ PageGivesUp \/ MainDestroys \/ PageLoads \/ BridgeTakes \/ BridgeStep \/ DestroyHost
  \/ \E cb \in {"spoken", "streamed", "error"} : PageEnds(cb)
  \/ \E c \in Callers :
       \/ Decides(c) \/ CallerStep(c)
       \/ \E r \in Routes, id \in Streams \union {NoStream} : Arrive(c, r, id)

ReadSpec == ReadInit /\ [][ReadNext]_readVars

-------------------------------------------------------------------------------
(* While the host lives, speaking is true only as long as something can still make *)
(* it false: a request or a callback on its way to do so, something to play or     *)
(* being played, or a report of its end; unless speech failed after speaking was    *)
(* last written and no report told of it (a script that threw, a swallowed          *)
(* rejection).  However requests, callbacks and the main thread interleave, the     *)
(* status does not stay at speaking otherwise.                                  *)
Clears(todo) == \E k \in DOMAIN todo : todo[k] = Set("speaking", FALSE)
SpeakingEnds ==
  flags.speaking /\ ended # "yes" =>
    \/ page = "playing" \/ unheard \/ Clears(bridge)
    \/ \E k \in DOMAIN posted : Plays(posted[k])
    \/ \E k \in DOMAIN callbacks : callbacks[k] \in {"spoken", "streamed", "stopped", "error"}
    \/ \E c \in Callers :
         Clears(caller[c].todo)
         \/ \E k \in DOMAIN caller[c].todo : caller[c].todo[k].do = "post" /\ Plays(caller[c].todo[k].arg)
===============================================================================
