------------------------------- MODULE RemoteMcp -------------------------------
(***************************************************************************)
(* The remote read-only MCP transport (apps/desktop/remote-mcp-http.mjs):   *)
(* every admitted request gets an MCP instance of its own, which is closed   *)
(* when its response has finished.  The SDK is external: it ends a response  *)
(* while its handler runs or after it.                                       *)
(***************************************************************************)
CONSTANT McpRequests

VARIABLES
  mcpHandler,    \* where the request's handler is
  response,      \* open, ended by res.end, finished, or gone with its client
  instance,      \* the request's MCP server and transport
  awaited        \* requests whose 'finish' will close their instance

remoteVars == <<mcpHandler, response, instance, awaited>>

RemoteTypeOK ==
  /\ mcpHandler \in [McpRequests -> {"new", "authenticate", "body", "connect", "handle", "over"}]
  /\ response \in [McpRequests -> {"open", "ended", "finished", "gone"}]
  /\ instance \in [McpRequests -> {"none", "open", "closed"}]
  /\ awaited \subseteq McpRequests

RemoteInit ==
  /\ mcpHandler = [q \in McpRequests |-> "new"] /\ response = [q \in McpRequests |-> "open"]
  /\ instance = [q \in McpRequests |-> "none"] /\ awaited = {}

-------------------------------------------------------------------------------
Moves(q, from, at) == mcpHandler[q] = from /\ mcpHandler' = [mcpHandler EXCEPT ![q] = at]
Ended(q) == [response EXCEPT ![q] = IF @ = "open" THEN "ended" ELSE @]
(* Metadata, an unknown path or a browser's origin; the client is not approved, or the *)
(* method or type is wrong; the body is too large or no JSON.                     *)
RefusesCall(q) ==
  /\ \E at \in {"new", "authenticate", "body"} : Moves(q, at, "over")
  /\ response' = Ended(q) /\ UNCHANGED <<instance, awaited>>
Authenticates(q) == Moves(q, "new", "authenticate") /\ UNCHANGED <<response, instance, awaited>>
ReadsBody(q) == Moves(q, "authenticate", "body") /\ UNCHANGED <<response, instance, awaited>>
Connects(q) ==
  /\ Moves(q, "body", "connect") /\ instance' = [instance EXCEPT ![q] = "open"]
  /\ UNCHANGED <<response, awaited>>
HandlesRequest(q) == Moves(q, "connect", "handle") /\ UNCHANGED <<response, instance, awaited>>
SdkEnds(q) ==
  /\ mcpHandler[q] \in {"handle", "over"} /\ instance[q] = "open" /\ response[q] = "open"
  /\ response' = Ended(q) /\ UNCHANGED <<mcpHandler, instance, awaited>>

(* The finally block, after an error too, and its answer unless a head was sent.   *)
ClosesAtOnce(q) ==    \* mutant: mcp.close() without a look at the response
  instance' = [instance EXCEPT ![q] = "closed"] /\ UNCHANGED awaited
ClosesWhenFinished(q) ==
  IF response[q] = "finished" THEN instance' = [instance EXCEPT ![q] = "closed"] /\ UNCHANGED awaited
  ELSE awaited' = awaited \union {q} /\ UNCHANGED instance
HandlerEnds(q) ==
  /\ Moves(q, "handle", "over") /\ ClosesWhenFinished(q)
  /\ UNCHANGED response
HandlerThrows(q) ==
  /\ \E at \in {"connect", "handle"} : Moves(q, at, "over")
  /\ ClosesWhenFinished(q)
  /\ response' = Ended(q) \/ (mcpHandler[q] = "handle" /\ UNCHANGED response)

ResponseFinishes(q) ==
  /\ response[q] = "ended" /\ response' = [response EXCEPT ![q] = "finished"]
  /\ instance' = [instance EXCEPT ![q] = IF q \in awaited THEN "closed" ELSE @]
  /\ awaited' = awaited \ {q}
  /\ UNCHANGED mcpHandler
ClientGone(q) ==
  /\ response[q] \in {"open", "ended"} /\ response' = [response EXCEPT ![q] = "gone"]
  /\ UNCHANGED <<mcpHandler, instance, awaited>>

RemoteNext ==
  \E q \in McpRequests :
    \/ RefusesCall(q) \/ Authenticates(q) \/ ReadsBody(q) \/ Connects(q) \/ HandlesRequest(q)
    \/ SdkEnds(q) \/ HandlerEnds(q) \/ HandlerThrows(q) \/ ResponseFinishes(q) \/ ClientGone(q)
RemoteSpec == RemoteInit /\ [][RemoteNext]_remoteVars

-------------------------------------------------------------------------------
(* An instance lives exactly as long as its answer needs it: it is not closed while   *)
(* the response may still be written, whether the SDK ends it before or after the      *)
(* handler does, and none is left open behind a response that has finished.        *)
InstanceOutlastsAnswer ==
  \A q \in McpRequests :
    /\ instance[q] = "closed" => response[q] = "finished"
    /\ response[q] = "finished" /\ mcpHandler[q] = "over" => instance[q] # "open"
===============================================================================
