------------------------------ MODULE McpIngress ------------------------------
(***************************************************************************)
(* The public MCP ingress: the handler of api/mcp.mjs, alone or behind the   *)
(* Node server of operator/hosting/start-public-mcp-ingress.mjs, forwards a  *)
(* request to one upstream and streams its answer back.  A header is what a  *)
(* guard makes of it, a body the chunks that were counted against the limit. *)
(***************************************************************************)
EXTENDS Naturals

CONSTANTS
  Forwards,      \* requests
  BodyLimit,     \* MAX_BODY_BYTES, of both directions
  MaxBody        \* bound of the model: chunks of a body

ASSUME IngressAssumption == BodyLimit \in Nat \ {0} /\ MaxBody \in Nat

VARIABLES
  ingress,       \* the environment: behind the Node server, the resource and its upstream
  asks,          \* a request's headers, as the guards see them
  stage,         \* how far the handler is with it
  body,          \* chunks of the request's body
  upstream,      \* the upstream's answer: chunks sent, chunks passed on, whether it is over
  heads          \* history: calls of writeHead for a request

ingressVars == <<ingress, asks, stage, body, upstream, heads>>

Headers == [path : {"mcp", "healthz", "metadata", "other"}, post : BOOLEAN, origin : BOOLEAN,
            bearer : BOOLEAN, json : BOOLEAN]
Bindings == [hosted : BOOLEAN, resource : BOOLEAN, upstream : {"unbound", "self", "bound"}]
Stages == {"new", "body", "asked", "streaming", "replied", "complete", "broken"}

IngressTypeOK ==
  /\ ingress \in Bindings /\ asks \in [Forwards -> Headers] /\ stage \in [Forwards -> Stages]
  /\ body \in [Forwards -> 0 .. BodyLimit] /\ heads \in [Forwards -> Nat]
  /\ upstream \in [Forwards -> [sent : 0 .. MaxBody, passed : 0 .. BodyLimit, over : BOOLEAN]]

IngressInit ==
  /\ ingress \in Bindings /\ asks \in [Forwards -> Headers]
  /\ stage = [q \in Forwards |-> "new"]
  /\ body = [q \in Forwards |-> 0] /\ heads = body
  /\ upstream = [q \in Forwards |-> [sent |-> 0, passed |-> 0, over |-> FALSE]]

-------------------------------------------------------------------------------
To(q, from, at) == stage[q] = from /\ stage' = [stage EXCEPT ![q] = at]
WritesHead(q) == heads' = [heads EXCEPT ![q] = @ + 1]
(* jsonResponse, and the Node server's json: a whole answer of its own.           *)
Replies(q, from) ==
  /\ To(q, from, "replied") /\ WritesHead(q)
  /\ UNCHANGED <<ingress, asks, body, upstream>>

(* The metadata's handler answers at once; so do the guards, up to the await of the   *)
(* body; the Node server routes by path first.                                  *)
Metadata(q) == asks[q].path = "metadata" /\ Replies(q, "new")
Routed(q) == ingress.hosted => asks[q].path = "mcp"
Admitted(q) ==
  /\ Routed(q) /\ asks[q].post /\ ~asks[q].origin /\ ingress.resource /\ asks[q].bearer /\ asks[q].json
OpenRequest(q) ==
  /\ asks[q].path # "metadata"
  /\ IF Admitted(q) THEN To(q, "new", "body") /\ UNCHANGED <<ingress, asks, body, upstream, heads>>
     ELSE Replies(q, "new")
BodyChunk(q) ==
  IF body[q] < BodyLimit
  THEN /\ stage[q] = "body" /\ body' = [body EXCEPT ![q] = @ + 1]
       /\ UNCHANGED <<ingress, asks, stage, upstream, heads>>
  ELSE Replies(q, "body")
(* It is no JSON, or the client breaks it off.                                  *)
BodyFails(q) == Replies(q, "body")

(* resolveUpstreamUrl, guardedFetch of the Node server, and the call.             *)
UpstreamBound == ingress.upstream # "unbound"
Qualified == UpstreamBound /\ (ingress.hosted => ingress.upstream # "self")
AskUpstream(q) ==
  IF Qualified THEN To(q, "body", "asked") /\ UNCHANGED <<ingress, asks, body, upstream, heads>>
  ELSE Replies(q, "body")
(* No answer in time, a redirect, or one that is neither JSON nor an event stream.  *)
UpstreamRefuses(q) == Replies(q, "asked")
UpstreamAnswers(q) ==
  /\ To(q, "asked", "streaming") /\ WritesHead(q)
  /\ UNCHANGED <<ingress, asks, body, upstream>>
UpstreamSends(q) ==
  /\ stage[q] = "streaming" /\ ~upstream[q].over /\ upstream[q].sent < MaxBody
  /\ upstream' = [upstream EXCEPT ![q].sent = @ + 1]
  /\ UNCHANGED <<ingress, asks, stage, body, heads>>
UpstreamEnds(q) ==
  /\ stage[q] = "streaming" /\ ~upstream[q].over
  /\ upstream' = [upstream EXCEPT ![q].over = TRUE]
  /\ UNCHANGED <<ingress, asks, stage, body, heads>>

(* sizeGuard and the pipeline: beyond the limit, or when a side or a timer breaks    *)
(* it off, the response is destroyed and never ended.                           *)
Truncates(q) == stage' = [stage EXCEPT ![q] = "complete"] /\ UNCHANGED upstream   \* mutant: res.end()
GuardBreaks(q) == stage' = [stage EXCEPT ![q] = "broken"] /\ UNCHANGED upstream
Passes(q) ==
  /\ stage[q] = "streaming" /\ upstream[q].passed < upstream[q].sent
  /\ IF upstream[q].passed < BodyLimit
     THEN upstream' = [upstream EXCEPT ![q].passed = @ + 1] /\ UNCHANGED stage
     ELSE GuardBreaks(q)
  /\ UNCHANGED <<ingress, asks, body, heads>>
PipelineBreaks(q) ==
  /\ stage[q] = "streaming" /\ GuardBreaks(q)
  /\ UNCHANGED <<ingress, asks, body, heads>>
PipelineEnds(q) ==
  /\ upstream[q].over /\ upstream[q].passed = upstream[q].sent
  /\ To(q, "streaming", "complete")
  /\ UNCHANGED <<ingress, asks, body, upstream, heads>>

IngressNext ==
  \E q \in Forwards :
    \/ Metadata(q) \/ OpenRequest(q) \/ BodyChunk(q) \/ BodyFails(q) \/ AskUpstream(q)
    \/ UpstreamRefuses(q) \/ UpstreamAnswers(q) \/ UpstreamSends(q) \/ UpstreamEnds(q)
    \/ Passes(q) \/ PipelineBreaks(q) \/ PipelineEnds(q)
IngressSpec == IngressInit /\ [][IngressNext]_ingressVars

-------------------------------------------------------------------------------
(* The ingress forwards and answers whole or not at all: a response that was ended   *)
(* carries all that the upstream sent, which came to its end within the limit; what  *)
(* was broken off stays broken; one head is written; and nothing reaches the         *)
(* upstream, which behind the Node server is never the resource itself, that the     *)
(* guards did not admit.                                                        *)
ResponseIsWhole ==
  \A q \in Forwards :
    /\ stage[q] = "complete" => upstream[q].over /\ upstream[q].passed = upstream[q].sent
    /\ heads[q] = (IF stage[q] \in {"new", "body", "asked"} THEN 0 ELSE 1)
    /\ stage[q] \notin {"new", "body", "replied"} => Admitted(q) /\ Qualified
===============================================================================
