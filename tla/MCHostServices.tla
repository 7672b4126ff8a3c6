---------------------------- MODULE MCHostServices ----------------------------
(* The host's services that share no state, checked side by side: a behaviour  *)
(* is one of a single service, and the others stay in their initial states.    *)
EXTENDS SearchSessions, WindowsUi, FileMove, AppendTransfer, VoiceGateway, GpuService, GpuWorkstation,
        DesktopRuns, ContentSearch, AuditHistory, McpIngress, RemoteMcp, TLC

VARIABLE side

MCTrees == {<<"dir", "two", "hit">>, <<"skip", "huge", "deep">>}
MCDevice == "a" :> 1 @@ "b" :> 1 @@ "z" :> 2
MCListing == "top" :> {"link", "f1", "sub", "f2"} @@ "sub" :> {"huge", "f3", "low"} @@ "low" :> {}
MCLines == "f1" :> <<FALSE, TRUE>> @@ "f2" :> <<TRUE, FALSE>> @@ "f3" :> <<TRUE, TRUE>>
MCSize == "f1" :> 1 @@ "f2" :> 2 @@ "f3" :> 2
MCNames == {"f1", "sub", "low", "link"}

deskVars == <<sVars, uiVars, fileVars, appendVars, runVars, findVars, auditVars>>
netVars == <<gateVars, gpuVars, wsVars, ingressVars, remoteVars>>
Services == {"search", "ui", "files", "append", "voice", "gpu", "workstation", "runs", "find", "audit", "ingress", "remote"}
HostInit ==
  /\ side \in Services
  /\ SearchInit /\ UiInit /\ FileInit /\ AppendInit /\ GatewayInit /\ GpuInit /\ GpuWorkstationInit
  /\ DesktopRunsInit /\ ContentSearchInit /\ AuditInit /\ IngressInit /\ RemoteInit
  /\ entry["a"] = 1      \* "a" stands for "b" too, and a move to "z" for one from it
  \* what a service's behaviours choose is fixed where it rests
  /\ side # "gpu" => \A r \in Requests : kind[r] = "inference"
  /\ side # "runs" => \A c \in Collections : run[c].kind = "pdf"
  /\ side # "find" => find.for = "name" /\ find.limit = 1
  /\ side # "ingress" => /\ ingress = [hosted |-> TRUE, resource |-> TRUE, upstream |-> "self"]
                         /\ \A q \in Forwards : asks[q].path = "mcp" /\ ~asks[q].origin /\
                              asks[q].post /\ asks[q].bearer /\ asks[q].json

DeskNext ==
  \/ side = "search" /\ SearchNext
     /\ UNCHANGED <<uiVars, fileVars, appendVars, runVars, findVars, auditVars>>
  \/ side = "ui" /\ UiNext
     /\ UNCHANGED <<sVars, fileVars, appendVars, runVars, findVars, auditVars>>
  \/ side = "files" /\ FileNext
     /\ UNCHANGED <<sVars, uiVars, appendVars, runVars, findVars, auditVars>>
  \/ side = "append" /\ AppendNext
     /\ UNCHANGED <<sVars, uiVars, fileVars, runVars, findVars, auditVars>>
  \/ side = "runs" /\ DesktopRunsNext
     /\ UNCHANGED <<sVars, uiVars, fileVars, appendVars, findVars, auditVars>>
  \/ side = "find" /\ ContentSearchNext
     /\ UNCHANGED <<sVars, uiVars, fileVars, appendVars, runVars, auditVars>>
  \/ side = "audit" /\ AuditNext
     /\ UNCHANGED <<sVars, uiVars, fileVars, appendVars, runVars, findVars>>
NetNext ==
  \/ side = "voice" /\ GatewayNext
     /\ UNCHANGED <<gpuVars, wsVars, ingressVars, remoteVars>>
  \/ side = "gpu" /\ GpuNext
     /\ UNCHANGED <<gateVars, wsVars, ingressVars, remoteVars>>
  \/ side = "workstation" /\ GpuWorkstationNext
     /\ UNCHANGED <<gateVars, gpuVars, ingressVars, remoteVars>>
  \/ side = "ingress" /\ IngressNext
     /\ UNCHANGED <<gateVars, gpuVars, wsVars, remoteVars>>
  \/ side = "remote" /\ RemoteNext
     /\ UNCHANGED <<gateVars, gpuVars, wsVars, ingressVars>>
HostNext ==
  /\ UNCHANGED side
  /\ \/ DeskNext /\ UNCHANGED netVars
     \/ NetNext /\ UNCHANGED deskVars

HostSpec == HostInit /\ [][HostNext]_<<side, deskVars, netVars>>

(* Every service keeps its variables in their types.                           *)
HostTypes ==
  /\ SearchTypeOK /\ UiTypeOK /\ FileTypeOK /\ AppendTypeOK /\ GatewayTypeOK /\ GpuTypeOK
  /\ GpuWorkstationTypeOK /\ DesktopRunsTypeOK /\ ContentSearchTypeOK /\ AuditTypeOK /\ IngressTypeOK
  /\ RemoteTypeOK
===============================================================================
