-------------------------- MODULE HostServicesProofs --------------------------
(***************************************************************************)
(* Theorems about services of the host, for any number of requests, calls,  *)
(* observations, texts, processes and limits: the owner's switch of the GPU  *)
(* service, the text that a submit sends, the admission of sealed inferences *)
(* by the workstation, the outcomes of the desktop's runs, the answers of    *)
(* the public ingress, the instances of the remote transport, the logins and  *)
(* the proof of a conversation of the voice gateway, and the audit; at last   *)
(* their types, and all of them side by side.                                *)
(***************************************************************************)
EXTENDS MCHostServices, FileServicesProofs

-------------------------------------------------------------------------------
(* The GPU service.  What was pending at an opt-out is aborted as long as its   *)
(* handler runs, and an opt-out waits for the provider with enabled = FALSE.     *)
OptOutInv ==
  /\ \A r \in optedOut : r \in aborted \/ request[r] = "error"
  /\ \A c \in Controls : control[c].wants = "off" =>
       control[c].at # "active" /\ (control[c].at = "describe" => ~control[c].enabled)

GpuInv == GpuTypeOK /\ OptOutInv

(* Every initial state satisfies the invariant. *)
LEMMA GpuInitInv == GpuInit => GpuInv
  BY DEF GpuInit, GpuInv, GpuTypeOK, OptOutInv, InFlight

(* Every step keeps the invariant. *)
LEMMA GpuNextInv == GpuInv /\ [GpuNext]_gpuVars => GpuInv'
<1> SUFFICES ASSUME GpuInv, [GpuNext]_gpuVars PROVE GpuInv'
  OBVIOUS
<1> USE DEF GpuInv, GpuTypeOK, OptOutInv, InFlight
<1>1. CASE ServiceDies
  BY <1>1 DEF ServiceDies
<1>2. ASSUME NEW r \in Requests, OpenInference(r) PROVE GpuInv'
  BY <1>2 DEF OpenInference, HandlerGoes
<1>3. ASSUME NEW r \in Requests, OpenPreview(r) PROVE GpuInv'
  BY <1>3 DEF OpenPreview, HandlerGoes
<1>4. ASSUME NEW r \in Requests, Authenticate(r) PROVE GpuInv'
  BY <1>4 DEF Authenticate, HandlerGoes
<1>5. ASSUME NEW r \in Requests, ReadBody(r) PROVE GpuInv'
  BY <1>5 DEF ReadBody, HandlerGoes
<1>6. ASSUME NEW r \in Requests, Answer(r) PROVE GpuInv'
  <2>1. r \notin aborted
    BY <1>6 DEF Answer, Stands
  <2> QED
    BY <1>6, <2>1 DEF Answer, Ends, HandlerGoes
<1>7. ASSUME NEW r \in Requests, Refuse(r) PROVE GpuInv'
  <2>1. PICK at \in InFlight : Ends(r, at, "error")
    BY <1>7 DEF Refuse
  <2> QED
    BY <2>1 DEF Ends, HandlerGoes
<1>8. ASSUME NEW r \in Requests, ClientAborts(r) PROVE GpuInv'
  BY <1>8 DEF ClientAborts
<1>9. ASSUME NEW c \in Controls, NEW wants \in {"on", "off", "status"}, BeginControl(c, wants) PROVE GpuInv'
  BY <1>9 DEF BeginControl
<1>10. ASSUME NEW c \in Controls, SetPreference(c) PROVE GpuInv'
  <2>1. \/ /\ control[c].wants = "on" /\ preference' = "on" /\ UNCHANGED <<aborted, optedOut>>
           /\ control' = [control EXCEPT ![c].at = "describe", ![c].enabled = TRUE]
        \/ /\ control[c].wants = "off" /\ preference' = "off"
           /\ aborted' = aborted \union pending /\ optedOut' = optedOut \union pending
           /\ control' = [control EXCEPT ![c].at = "describe", ![c].enabled = FALSE]
    BY <1>10 DEF SetPreference, Cancelled
  <2>2. UNCHANGED <<kind, request, pending>>
    BY <1>10 DEF SetPreference
  <2> QED
    BY <2>1, <2>2
<1>11. ASSUME NEW c \in Controls, ReadPreference(c) PROVE GpuInv'
  <2>1. \/ control' = [control EXCEPT ![c].at = "describe", ![c].enabled = TRUE]
        \/ control' = [control EXCEPT ![c].at = "describe", ![c].enabled = FALSE]
    BY <1>11 DEF ReadPreference, Enabled
  <2>2. control[c].wants = "status" /\ UNCHANGED <<preference, kind, request, pending, aborted, optedOut>>
    BY <1>11 DEF ReadPreference
  <2> QED
    BY <2>1, <2>2
<1>12. ASSUME NEW c \in Controls, ReplyStatus(c) PROVE GpuInv'
  BY <1>12 DEF ReplyStatus
<1>13. ASSUME NEW c \in Controls, ControlFails(c) PROVE GpuInv'
  BY <1>13 DEF ControlFails
<1>14. CASE UNCHANGED gpuVars
  BY <1>14 DEF gpuVars
<1> QED
  BY <1>1, <1>2, <1>3, <1>4, <1>5, <1>6, <1>7, <1>8, <1>9, <1>10, <1>11, <1>12, <1>13, <1>14 DEF GpuNext

(* What was pending when the owner opted out is never answered with a result, and  *)
(* an opt-out is never answered as active (GpuService), for any number of requests *)
(* and controls.                                                               *)
THEOREM OptOutTheorem == GpuSpec => []OptOutHolds
<1>1. GpuInv => OptOutHolds
  BY DEF GpuInv, GpuTypeOK, OptOutInv, OptOutHolds, InFlight
<1> QED
  BY <1>1, GpuInitInv, GpuNextInv, PTL DEF GpuSpec

(* The controllers the routes hold are those of the inferences under way: none is   *)
(* leaked by a refusal, an abort or a restart, and no request under way lacks one.   *)
THEOREM GpuTypes == GpuSpec => []GpuTypeOK
<1>1. GpuInv => GpuTypeOK
  BY DEF GpuInv
<1> QED
  BY <1>1, GpuInitInv, GpuNextInv, PTL DEF GpuSpec

-------------------------------------------------------------------------------
(* The observed windows.  A text that an observation is marked with, or that a     *)
(* submit carries, has been read back under it; and between the comparison and the *)
(* button the composer holds that text, or the call is marked as disturbed.        *)
Views == [process : Nat, title : Nat, used : BOOLEAN,
          text : Texts \union {NoText}, submitted : BOOLEAN, aged : BOOLEAN]
CallOf == [op : {"none", "input", "submit"}, obs : Observations \union {"none"},
           text : Texts \union {NoText}, at : Steps]
(* A call whose text is among those that have been read back, once it relies on it. *)
Sound(e, known) ==
  /\ e.at # "idle" => e.obs \in Observations
  /\ e.op = "submit" \/ e.at = "result" => <<e.obs, e.text>> \in known \/ e.at = "error"
  /\ e.op = "submit" => e.at \notin {"set", "read"}
  /\ e.op = "input" => e.at \notin {"verify", "press"}
  /\ e.op = "none" => e.at = "idle"

WindowInv == window \in [process : Nat, title : Nat, text : Texts \union {NoText}]
ViewInv ==
  /\ view \in [Observations -> Views]
  /\ \A o \in Observations : view[o].used => <<o, view[o].text>> \in readBack
CallInv == call \in [UiCalls -> CallOf] /\ \A c \in UiCalls : Sound(call[c], readBack)
Holding(c) == call[c].at = "press" /\ c \notin disturbed
HeldInv == \A c \in UiCalls : Holding(c) => window.text = call[c].text
SentInv == \A s \in sent : s.disturbed \/ <<s.obs, s.text>> \in readBack

UiInv == WindowInv /\ ViewInv /\ CallInv /\ HeldInv /\ SentInv

(* What the marks of an observation leave alone. *)
LEMMA ViewMarks ==
  ASSUME NEW v \in Views
  PROVE  /\ LET a == [v EXCEPT !.aged = TRUE]
            IN a \in Views /\ a.used = v.used /\ a.text = v.text
         /\ LET b == [v EXCEPT !.submitted = TRUE]
            IN b \in Views /\ b.used = v.used /\ b.text = v.text
  BY DEF Views
LEMMA ViewInput ==
  ASSUME NEW v \in Views, NEW t \in Texts \union {NoText}
  PROVE  LET a == [v EXCEPT !.used = TRUE, !.text = t]
         IN a \in Views /\ a.text = t
  BY DEF Views

(* A step that gives one observation another view, with no text that was not read    *)
(* back, keeps what is said of views.                                           *)
LEMMA ViewStep ==
  ASSUME ViewInv, NEW o \in Observations, NEW v \in Views,
         v.used => <<o, v.text>> \in readBack,
         view' = [view EXCEPT ![o] = v], UNCHANGED readBack
  PROVE  ViewInv'
<1>1. \A p \in Observations : view'[p] = IF p = o THEN v ELSE view[p]
  BY DEF ViewInv
<1> QED
  BY <1>1 DEF ViewInv

(* A step that changes one call to a sound one, and forgets no text that was read     *)
(* back, keeps what is said of calls.                                          *)
LEMMA CallStep ==
  ASSUME CallInv, NEW c \in UiCalls, NEW e \in CallOf, readBack \subseteq readBack',
         Sound(e, readBack'), call' = [call EXCEPT ![c] = e]
  PROVE  CallInv'
<1>1. \A d \in UiCalls : call'[d] = IF d = c THEN e ELSE call[d]
  BY DEF CallInv
<1>2. \A d \in UiCalls : Sound(call[d], readBack')
  BY DEF CallInv, Sound
<1> QED
  BY <1>1, <1>2 DEF CallInv

(* A call that moves to another place of its script. *)
LEMMA CallMoves ==
  ASSUME NEW e \in CallOf, NEW to \in Steps
  PROVE  LET d == [e EXCEPT !.at = to]
         IN d \in CallOf /\ d.op = e.op /\ d.obs = e.obs /\ d.text = e.text /\ d.at = to
  BY DEF CallOf

(* A step that moves a call, and that forgets no text that was read back, keeps what *)
(* is said of calls, if the call is sound at its new place.                       *)
LEMMA CallMoveStep ==
  ASSUME CallInv, NEW c \in UiCalls, NEW to \in Steps, readBack \subseteq readBack',
         call[c].at # "idle", to # "idle",
         call' = [call EXCEPT ![c].at = to],
         to = "result" => <<call[c].obs, call[c].text>> \in readBack',
         call[c].op = "submit" => to \notin {"set", "read"},
         call[c].op = "input" => to \notin {"verify", "press"},
         call[c].at = "error" => to = "error"
  PROVE  CallInv'
<1> DEFINE e == [call[c] EXCEPT !.at = to]
<1>1. e \in CallOf /\ e.op = call[c].op /\ e.obs = call[c].obs /\ e.text = call[c].text /\ e.at = to
  BY CallMoves DEF CallInv
<1>2. call' = [call EXCEPT ![c] = e]
  BY DEF CallInv
<1> HIDE DEF e
<1>3. Sound(e, readBack')
  BY <1>1 DEF Sound, CallInv
<1> QED
  BY <1>1, <1>2, <1>3, CallStep

(* A step that moves one call keeps what the others hold, if it marks those whose    *)
(* composer it changes; and a call that comes to its button holds its own text.     *)
LEMMA HeldStep ==
  ASSUME HeldInv, CallInv, NEW c \in UiCalls, NEW to \in Steps,
         call' = [call EXCEPT ![c].at = to],
         to = "press" => window'.text = call[c].text,
         disturbed \subseteq disturbed',
         window'.text # window.text => \A d \in UiCalls : call[d].at = "press" => d \in disturbed'
  PROVE  HeldInv'
<1> SUFFICES ASSUME NEW d \in UiCalls, Holding(d)' PROVE window'.text = call'[d].text
  BY DEF HeldInv
<1>1. d # c => call'[d] = call[d]
  OBVIOUS
<1>2. d = c => call'[d].at = to /\ call'[d].text = call[d].text
  BY DEF CallInv, CallOf
<1> QED
  BY <1>1, <1>2 DEF HeldInv, Holding

(* The same for a step that changes the window alone. *)
LEMMA HeldBecomes ==
  ASSUME HeldInv, NEW w, Becomes(w), UNCHANGED call PROVE HeldInv'
  BY DEF HeldInv, Holding, Becomes

(* Every initial state satisfies the invariant. *)
LEMMA UiInitInv == UiInit => UiInv
  BY DEF UiInit, UiInv, WindowInv, ViewInv, CallInv, HeldInv, Holding, Sound, SentInv, Blank, Idle, Views, CallOf, Steps

(* Every step keeps the invariant. *)
LEMMA UiNextInv == UiInv /\ [UiNext]_uiVars => UiInv'
<1> SUFFICES ASSUME UiInv, [UiNext]_uiVars PROVE UiInv'
  OBVIOUS
<1> USE DEF UiInv
<1>1. ASSUME NEW o \in Observations, Observe(o) PROVE UiInv'
  <2> DEFINE v == [Blank EXCEPT !.process = window.process, !.title = window.title]
  <2>1. view' = [view EXCEPT ![o] = v] /\ view[o] = Blank /\ UNCHANGED <<window, call, uiHistory>>
    BY <1>1 DEF Observe
  <2>2. v \in Views /\ ~v.used
    BY DEF Blank, Views, WindowInv
  <2> HIDE DEF v
  <2>3. ViewInv'
    BY <2>1, <2>2, ViewStep DEF uiHistory
  <2> QED
    BY <2>1, <2>3 DEF WindowInv, CallInv, HeldInv, Holding, SentInv, uiHistory
<1>2. ASSUME NEW o \in Observations, AgeObservation(o) PROVE UiInv'
  <2> DEFINE v == [view[o] EXCEPT !.aged = TRUE]
  <2>1. view' = [view EXCEPT ![o] = v] /\ UNCHANGED <<window, call, uiHistory>>
    BY <1>2 DEF AgeObservation
  <2>2. v \in Views /\ v.used = view[o].used /\ v.text = view[o].text
    BY ViewMarks DEF ViewInv
  <2> HIDE DEF v
  <2>3. ViewInv'
    BY <2>1, <2>2, ViewStep DEF ViewInv, uiHistory
  <2> QED
    BY <2>1, <2>3 DEF WindowInv, CallInv, HeldInv, Holding, SentInv, uiHistory
<1>3. ASSUME NEW c \in UiCalls, ScriptStep(c) PROVE UiInv'
  <2>1. CASE Find(c)
    <3>1. PICK to \in {"set", "verify", "error"} :
            /\ call' = [call EXCEPT ![c].at = to]
            /\ to = "set" => call[c].op = "input"
            /\ to = "verify" => call[c].op # "input"
      BY <2>1 DEF Find, At
    <3>2. UNCHANGED <<window, view, uiHistory>> /\ call[c].at = "find"
      BY <2>1 DEF Find, At
    <3>3. CallInv' /\ HeldInv'
      BY <3>1, <3>2, CallMoveStep, HeldStep DEF Steps, uiHistory
    <3> QED
      BY <3>2, <3>3 DEF WindowInv, ViewInv, SentInv, uiHistory
  <2>2. CASE SetValue(c)
    <3>1. PICK to \in {"read", "error"} : call' = [call EXCEPT ![c].at = to]
      BY <2>2 DEF SetValue, At
    <3>2. UNCHANGED <<view, readBack, sent>> /\ call[c].at = "set"
      BY <2>2 DEF SetValue, At
    <3>3. /\ window' = window \/ window' = [window EXCEPT !.text = call[c].text]
          /\ disturbed \subseteq disturbed'
          /\ window'.text # window.text => \A d \in UiCalls : call[d].at = "press" => d \in disturbed'
      BY <2>2 DEF SetValue, Becomes
    <3>4. call[c].op # "submit"
      BY <3>2 DEF CallInv, Sound
    <3>5. CallInv' /\ HeldInv'
      BY <3>1, <3>2, <3>3, <3>4, CallMoveStep, HeldStep DEF Steps
    <3>6. WindowInv'
      BY <3>3 DEF WindowInv, CallInv, CallOf
    <3> QED
      BY <3>2, <3>5, <3>6 DEF ViewInv, SentInv
  <2>3. CASE ReadBack(c)
    <3>1. PICK to \in {"result", "error"} :
            /\ call' = [call EXCEPT ![c].at = to]
            /\ to = "result" => <<call[c].obs, call[c].text>> \in readBack'
      BY <2>3 DEF ReadBack, At
    <3>2. UNCHANGED <<window, view, disturbed, sent>> /\ call[c].at = "read" /\ readBack \subseteq readBack'
      BY <2>3 DEF ReadBack, At
    <3>3. CallInv' /\ HeldInv'
      BY <3>1, <3>2, CallMoveStep, HeldStep DEF Steps
    <3> QED
      BY <3>2, <3>3 DEF WindowInv, ViewInv, SentInv
  <2>4. CASE Verify(c)
    <3>1. PICK to \in {"press", "error"} :
            call' = [call EXCEPT ![c].at = to] /\ (to = "press" => window.text = call[c].text)
      BY <2>4 DEF Verify, At, Compares
    <3>2. UNCHANGED <<window, view, uiHistory>> /\ call[c].at = "verify"
      BY <2>4 DEF Verify, At
    <3>3. call[c].op # "input"
      BY <3>2 DEF CallInv, Sound
    <3>4. CallInv' /\ HeldInv'
      BY <3>1, <3>2, <3>3, CallMoveStep, HeldStep DEF Steps, uiHistory
    <3> QED
      BY <3>2, <3>4 DEF WindowInv, ViewInv, SentInv, uiHistory
  <2>5. CASE Press(c)
    <3>1. PICK to \in {"result", "error"} : call' = [call EXCEPT ![c].at = to]
      BY <2>5 DEF Press, At
    <3>2. UNCHANGED <<view, readBack>> /\ call[c].at = "press"
      BY <2>5 DEF Press, At
    <3>3. call[c].op = "submit" /\ call[c].obs \in Observations
          /\ <<call[c].obs, call[c].text>> \in readBack
      BY <3>2 DEF CallInv, CallOf, Sound
    <3>4. /\ disturbed \subseteq disturbed'
          /\ window'.text # window.text => \A d \in UiCalls : call[d].at = "press" => d \in disturbed'
          /\ WindowInv'
      BY <2>5 DEF Press, Becomes, WindowInv
    <3>5. CallInv' /\ HeldInv'
      BY <3>1, <3>2, <3>3, <3>4, CallMoveStep, HeldStep DEF Steps
    <3>6. c \notin disturbed => window.text = call[c].text
      BY <3>2 DEF HeldInv, Holding
    <3> DEFINE e == [obs |-> call[c].obs, text |-> window.text, disturbed |-> c \in disturbed]
    <3>7. sent' \subseteq sent \union {e}
      BY <2>5 DEF Press
    <3>8. e.obs = call[c].obs /\ e.text = window.text /\ e.disturbed = (c \in disturbed)
      OBVIOUS
    <3> HIDE DEF e
    <3>9. e.disturbed \/ <<e.obs, e.text>> \in readBack
      <4>1. CASE c \in disturbed
        BY <3>8, <4>1, Zenon
      <4>2. CASE c \notin disturbed
        BY <3>3, <3>6, <3>8, <4>2
      <4> QED
        BY <4>1, <4>2
    <3>10. SentInv'
      BY <3>2, <3>7, <3>9 DEF SentInv
    <3> QED
      BY <3>2, <3>4, <3>5, <3>10 DEF ViewInv
  <2>6. CASE ScriptKilled(c)
    <3>1. CallInv' /\ HeldInv'
      BY <2>6, CallMoveStep, HeldStep DEF ScriptKilled, Steps, uiHistory
    <3> QED
      BY <2>6, <3>1 DEF ScriptKilled, WindowInv, ViewInv, SentInv, uiHistory
  <2> QED
    BY <1>3, <2>1, <2>2, <2>3, <2>4, <2>5, <2>6 DEF ScriptStep
<1>4. ASSUME NEW c \in UiCalls, InputAnswer(c) PROVE UiInv'
  <2> DEFINE o == call[c].obs
             v == [view[o] EXCEPT !.used = TRUE, !.text = call[c].text]
  <2>1. /\ o \in Observations /\ <<o, call[c].text>> \in readBack /\ call[c].op = "input"
        /\ call[c].at = "result" /\ call[c].text \in Texts \union {NoText}
    BY <1>4 DEF InputAnswer, At, CallInv, CallOf, Sound
  <2>2. view' = [view EXCEPT ![o] = v]
    BY <1>4, <2>1 DEF InputAnswer, ViewInv
  <2>3. call' = [call EXCEPT ![c].at = "ok"] /\ UNCHANGED <<window, uiHistory>>
    BY <1>4 DEF InputAnswer, At
  <2>4. v \in Views /\ v.text = call[c].text
    BY <2>1, ViewInput DEF ViewInv
  <2> HIDE DEF v
  <2>5. ViewInv'
    BY <2>1, <2>2, <2>3, <2>4, ViewStep DEF uiHistory
  <2>6. CallInv' /\ HeldInv'
    BY <2>1, <2>3, CallMoveStep, HeldStep DEF Steps, uiHistory
  <2> QED
    BY <2>3, <2>5, <2>6 DEF WindowInv, SentInv, uiHistory
<1>5. ASSUME NEW c \in UiCalls, SubmitAnswer(c) PROVE UiInv'
  <2> DEFINE o == call[c].obs
             v == [view[o] EXCEPT !.submitted = TRUE]
  <2>1. PICK to \in {"ok", "error"} : call' = [call EXCEPT ![c].at = to]
    BY <1>5 DEF SubmitAnswer, At
  <2>2. UNCHANGED <<window, uiHistory>> /\ call[c].at = "result" /\ call[c].op = "submit"
    BY <1>5 DEF SubmitAnswer, At
  <2>3. o \in Observations
    BY <2>2 DEF CallInv, Sound
  <2>4. view' = view \/ view' = [view EXCEPT ![o] = v]
    BY <1>5 DEF SubmitAnswer, Mark
  <2>5. v \in Views /\ v.used = view[o].used /\ v.text = view[o].text
    BY <2>3, ViewMarks DEF ViewInv
  <2> HIDE DEF v
  <2>6. ViewInv'
    <3>1. CASE view' = view
      BY <2>2, <3>1 DEF ViewInv, uiHistory
    <3>2. CASE view' = [view EXCEPT ![o] = v]
      BY <2>2, <2>3, <2>5, <3>2, ViewStep DEF ViewInv, uiHistory
    <3> QED
      BY <2>4, <3>1, <3>2
  <2>7. CallInv' /\ HeldInv'
    BY <2>1, <2>2, CallMoveStep, HeldStep DEF Steps, uiHistory
  <2> QED
    BY <2>2, <2>6, <2>7 DEF WindowInv, SentInv, uiHistory
<1>6. ASSUME NEW c \in UiCalls, NEW o \in Observations, NEW t \in Texts,
             BeginInput(c, o, t) \/ BeginSubmit(c, o, t)
      PROVE UiInv'
  <2>1. PICK op \in {"input", "submit"} :
          /\ call' = [call EXCEPT ![c] = [op |-> op, obs |-> o, text |-> t, at |-> "find"]]
          /\ op = "submit" => view[o].used /\ view[o].text = t
    BY <1>6 DEF BeginInput, BeginSubmit, MaySubmit
  <2> DEFINE e == [op |-> op, obs |-> o, text |-> t, at |-> "find"]
  <2>2. UNCHANGED <<window, view, uiHistory>>
    BY <1>6 DEF BeginInput, BeginSubmit
  <2>3. e \in CallOf /\ Sound(e, readBack')
    BY <2>1, <2>2 DEF CallOf, Sound, Steps, ViewInv, uiHistory
  <2>4. CallInv'
    BY <2>1, <2>2, <2>3, CallStep DEF uiHistory
  <2>5. HeldInv'
    BY <2>1, <2>2 DEF HeldInv, Holding, CallInv, uiHistory
  <2> QED
    BY <2>2, <2>4, <2>5 DEF WindowInv, ViewInv, SentInv, uiHistory
<1>7. CASE Restart
  BY <1>7, HeldBecomes DEF Restart, Change, Becomes, WindowInv, ViewInv, CallInv, SentInv
<1>8. CASE Retitle
  BY <1>8, HeldBecomes DEF Retitle, Change, Becomes, WindowInv, ViewInv, CallInv, SentInv
<1>9. ASSUME NEW t \in Texts, Type(t) PROVE UiInv'
  BY <1>9, HeldBecomes DEF Type, Change, Becomes, WindowInv, ViewInv, CallInv, SentInv
<1>10. CASE UNCHANGED uiVars
  BY <1>10 DEF uiVars, uiHistory, WindowInv, ViewInv, CallInv, HeldInv, Holding, SentInv
<1> QED
  BY <1>1, <1>2, <1>3, <1>4, <1>5, <1>6, <1>7, <1>8, <1>9, <1>10 DEF UiNext

(* What the composer holds when the button is pressed was read back by an input of *)
(* the same observation, or the composer changed after the script had compared it  *)
(* (WindowsUi), for any number of observations, calls, texts and changes of the    *)
(* application.                                                               *)
THEOREM SentTheorem == UiSpec => []SentWasReadBack
<1>1. UiInv => SentWasReadBack
  BY DEF UiInv, SentInv, SentWasReadBack
<1> QED
  BY <1>1, UiInitInv, UiNextInv, PTL DEF UiSpec

-------------------------------------------------------------------------------
(* The paired workstation.  As long as a request was not given up and its first      *)
(* admission is within the window, the table holds its id, with a time not before   *)
(* that admission; so that a delivery which is admitted again comes after the window *)
(* of the first, and is recent only by a stamp that was ahead of the clock then.    *)
Remembered(m) == \E e \in table : e.id = m.id /\ e.at >= first[m]
AdmitInv ==
  /\ \A m \in Messages : first[m] # Never =>
       m.id \in evicted \union forgotten \/ Remembered(m) \/ clock - first[m] > Window
  /\ \A m \in Messages : first[m] <= clock
  /\ AdmittedOnce /\ \A m \in again : first[m] # Never
WsInv == GpuWorkstationTypeOK /\ AdmitInv

(* Every initial state satisfies the invariant. *)
LEMMA WsInitInv == GpuWorkstationInit => WsInv
<1> SUFFICES ASSUME GpuWorkstationInit PROVE WsInv
  OBVIOUS
<1>1. 0 \in 0 .. MaxClock /\ 0 \in Stamps /\ (CHOOSE i \in Ids : TRUE) \in Ids
  BY GpuWindowAssumption DEF Stamps
<1>2. GpuWorkstationTypeOK
  BY <1>1 DEF GpuWorkstationInit, GpuWorkstationTypeOK
<1> QED
  BY <1>2, GpuWindowAssumption DEF GpuWorkstationInit, WsInv, AdmitInv, AdmittedOnce, Never

(* A step that admits nothing, and lets the clock only go on, keeps what is said of  *)
(* admissions.                                                                    *)
LEMMA NothingAdmitted ==
  ASSUME WsInv, UNCHANGED <<table, first, again, evicted, forgotten>>, clock' \in Int, clock' >= clock
  PROVE  AdmitInv'
<1> USE GpuWindowAssumption DEF WsInv, GpuWorkstationTypeOK, AdmitInv, AdmittedOnce, Remembered
<1>1. \A m \in Messages : first[m] \in Int
  BY DEF Never
<1> QED
  BY <1>1

(* An admission keeps it: its own entry is in the table, and an entry leaves the     *)
(* table past the window or with its id evicted.                                  *)
LEMMA AdmitStep ==
  ASSUME WsInv, NEW h \in Handlers, NEW m \in wire, Admit(h, m)
  PROVE  AdmitInv'
<1> DEFINE kept == {e \in table : InWindow(e)}
           new == [id |-> m.id, at |-> clock]
<1> USE GpuWindowAssumption
<1>1. PICK out \in SUBSET kept : /\ table' = (kept \ out) \union {new}
                                /\ evicted' = evicted \union {e.id : e \in out}
  BY DEF Admit, Oldest
<1>2. /\ m \in Messages /\ clock \in Int /\ clock' = clock /\ forgotten' = forgotten /\ Recent(m) /\ Unseen(m)
      /\ first \in [Messages -> 0 .. MaxClock \union {Never}]
      /\ \A e \in table : e.at \in Int
      /\ first' = IF first[m] = Never THEN [first EXCEPT ![m] = clock] ELSE first
      /\ again' = IF first[m] = Never THEN again ELSE again \union {m}
  BY DEF Admit, WsInv, GpuWorkstationTypeOK
<1>3. \A n \in Messages : first[n] \in Int /\ first'[n] \in Int
  BY <1>2 DEF Never, WsInv, GpuWorkstationTypeOK
<1>4. \A n \in Messages : first[n] # Never => first'[n] = first[n]
  BY <1>2
<1>5. \A n \in Messages : first'[n] <= clock
  BY <1>2 DEF WsInv, AdmitInv, GpuWorkstationTypeOK
<1>6. ASSUME NEW n \in Messages, first'[n] # Never
      PROVE  n.id \in evicted' \union forgotten' \/ Remembered(n)' \/ clock' - first'[n] > Window
  <2>1. CASE n = m
    <3>1. new \in table' /\ new.id = m.id /\ new.at = clock
      BY <1>1
    <3>2. first'[m] <= clock
      BY <1>2, <1>5
    <3> QED
      BY <2>1, <3>1, <3>2 DEF Remembered
  <2>2. CASE n # m
    <3>1. first'[n] = first[n] /\ first[n] # Never
      BY <1>2, <1>6, <2>2
    <3>2. CASE Remembered(n)
      <4>1. PICK e \in table : e.id = n.id /\ e.at >= first[n]
        BY <3>2 DEF Remembered
      <4>2. CASE e \in table'
        BY <3>1, <4>1, <4>2 DEF Remembered
      <4>3. CASE e \in out
        BY <1>1, <4>1, <4>3
      <4>4. CASE ~InWindow(e)
        BY <1>2, <1>3, <3>1, <4>1, <4>4 DEF InWindow
      <4> QED
        BY <1>1, <4>1, <4>2, <4>3, <4>4
    <3> QED
      BY <1>1, <1>2, <3>1, <3>2 DEF WsInv, AdmitInv
  <2> QED
    BY <2>1, <2>2
<1>7. ASSUME NEW n \in again'
      PROVE  (n.id \in evicted' \union forgotten' \/ n.issued > first'[n]) /\ first'[n] # Never
  <2>1. CASE n \in again
    <3>1. n \in Messages /\ first[n] # Never /\ (n.id \in evicted \union forgotten \/ n.issued > first[n])
      BY <2>1 DEF WsInv, AdmitInv, AdmittedOnce, GpuWorkstationTypeOK
    <3> QED
      BY <1>1, <1>2, <1>4, <3>1
  <2>2. CASE n \notin again
    <3>1. n = m /\ first[m] # Never /\ first'[m] = first[m]
      BY <1>2, <1>7, <2>2
    <3>2. ~Remembered(m)
      BY <1>2 DEF Unseen, Remembered
    <3>3. m.id \in evicted \union forgotten \/ clock - first[m] > Window
      BY <1>2, <3>1, <3>2 DEF WsInv, AdmitInv
    <3>4. m.issued \in Int /\ clock - m.issued <= Window
      BY <1>2 DEF Recent, Messages, Stamps
    <3> QED
      BY <1>1, <1>2, <1>3, <3>1, <3>3, <3>4
  <2> QED
    BY <2>1, <2>2
<1> QED
  BY <1>2, <1>6, <1>7, <1>5 DEF AdmitInv, AdmittedOnce

(* A restart keeps it: what it forgets within the window is marked, and the rest is past *)
(* the window.                                                                       *)
LEMMA RestartStep ==
  ASSUME WsInv, ServerRestarts PROVE AdmitInv'
<1> USE GpuWindowAssumption
<1>1. /\ clock \in Int /\ first \in [Messages -> 0 .. MaxClock \union {Never}] /\ \A e \in table : e.at \in Int
      /\ forgotten' = forgotten \union {e.id : e \in Current}
      /\ UNCHANGED <<clock, first, again, evicted>>
  BY DEF ServerRestarts, WsInv, GpuWorkstationTypeOK
<1>2. ASSUME NEW n \in Messages, first[n] # Never
      PROVE  n.id \in evicted \union forgotten' \/ clock - first[n] > Window
  <2>1. CASE Remembered(n)
    <3>1. PICK e \in table : e.id = n.id /\ e.at >= first[n]
      BY <2>1 DEF Remembered
    <3>2. CASE InWindow(e)
      BY <1>1, <3>1, <3>2 DEF Current
    <3>3. CASE ~InWindow(e)
      <4>1. first[n] \in Int /\ e.at \in Int /\ ~(clock - e.at <= Window)
        BY <1>1, <3>3 DEF InWindow, Never
      <4> QED
        BY <1>1, <3>1, <4>1
    <3> QED
      BY <3>2, <3>3
  <2> QED
    BY <1>1, <1>2, <2>1 DEF WsInv, AdmitInv
<1> QED
  BY <1>1, <1>2 DEF WsInv, AdmitInv, AdmittedOnce

(* Every step keeps the types. *)
LEMMA WsTypesStep == GpuWorkstationTypeOK /\ [GpuWorkstationNext]_wsVars => GpuWorkstationTypeOK'
<1> SUFFICES ASSUME GpuWorkstationTypeOK, [GpuWorkstationNext]_wsVars PROVE GpuWorkstationTypeOK'
  OBVIOUS
<1> USE GpuWindowAssumption DEF GpuWorkstationTypeOK
<1>1. CASE Tick
  <2>1. clock' \in 0 .. MaxClock
    BY <1>1 DEF Tick
  <2> QED
    BY <1>1, <2>1 DEF Tick
<1>2. ASSUME NEW i \in Ids, NEW to \in {"ok", "failed"}, client' = [client EXCEPT ![i].at = to],
             UNCHANGED <<clock, wire, answers, table, handler, first, again, evicted, forgotten>>
      PROVE  GpuWorkstationTypeOK'
  <2>1. client' \in [Ids -> [at : {"new", "waits", "ok", "failed"}, issued : Stamps]]
    BY <1>2
  <2> QED
    BY <1>2, <2>1
<1>3. ASSUME NEW i \in Ids, NEW stamp \in Stamps, Infer(i, stamp) PROVE GpuWorkstationTypeOK'
  BY <1>3 DEF Infer, Messages
<1>4. ASSUME NEW h \in Handlers, NEW m \in wire, Admit(h, m) PROVE GpuWorkstationTypeOK'
  <2> DEFINE kept == {e \in table : InWindow(e)}
             new == [id |-> m.id, at |-> clock]
  <2>1. PICK out \in SUBSET kept : /\ table' = (kept \ out) \union {new}
                                  /\ evicted' = evicted \union {e.id : e \in out}
    BY <1>4 DEF Admit, Oldest
  <2>2. /\ m \in Messages /\ m.id \in Ids /\ m.issued \in Stamps
        /\ new \in [id : Ids, at : 0 .. MaxClock]
    BY DEF Messages
  <2>3. table' \subseteq [id : Ids, at : 0 .. MaxClock] /\ evicted' \subseteq Ids
    BY <2>1, <2>2
  <2>4. handler' \in [Handlers -> [at : {"idle", "runs"}, id : Ids, issued : Stamps]]
    BY <1>4, <2>2 DEF Admit
  <2>5. first' \in [Messages -> 0 .. MaxClock \union {Never}] /\ again' \subseteq Messages
    BY <1>4, <2>2 DEF Admit
  <2> QED
    BY <1>4, <2>3, <2>4, <2>5 DEF Admit
<1>5. ASSUME NEW h \in Handlers, InferEnds(h), answers' \subseteq Messages
      PROVE  GpuWorkstationTypeOK'
  <2>1. handler' \in [Handlers -> [at : {"idle", "runs"}, id : Ids, issued : Stamps]]
    BY <1>5 DEF InferEnds
  <2> QED
    BY <1>5, <2>1 DEF InferEnds
<1>6. ASSUME NEW h \in Handlers
      PROVE  [id |-> handler[h].id, issued |-> handler[h].issued] \in Messages
  BY <1>6 DEF Messages
<1>7. ASSUME NEW h \in Handlers, InferAnswers(h) PROVE GpuWorkstationTypeOK'
  BY <1>5, <1>6, <1>7 DEF InferAnswers
<1>8. ASSUME NEW h \in Handlers, InferFails(h) PROVE GpuWorkstationTypeOK'
  BY <1>5, <1>8 DEF InferFails
<1>9. CASE UNCHANGED wsVars
  BY <1>9 DEF wsVars
<1>10. CASE ServerRestarts
  <2>1. handler' \in [Handlers -> [at : {"idle", "runs"}, id : Ids, issued : Stamps]]
    BY <1>10 DEF ServerRestarts
  <2>2. forgotten' \subseteq Ids
    BY <1>10 DEF ServerRestarts, Current
  <2> QED
    BY <1>10, <2>1, <2>2 DEF ServerRestarts
<1> QED
  BY <1>1, <1>2, <1>3, <1>4, <1>7, <1>8, <1>9, <1>10 DEF GpuWorkstationNext, ClientReceives, ClientFails

(* Every step keeps the invariant. *)
LEMMA WsNextInv == WsInv /\ [GpuWorkstationNext]_wsVars => WsInv'
<1> SUFFICES ASSUME WsInv, [GpuWorkstationNext]_wsVars PROVE AdmitInv'
  BY WsTypesStep DEF WsInv
<1>1. clock \in Int
  BY DEF WsInv, GpuWorkstationTypeOK
<1>2. CASE Tick
  BY <1>1, <1>2, NothingAdmitted DEF Tick
<1>3. ASSUME NEW h \in Handlers, NEW m \in wire, Admit(h, m) PROVE AdmitInv'
  BY <1>3, AdmitStep
<1>4. ASSUME UNCHANGED <<clock, table, first, again, evicted, forgotten>> PROVE AdmitInv'
  BY <1>1, <1>4, NothingAdmitted
<1>5. ASSUME NEW i \in Ids, NEW stamp \in Stamps,
             ClientReceives(i) \/ ClientFails(i) \/ Infer(i, stamp)
      PROVE  UNCHANGED <<clock, table, first, again, evicted, forgotten>>
  BY <1>5 DEF ClientReceives, ClientFails, Infer
<1>6. ASSUME NEW i \in Ids, ClientReceives(i) \/ ClientFails(i)
      PROVE  UNCHANGED <<clock, table, first, again, evicted, forgotten>>
  BY <1>6 DEF ClientReceives, ClientFails
<1>7. ASSUME NEW h \in Handlers, InferAnswers(h) \/ InferFails(h)
      PROVE  UNCHANGED <<clock, table, first, again, evicted, forgotten>>
  BY <1>7 DEF InferAnswers, InferFails, InferEnds
<1>8. UNCHANGED wsVars => UNCHANGED <<clock, table, first, again, evicted, forgotten>>
  BY DEF wsVars
<1> QED
  BY <1>2, <1>3, <1>4, <1>5, <1>6, <1>7, <1>8, RestartStep DEF GpuWorkstationNext

(* A request is admitted once, however often the network delivers it and however long  *)
(* its inference takes, unless the table gave up its id, the server restarted within   *)
(* the window or the stamp was ahead of the server's clock: for any window, clock error, *)
(* table size and number of handlers.                                               *)
THEOREM AdmittedOnceTheorem == GpuWorkstationSpec => []AdmittedOnce
<1>1. WsInv => AdmittedOnce
  BY DEF WsInv, AdmitInv
<1> QED
  BY <1>1, WsInitInv, WsNextInv, PTL DEF GpuWorkstationSpec

-------------------------------------------------------------------------------
(* Desktop runs.  What is kept is what was taken as long as nothing failed, and   *)
(* neither a stop nor the timer finds anything of a job whose process is over.     *)
RunKept(c) ==
  /\ ~run[c].failing => run[c].kept = taken[c]
  /\ run[c].at \in {"writes", "ok"} => Whole(c) /\ taken[c] = emitted[c]
JobOver(j) ==
  job[j].state = "EXITED" => source[j] = "over" /\ ~job[j].child /\ ~job[j].timer
OutcomesInv ==
  DesktopRunsTypeOK /\ (\A c \in Collections : RunKept(c)) /\ (\A j \in Jobs : JobOver(j))

(* Every initial state satisfies the invariant. *)
LEMMA OutcomesInit == DesktopRunsInit => OutcomesInv
<1> SUFFICES ASSUME DesktopRunsInit PROVE OutcomesInv
  OBVIOUS
<1>1. \A c \in Collections : run[c].at = "new" /\ run[c].kept = 0 /\ taken[c] = 0
  BY DEF DesktopRunsInit
<1>2. \A j \in Jobs : job[j].state = "none"
  BY DEF DesktopRunsInit
<1>3. run \in [Collections -> RunOf]
  <2>1. [kind : RunKinds, at : {"new"}, failing : {FALSE}, kept : {0}] \subseteq RunOf
    BY OutputAssumption, 0 \in 0 .. OutputLimit DEF RunOf, Answered
  <2> QED
    BY <2>1 DEF DesktopRunsInit
<1>4. DesktopRunsTypeOK
  BY <1>3, OutputAssumption DEF DesktopRunsInit, DesktopRunsTypeOK, JobOf
<1> QED
  BY <1>1, <1>2, <1>4 DEF OutcomesInv, RunKept, JobOver

(* A step that changes one collection keeps the invariant if it keeps it there.     *)
LEMMA RunChanged ==
  ASSUME OutcomesInv, NEW c \in Collections, NEW r \in RunOf, NEW n \in 0 .. MaxOutput,
         run' = [run EXCEPT ![c] = r], taken' = [taken EXCEPT ![c] = n],
         ~r.failing => r.kept = n,
         r.at \in {"writes", "ok"} => source[c] = "over" /\ ~r.failing /\ r.kept = emitted[c] /\ n = emitted[c],
         UNCHANGED <<alive, source, emitted, job>>
  PROVE  OutcomesInv'
<1>1. run' \in [Collections -> RunOf] /\ taken' \in [Collections -> 0 .. MaxOutput]
  BY DEF OutcomesInv, DesktopRunsTypeOK
<1>2. run'[c] = r /\ taken'[c] = n /\ \A d \in Collections : d # c => run'[d] = run[d] /\ taken'[d] = taken[d]
  BY DEF OutcomesInv, DesktopRunsTypeOK
<1>3. \A d \in Collections : RunKept(d)'
  BY <1>2 DEF OutcomesInv, RunKept, Whole
<1> QED
  BY <1>1, <1>3 DEF OutcomesInv, DesktopRunsTypeOK, JobOver

(* A step that changes one job keeps the invariant if it keeps it there.           *)
LEMMA JobChanged ==
  ASSUME OutcomesInv, NEW j \in Jobs, NEW k \in JobOf, job' = [job EXCEPT ![j] = k],
         NEW s \in {"none", "open", "over"}, source' = [source EXCEPT ![j] = s],
         k.state = "EXITED" => s = "over" /\ ~k.child /\ ~k.timer,
         alive' \in BOOLEAN, UNCHANGED <<emitted, taken, run>>
  PROVE  OutcomesInv'
<1>1. job' \in [Jobs -> JobOf] /\ source' \in [Jobs \union Collections -> {"none", "open", "over"}]
  BY DEF OutcomesInv, DesktopRunsTypeOK
<1>2. job'[j] = k /\ source'[j] = s
  BY DEF OutcomesInv, DesktopRunsTypeOK
<1>3. \A i \in Jobs : i # j => job'[i] = job[i] /\ source'[i] = source[i]
  BY DEF OutcomesInv, DesktopRunsTypeOK
<1>4. \A c \in Collections : source'[c] = source[c]
  BY OutputAssumption DEF OutcomesInv, DesktopRunsTypeOK
<1>5. \A c \in Collections : RunKept(c)'
  BY <1>4 DEF OutcomesInv, RunKept, Whole
<1>6. \A i \in Jobs : JobOver(i)'
  BY <1>2, <1>3 DEF OutcomesInv, JobOver
<1> QED
  BY <1>1, <1>5, <1>6 DEF OutcomesInv, DesktopRunsTypeOK

(* Every step keeps the invariant. *)
LEMMA OutcomesNext == OutcomesInv /\ [DesktopRunsNext]_runVars => OutcomesInv'
<1> SUFFICES ASSUME OutcomesInv, [DesktopRunsNext]_runVars PROVE OutcomesInv'
  OBVIOUS
<1>0. /\ run \in [Collections -> RunOf] /\ taken \in [Collections -> 0 .. MaxOutput]
      /\ emitted \in [Collections -> 0 .. MaxOutput] /\ job \in [Jobs -> JobOf]
      /\ source \in [Jobs \union Collections -> {"none", "open", "over"}]
  BY DEF OutcomesInv, DesktopRunsTypeOK
<1>1. ASSUME NEW x \in Jobs \union Collections, SourceEnds(x) PROVE OutcomesInv'
  BY <1>1 DEF SourceEnds, OutcomesInv, DesktopRunsTypeOK, RunKept, JobOver, Whole
<1>2. ASSUME NEW c \in Collections, Emits(c) PROVE OutcomesInv'
  BY <1>2, OutputAssumption DEF Emits, OutcomesInv, DesktopRunsTypeOK, RunKept, JobOver, Whole
<1>3. ASSUME NEW c \in Collections, Begins(c) PROVE OutcomesInv'
  <2>1. CASE Refused(c)
    <3>1. PICK r : r = [run[c] EXCEPT !.at = "error"]
      OBVIOUS
    <3>2. r \in RunOf /\ r.at = "error" /\ r.failing = run[c].failing /\ r.kept = run[c].kept
      BY <1>0, <3>1 DEF RunOf, Answered
    <3>3. run' = [run EXCEPT ![c] = r] /\ taken' = [taken EXCEPT ![c] = taken[c]]
      BY <1>0, <1>3, <2>1, <3>1 DEF Begins, Refused
    <3>4. /\ taken[c] \in 0 .. MaxOutput /\ UNCHANGED <<alive, source, emitted, job>>
          /\ ~run[c].failing => run[c].kept = taken[c]
      BY <1>0, <1>3, <2>1 DEF Begins, Refused, OutcomesInv, RunKept
    <3> QED
      BY <3>2, <3>3, <3>4, RunChanged
  <2>2. ASSUME NEW f \in BOOLEAN, NEW s \in {"open", "over"},
               run' = [run EXCEPT ![c].at = "collects", ![c].failing = f],
               source' = [source EXCEPT ![c] = s], ~f => ~run[c].failing
        PROVE  OutcomesInv'
    <3>1. run' \in [Collections -> RunOf] /\ run'[c].at = "collects" /\ run'[c].failing = f
          /\ run'[c].kept = run[c].kept
      BY <1>0, <2>2 DEF RunOf
    <3>2. \A d \in Collections : d # c => run'[d] = run[d] /\ source'[d] = source[d]
      BY <1>0, <2>2
    <3>3. \A j \in Jobs : source'[j] = source[j]
      BY <1>0, <2>2, OutputAssumption
    <3>4. \A d \in Collections : RunKept(d)'
      BY <1>3, <2>2, <3>1, <3>2 DEF Begins, OutcomesInv, RunKept, Whole
    <3>5. UNCHANGED <<alive, emitted, taken, job>>
      BY <1>3 DEF Begins
    <3>6. source' \in [Jobs \union Collections -> {"none", "open", "over"}]
      BY <1>0, <2>2
    <3>7. DesktopRunsTypeOK'
      BY <1>0, <3>1, <3>5, <3>6 DEF OutcomesInv, DesktopRunsTypeOK
    <3>8. \A j \in Jobs : JobOver(j)'
      BY <3>3, <3>5 DEF OutcomesInv, JobOver
    <3> QED
      BY <3>4, <3>7, <3>8 DEF OutcomesInv
  <2>3. CASE Opened(c)
    <3>1. run' = [run EXCEPT ![c].at = "collects", ![c].failing = run[c].failing] /\ run[c].failing \in BOOLEAN
      BY <1>0, <2>3 DEF Opened, RunOf
    <3> QED
      BY <2>2, <2>3, <3>1 DEF Opened
  <2>4. CASE NoProcess(c)
    BY <2>2, <2>4 DEF NoProcess
  <2>5. Refused(c) \/ Opened(c) \/ NoProcess(c)
    BY <1>3 DEF Begins
  <2> QED
    BY ONLY <2>1, <2>3, <2>4, <2>5
<1>4. ASSUME NEW c \in Collections, NEW n \in 0 .. MaxOutput, run' = Failed(c), taken' = [taken EXCEPT ![c] = n],
             run[c].at = "collects", UNCHANGED <<alive, source, emitted, job>>
      PROVE  OutcomesInv'
  <2>1. PICK r : r = [run[c] EXCEPT !.failing = TRUE, !.at = IF run[c].kind = "catalog" THEN "error" ELSE @]
    OBVIOUS
  <2>2. r \in RunOf /\ r.failing /\ r.at \in {"collects", "error"}
    BY <1>0, <1>4, <2>1 DEF RunOf, Answered
  <2>3. run' = [run EXCEPT ![c] = r]
    BY <1>0, <1>4, <2>1 DEF Failed
  <2> QED
    BY <1>4, <2>2, <2>3, RunChanged
<1>5. ASSUME NEW c \in Collections, Takes(c) PROVE OutcomesInv'
  <2>1. taken[c] + 1 \in 0 .. MaxOutput /\ taken' = [taken EXCEPT ![c] = taken[c] + 1]
    BY <1>0, <1>5, OutputAssumption DEF Takes
  <2>2. CASE run[c].kept < OutputLimit
    <3>1. PICK r : r = [run[c] EXCEPT !.kept = run[c].kept + 1]
      OBVIOUS
    <3>2. r \in RunOf /\ r.at = run[c].at /\ r.failing = run[c].failing /\ r.kept = run[c].kept + 1
      BY <1>0, <2>2, <3>1, OutputAssumption DEF RunOf
    <3>3. run' = [run EXCEPT ![c] = r]
      BY <1>0, <1>5, <2>2, <3>1 DEF Takes
    <3>4. ~run[c].failing => run[c].kept = taken[c]
      BY DEF OutcomesInv, RunKept
    <3>5. r.at = "collects" /\ UNCHANGED <<alive, source, emitted, job>>
      BY <1>5, <3>2 DEF Takes
    <3>6. ~r.failing => r.kept = taken[c] + 1
      BY <3>2, <3>4
    <3> QED
      BY <2>1, <3>2, <3>3, <3>5, <3>6, RunChanged
  <2> QED
    BY <1>4, <1>5, <2>1, <2>2 DEF Takes
<1>6. ASSUME NEW c \in Collections, Breaks(c) PROVE OutcomesInv'
  <2>1. taken' = [taken EXCEPT ![c] = taken[c]] /\ taken[c] \in 0 .. MaxOutput
    BY <1>0, <1>6 DEF Breaks
  <2> QED
    BY <1>4, <1>6, <2>1 DEF Breaks
<1>7. ASSUME NEW c \in Collections, NEW at \in {"writes"} \union Answered, run' = [run EXCEPT ![c].at = at],
             at # "error" => Whole(c) /\ taken[c] = emitted[c], UNCHANGED <<alive, source, emitted, taken, job>>
      PROVE  OutcomesInv'
  <2>1. PICK r : r = [run[c] EXCEPT !.at = at]
    OBVIOUS
  <2>2. r \in RunOf /\ r.at = at /\ r.failing = run[c].failing /\ r.kept = run[c].kept
    BY <1>0, <2>1 DEF RunOf
  <2>3. run' = [run EXCEPT ![c] = r] /\ taken' = [taken EXCEPT ![c] = taken[c]] /\ taken[c] \in 0 .. MaxOutput
    BY <1>0, <1>7, <2>1
  <2> QED
    BY <1>7, <2>2, <2>3, RunChanged DEF OutcomesInv, RunKept, Whole
<1>8. ASSUME NEW c \in Collections, Closes(c) PROVE OutcomesInv'
  <2>1. PICK at \in AfterClose(c) : run' = [run EXCEPT ![c].at = at]
    BY <1>8 DEF Closes
  <2>2. at \in {"writes"} \union Answered /\ (at # "error" => ~run[c].failing)
    BY DEF AfterClose, Document, Catalog, Answered
  <2> QED
    BY <1>7, <1>8, <2>1, <2>2 DEF Closes, Closed, OutcomesInv, RunKept, Whole
<1>9. ASSUME NEW c \in Collections, WritesDocument(c) PROVE OutcomesInv'
  BY <1>7, <1>9 DEF WritesDocument, OutcomesInv, RunKept
<1>10. ASSUME NEW j \in Jobs, StartJob(j) PROVE OutcomesInv'
  <2>1. [state |-> "RUNNING", child |-> TRUE, timer |-> TRUE] \in JobOf
    BY DEF JobOf
  <2>2. PICK s \in {"none", "open", "over"} : source' = [source EXCEPT ![j] = s]
    BY <1>0, <1>10 DEF StartJob
  <2>3. alive' \in BOOLEAN
    BY <1>10 DEF StartJob, OutcomesInv, DesktopRunsTypeOK
  <2> QED
    BY <1>10, <2>1, <2>2, <2>3, JobChanged DEF StartJob
<1>11. ASSUME NEW j \in Jobs, NEW k \in JobOf, job' = [job EXCEPT ![j] = k],
              k.state = "EXITED" => source[j] = "over" /\ ~k.child /\ ~k.timer,
              UNCHANGED <<alive, source, emitted, taken, run>>
       PROVE  OutcomesInv'
  <2>1. source' = [source EXCEPT ![j] = source[j]] /\ source[j] \in {"none", "open", "over"} /\ alive' \in BOOLEAN
    BY <1>0, <1>11 DEF OutcomesInv, DesktopRunsTypeOK
  <2> QED
    BY <1>11, <2>1, JobChanged
<1>12. ASSUME NEW j \in Jobs, StopJob(j) PROVE OutcomesInv'
  <2>1. PICK k : k = [job[j] EXCEPT !.state = "STOPPING"]
    OBVIOUS
  <2>2. k \in JobOf /\ k.state = "STOPPING"
    BY <1>0, <2>1 DEF JobOf
  <2>3. job' = [job EXCEPT ![j] = k]
    BY <1>0, <1>12, <2>1 DEF StopJob
  <2> QED
    BY <1>11, <1>12, <2>2, <2>3 DEF StopJob
<1>13. ASSUME NEW j \in Jobs, JobTimeout(j) PROVE OutcomesInv'
  <2>1. PICK k : k = [job[j] EXCEPT !.timer = FALSE, !.state = IF job[j].child THEN "TIMED_OUT" ELSE @]
    OBVIOUS
  <2>2. k \in JobOf /\ (k.state = "EXITED" => job[j].state = "EXITED")
    BY <1>0, <2>1 DEF JobOf
  <2>3. job' = [job EXCEPT ![j] = k]
    BY <1>0, <1>13, <2>1 DEF JobTimeout
  <2>4. job[j].state # "EXITED"
    BY <1>13 DEF JobTimeout, OutcomesInv, JobOver
  <2> QED
    BY <1>11, <1>13, <2>2, <2>3, <2>4 DEF JobTimeout
<1>14. ASSUME NEW j \in Jobs, JobCloses(j) PROVE OutcomesInv'
  <2>1. [state |-> "EXITED", child |-> FALSE, timer |-> FALSE] \in JobOf
    BY DEF JobOf
  <2> QED
    BY <1>11, <1>14, <2>1 DEF JobCloses
<1>15. CASE UNCHANGED runVars
  BY <1>15 DEF runVars, OutcomesInv, DesktopRunsTypeOK, RunKept, JobOver, Whole
<1> QED
  BY <1>1, <1>2, <1>3, <1>5, <1>6, <1>8, <1>9, <1>10, <1>12, <1>13, <1>14, <1>15 DEF DesktopRunsNext

(* A job that is EXITED was left by its process and stays so, and a result holds    *)
(* every chunk of a source that ended by itself (DesktopRuns), for any jobs,         *)
(* collections, chunks and limits.                                              *)
THEOREM OutcomesTheorem == DesktopRunsSpec => OutcomesStand
<1>1. OutcomesInv /\ OutcomesInv' /\ [DesktopRunsNext]_runVars =>
        [ /\ \A j \in Jobs : job[j].state = "EXITED" => JobIsOver(j)'
          /\ \A c \in Collections : run'[c].at = "ok" => Whole(c)' ]_runVars
  <2> SUFFICES ASSUME OutcomesInv, OutcomesInv', [DesktopRunsNext]_runVars
               PROVE /\ \A j \in Jobs : job[j].state = "EXITED" => job'[j].state = "EXITED"
                     /\ \A j \in Jobs : job'[j].state = "EXITED" => source'[j] = "over"
                     /\ \A c \in Collections : run'[c].at = "ok" => Whole(c)'
    BY DEF JobIsOver
  <2>1. ASSUME NEW j \in Jobs, job[j].state = "EXITED" PROVE job'[j].state = "EXITED"
    <3>1. job \in [Jobs -> JobOf]
          /\ ~job[j].child /\ ~job[j].timer
      BY <2>1 DEF OutcomesInv, DesktopRunsTypeOK, JobOver
    <3>2. \/ UNCHANGED job
          \/ \E k \in Jobs : StartJob(k) \/ StopJob(k) \/ JobTimeout(k) \/ JobCloses(k)
      BY DEF DesktopRunsNext, runVars, SourceEnds, Emits, Begins, Takes, Breaks, Closes, WritesDocument
    <3>3. ASSUME NEW k \in Jobs, StartJob(k) \/ StopJob(k) \/ JobTimeout(k) \/ JobCloses(k)
          PROVE job'[j] = job[j]
      BY <2>1, <3>1, <3>3 DEF StartJob, StopJob, Stoppable, JobTimeout, JobCloses
    <3> QED
      BY <2>1, <3>2, <3>3
  <2> QED
    BY <2>1 DEF OutcomesInv, JobOver, RunKept
<1> QED
  BY <1>1, OutcomesInit, OutcomesNext, PTL DEF DesktopRunsSpec, OutcomesStand

-------------------------------------------------------------------------------
(* The public ingress.  The guards have admitted what waits for its body.         *)
IngressInv ==
  IngressTypeOK /\ ResponseIsWhole /\ \A q \in Forwards : stage[q] = "body" => Admitted(q)
UpstreamOf == [sent : 0 .. MaxBody, passed : 0 .. BodyLimit, over : BOOLEAN]
Early == {"new", "body", "asked"}
Fits(q, at, h, u) ==
  /\ at = "complete" => u.over /\ u.passed = u.sent
  /\ h = (IF at \in Early THEN 0 ELSE 1)
  /\ at = "body" => Admitted(q)
  /\ at \notin {"new", "body", "replied"} => Admitted(q) /\ Qualified

(* Every initial state satisfies the invariant. *)
LEMMA IngressInitInv == IngressInit => IngressInv
<1> SUFFICES ASSUME IngressInit PROVE IngressInv
  OBVIOUS
<1>1. [sent |-> 0, passed |-> 0, over |-> FALSE] \in UpstreamOf /\ 0 \in 0 .. BodyLimit
  BY IngressAssumption DEF UpstreamOf
<1> QED
  BY <1>1 DEF IngressInit, IngressInv, IngressTypeOK, ResponseIsWhole, UpstreamOf, Stages

(* A step of one request keeps the invariant if it keeps it there.                *)
LEMMA ForwardMoves ==
  ASSUME IngressInv, NEW q \in Forwards, NEW at \in Stages, NEW h \in Nat, NEW u \in UpstreamOf,
         stage' = [stage EXCEPT ![q] = at], heads' = [heads EXCEPT ![q] = h],
         upstream' = [upstream EXCEPT ![q] = u],
         body' \in [Forwards -> 0 .. BodyLimit], UNCHANGED <<ingress, asks>>,
         Fits(q, at, h, u)
  PROVE  IngressInv'
<1>1. IngressTypeOK'
  BY DEF IngressInv, IngressTypeOK, UpstreamOf
<1>2. stage'[q] = at /\ heads'[q] = h /\ upstream'[q] = u
  BY DEF IngressInv, IngressTypeOK
<1>3. \A p \in Forwards : p # q => stage'[p] = stage[p] /\ heads'[p] = heads[p] /\ upstream'[p] = upstream[p]
  BY DEF IngressInv, IngressTypeOK
<1>4. (Qualified <=> Qualified') /\ \A p \in Forwards : Admitted(p) <=> Admitted(p)'
  BY DEF Qualified, UpstreamBound, Admitted, Routed
<1>5. ASSUME NEW p \in Forwards
      PROVE  /\ stage'[p] = "complete" => upstream'[p].over /\ upstream'[p].passed = upstream'[p].sent
             /\ heads'[p] = (IF stage'[p] \in Early THEN 0 ELSE 1)
             /\ stage'[p] \notin {"new", "body", "replied"} => Admitted(p)' /\ Qualified'
             /\ stage'[p] = "body" => Admitted(p)'
  <2>1. CASE p = q
    BY <1>2, <1>4, <2>1 DEF Fits
  <2>2. CASE p # q
    BY <1>3, <1>4, <2>2 DEF IngressInv, ResponseIsWhole, Early
  <2> QED
    BY <2>1, <2>2
<1> QED
  BY <1>1, <1>5 DEF IngressInv, ResponseIsWhole, Early

(* Every step keeps the invariant. *)
LEMMA IngressNextInv == IngressInv /\ [IngressNext]_ingressVars => IngressInv'
<1> SUFFICES ASSUME IngressInv, [IngressNext]_ingressVars PROVE IngressInv'
  OBVIOUS
<1>1. CASE UNCHANGED ingressVars
  BY <1>1 DEF ingressVars, IngressInv, IngressTypeOK, ResponseIsWhole, Qualified, UpstreamBound, Admitted, Routed
<1>2. ASSUME NEW q \in Forwards,
             \/ Metadata(q) \/ OpenRequest(q) \/ BodyChunk(q) \/ BodyFails(q) \/ AskUpstream(q)
             \/ UpstreamRefuses(q) \/ UpstreamAnswers(q) \/ UpstreamSends(q) \/ UpstreamEnds(q)
             \/ Passes(q) \/ PipelineBreaks(q) \/ PipelineEnds(q)
      PROVE  IngressInv'
  <2>1. /\ stage \in [Forwards -> Stages] /\ heads \in [Forwards -> Nat]
        /\ body \in [Forwards -> 0 .. BodyLimit] /\ upstream \in [Forwards -> UpstreamOf]
        /\ stage[q] \in Stages /\ heads[q] \in Nat /\ upstream[q] \in UpstreamOf
    BY DEF IngressInv, IngressTypeOK, UpstreamOf
  <2>2. /\ stage[q] = "body" => Admitted(q)
        /\ stage[q] \notin {"new", "body", "replied"} => Admitted(q) /\ Qualified
        /\ heads[q] = (IF stage[q] \in Early THEN 0 ELSE 1)
    BY DEF IngressInv, ResponseIsWhole, Early
  <2>3. /\ stage = [stage EXCEPT ![q] = stage[q]] /\ heads = [heads EXCEPT ![q] = heads[q]]
        /\ upstream = [upstream EXCEPT ![q] = upstream[q]]
    BY <2>1
  <2>4. ASSUME NEW from \in Early, Replies(q, from) PROVE IngressInv'
    <3>0. stage[q] = from /\ heads[q] = 0
      BY <2>2, <2>4 DEF Replies, To
    <3>1. stage' = [stage EXCEPT ![q] = "replied"] /\ heads' = [heads EXCEPT ![q] = 1]
      BY <2>1, <2>4, <3>0 DEF Replies, To, WritesHead
    <3>2. UNCHANGED <<ingress, asks, body, upstream>>
      BY <2>4 DEF Replies
    <3> QED
      BY <2>1, <2>3, <3>1, <3>2, ForwardMoves DEF Fits, Stages, Early
  <2>5. ASSUME Metadata(q) \/ BodyFails(q) \/ UpstreamRefuses(q) PROVE IngressInv'
    BY <2>4, <2>5 DEF Metadata, BodyFails, UpstreamRefuses, Early
  <2>6. ASSUME OpenRequest(q) PROVE IngressInv'
    <3>1. CASE Admitted(q)
      <4>1. stage[q] = "new" /\ stage' = [stage EXCEPT ![q] = "body"]
            /\ UNCHANGED <<ingress, asks, body, upstream, heads>>
        BY <2>6, <3>1 DEF OpenRequest, To
      <4>2. "body" \in Stages /\ "body" \in Early /\ heads[q] = 0 /\ heads' = [heads EXCEPT ![q] = 0]
            /\ upstream' = [upstream EXCEPT ![q] = upstream[q]]
        BY <2>2, <2>3, <4>1 DEF Stages, Early
      <4>3. body' \in [Forwards -> 0 .. BodyLimit] /\ Fits(q, "body", 0, upstream[q])
        BY <2>1, <3>1, <4>1, <4>2 DEF Fits
      <4> QED
        BY <2>1, <4>1, <4>2, <4>3, ForwardMoves
    <3>2. CASE ~Admitted(q)
      BY <2>4, <2>6, <3>2 DEF OpenRequest, Early
    <3> QED
      BY <3>1, <3>2
  <2>7. ASSUME BodyChunk(q) PROVE IngressInv'
    <3>1. CASE body[q] < BodyLimit
      <4>1. body' \in [Forwards -> 0 .. BodyLimit] /\ UNCHANGED <<ingress, asks, stage, upstream, heads>>
        BY <2>1, <2>7, <3>1, IngressAssumption DEF BodyChunk
      <4> QED
        BY <4>1 DEF IngressInv, IngressTypeOK, ResponseIsWhole, Qualified, UpstreamBound, Admitted, Routed
    <3>2. CASE ~(body[q] < BodyLimit)
      BY <2>4, <2>7, <3>2 DEF BodyChunk, Early
    <3> QED
      BY <3>1, <3>2
  <2>8. ASSUME AskUpstream(q) PROVE IngressInv'
    <3>1. CASE Qualified
      <4>1. stage[q] = "body" /\ stage' = [stage EXCEPT ![q] = "asked"]
            /\ UNCHANGED <<ingress, asks, body, upstream, heads>>
        BY <2>8, <3>1 DEF AskUpstream, To
      <4>2. "asked" \in Stages /\ "asked" \in Early /\ heads[q] = 0 /\ heads' = [heads EXCEPT ![q] = 0]
            /\ upstream' = [upstream EXCEPT ![q] = upstream[q]]
        BY <2>2, <2>3, <4>1 DEF Stages, Early
      <4>3. body' \in [Forwards -> 0 .. BodyLimit] /\ Fits(q, "asked", 0, upstream[q])
        BY <2>1, <2>2, <3>1, <4>1, <4>2 DEF Fits
      <4> QED
        BY <2>1, <4>1, <4>2, <4>3, ForwardMoves
    <3>2. CASE ~Qualified
      BY <2>4, <2>8, <3>2 DEF AskUpstream, Early
    <3> QED
      BY <3>1, <3>2
  <2>9. ASSUME UpstreamAnswers(q) PROVE IngressInv'
    <3>1. /\ stage[q] = "asked" /\ stage' = [stage EXCEPT ![q] = "streaming"]
          /\ UNCHANGED <<ingress, asks, body, upstream>>
      BY <2>9 DEF UpstreamAnswers, To
    <3>2. heads' = [heads EXCEPT ![q] = 1]
      BY <2>1, <2>2, <2>9, <3>1 DEF UpstreamAnswers, WritesHead, Early
    <3> QED
      BY <2>1, <2>2, <2>3, <3>1, <3>2, ForwardMoves DEF Fits, Stages, Early
  <2>10. ASSUME NEW u \in UpstreamOf, upstream' = [upstream EXCEPT ![q] = u], stage[q] = "streaming",
                UNCHANGED <<ingress, asks, stage, body, heads>>
         PROVE  IngressInv'
    BY <2>1, <2>2, <2>3, <2>10, ForwardMoves DEF Fits, Stages, Early
  <2>11. ASSUME UpstreamSends(q) \/ UpstreamEnds(q) \/ (Passes(q) /\ upstream[q].passed < BodyLimit) PROVE IngressInv'
    <3>1. PICK u : \/ UpstreamSends(q) /\ u = [upstream[q] EXCEPT !.sent = upstream[q].sent + 1]
                   \/ UpstreamEnds(q) /\ u = [upstream[q] EXCEPT !.over = TRUE]
                   \/ Passes(q) /\ upstream[q].passed < BodyLimit /\ u = [upstream[q] EXCEPT !.passed = upstream[q].passed + 1]
      BY <2>11
    <3>2. u \in UpstreamOf
      <4>1. upstream[q].sent \in 0 .. MaxBody /\ upstream[q].passed \in 0 .. BodyLimit
        BY <2>1 DEF UpstreamOf
      <4>2. CASE UpstreamSends(q) /\ u = [upstream[q] EXCEPT !.sent = upstream[q].sent + 1]
        <5>1. upstream[q].sent + 1 \in 0 .. MaxBody
          BY <4>1, <4>2, IngressAssumption DEF UpstreamSends
        <5> QED
          BY <2>1, <4>2, <5>1 DEF UpstreamOf
      <4>3. CASE UpstreamEnds(q) /\ u = [upstream[q] EXCEPT !.over = TRUE]
        BY <2>1, <4>3 DEF UpstreamOf
      <4>4. CASE upstream[q].passed < BodyLimit /\ u = [upstream[q] EXCEPT !.passed = upstream[q].passed + 1]
        <5>1. upstream[q].passed + 1 \in 0 .. BodyLimit
          BY <4>1, <4>4, IngressAssumption
        <5> QED
          BY <2>1, <4>4, <5>1 DEF UpstreamOf
      <4> QED
        BY <3>1, <4>2, <4>3, <4>4
    <3>3. upstream' = [upstream EXCEPT ![q] = u] /\ stage[q] = "streaming" /\ UNCHANGED <<ingress, asks, stage, body, heads>>
      BY <2>1, <3>1 DEF UpstreamSends, UpstreamEnds, Passes
    <3> QED
      BY <2>10, <3>2, <3>3
  <2>12. ASSUME NEW at \in {"broken", "complete"}, stage[q] = "streaming", stage' = [stage EXCEPT ![q] = at],
                at = "complete" => upstream[q].over /\ upstream[q].passed = upstream[q].sent,
                UNCHANGED <<ingress, asks, body, heads, upstream>>
         PROVE  IngressInv'
    <3>1. at \in Stages /\ at \notin Early /\ heads[q] = 1 /\ heads' = [heads EXCEPT ![q] = 1]
          /\ upstream' = [upstream EXCEPT ![q] = upstream[q]]
      BY <2>2, <2>3, <2>12 DEF Stages, Early
    <3>2. body' \in [Forwards -> 0 .. BodyLimit] /\ Fits(q, at, 1, upstream[q])
      BY <2>1, <2>2, <2>12, <3>1 DEF Fits
    <3>3. stage' = [stage EXCEPT ![q] = at] /\ UNCHANGED <<ingress, asks>> /\ 1 \in Nat /\ upstream[q] \in UpstreamOf
      BY <2>1, <2>12
    <3> QED
      BY <3>1, <3>2, <3>3, ForwardMoves
  <2>13. ASSUME PipelineBreaks(q) \/ PipelineEnds(q) \/ (Passes(q) /\ ~(upstream[q].passed < BodyLimit)) PROVE IngressInv'
    BY <2>12, <2>13 DEF PipelineBreaks, PipelineEnds, Passes, GuardBreaks, To
  <2> QED
    BY <1>2, <2>5, <2>6, <2>7, <2>8, <2>9, <2>11, <2>13
<1> QED
  BY <1>1, <1>2 DEF IngressNext

(* A response that was ended carries all that the upstream sent, one head is written, *)
(* and only what the guards admitted reaches the upstream (McpIngress), for any      *)
(* requests, bodies and limits.                                                 *)
THEOREM ResponseTheorem == IngressSpec => []ResponseIsWhole
<1>1. IngressInv => ResponseIsWhole
  BY DEF IngressInv
<1> QED
  BY <1>1, IngressInitInv, IngressNextInv, PTL DEF IngressSpec

-------------------------------------------------------------------------------
(* The remote transport.  There is no instance before connect, and behind a handler    *)
(* that is over an open one is awaited by the response's 'finish'.                  *)
InstanceInv ==
  /\ RemoteTypeOK /\ InstanceOutlastsAnswer
  /\ \A q \in McpRequests :
       /\ mcpHandler[q] \in {"new", "authenticate", "body"} => instance[q] = "none"
       /\ q \in awaited => mcpHandler[q] = "over"
       /\ mcpHandler[q] = "over" /\ instance[q] = "open" => q \in awaited

(* Every initial state satisfies the invariant. *)
LEMMA RemoteInitInv == RemoteInit => InstanceInv
  BY DEF RemoteInit, InstanceInv, RemoteTypeOK, InstanceOutlastsAnswer

(* Every step keeps the invariant. *)
LEMMA RemoteNextInv == InstanceInv /\ [RemoteNext]_remoteVars => InstanceInv'
<1> SUFFICES ASSUME InstanceInv, [RemoteNext]_remoteVars PROVE InstanceInv'
  OBVIOUS
<1> USE DEF InstanceInv, RemoteTypeOK, InstanceOutlastsAnswer, Moves, Ended
<1>1. ASSUME NEW q \in McpRequests, RefusesCall(q) PROVE InstanceInv'
  BY <1>1 DEF RefusesCall
<1>2. ASSUME NEW q \in McpRequests, Authenticates(q) PROVE InstanceInv'
  BY <1>2 DEF Authenticates
<1>3. ASSUME NEW q \in McpRequests, ReadsBody(q) PROVE InstanceInv'
  BY <1>3 DEF ReadsBody
<1>4. ASSUME NEW q \in McpRequests, Connects(q) PROVE InstanceInv'
  BY <1>4 DEF Connects
<1>5. ASSUME NEW q \in McpRequests, HandlesRequest(q) PROVE InstanceInv'
  BY <1>5 DEF HandlesRequest
<1>6. ASSUME NEW q \in McpRequests, SdkEnds(q) PROVE InstanceInv'
  BY <1>6 DEF SdkEnds
<1>7. ASSUME NEW q \in McpRequests, HandlerEnds(q) PROVE InstanceInv'
  BY <1>7 DEF HandlerEnds, ClosesWhenFinished
<1>8. ASSUME NEW q \in McpRequests, HandlerThrows(q) PROVE InstanceInv'
  BY <1>8 DEF HandlerThrows, ClosesWhenFinished
<1>9. ASSUME NEW q \in McpRequests, ResponseFinishes(q) PROVE InstanceInv'
  BY <1>9 DEF ResponseFinishes
<1>10. ASSUME NEW q \in McpRequests, ClientGone(q) PROVE InstanceInv'
  BY <1>10 DEF ClientGone
<1>11. CASE UNCHANGED remoteVars
  BY <1>11 DEF remoteVars
<1> QED
  BY <1>1, <1>2, <1>3, <1>4, <1>5, <1>6, <1>7, <1>8, <1>9, <1>10, <1>11 DEF RemoteNext

(* An instance is closed only behind a response that has finished, and none is left    *)
(* open behind one (RemoteMcp), for any requests.                                *)
THEOREM InstanceTheorem == RemoteSpec => []InstanceOutlastsAnswer
<1>1. InstanceInv => InstanceOutlastsAnswer
  BY DEF InstanceInv
<1> QED
  BY <1>1, RemoteInitInv, RemoteNextInv, PTL DEF RemoteSpec

-------------------------------------------------------------------------------
(* The voice gateway.  A health check that began when there was a proof looks for none. *)
ProofInv == \A h \in newer : h \in HealthChecks /\ health[h] = "done"
ProofTypes == proof \in {"none", "restored", "turn"} /\ health \in [HealthChecks -> {"new", "restore", "done"}]
ConversationInv == ProofTypes /\ ProofInv

(* Every initial state satisfies the invariant. *)
LEMMA ConversationInitInv == GatewayInit => ConversationInv
  BY DEF GatewayInit, ConversationInv, ProofTypes, ProofInv

(* Every step keeps the invariant, and only a search that may take a proof away does. *)
LEMMA ConversationStep ==
  ASSUME ConversationInv, [GatewayNext]_gateVars
  PROVE  /\ ConversationInv'
         /\ proof # "none" /\ proof' = "none" =>
              GatewayRestarts \/ \E h \in HealthChecks \ newer : health[h] = "restore"
<1> USE DEF ConversationInv, ProofTypes, ProofInv
<1>1. CASE UNCHANGED conversation
  BY <1>1 DEF conversation
<1>2. CASE GatewayRestarts
  BY <1>2 DEF GatewayRestarts
<1>3. ASSUME NEW v \in VoiceCalls, OpensCall(v) \/ OtherAnswered(v) \/ CallRefused(v) \/ TurnAnswered(v)
      PROVE  /\ ConversationInv'
             /\ ~(proof # "none" /\ proof' = "none")
  BY <1>3 DEF OpensCall, OtherAnswered, CallRefused, TurnAnswered, CallGoes
<1>4. ASSUME NEW h \in HealthChecks, HealthBegins(h)
      PROVE  /\ ConversationInv'
             /\ ~(proof # "none" /\ proof' = "none")
  BY <1>4 DEF HealthBegins, NoProof
<1>5. ASSUME NEW h \in HealthChecks, ProofRestored(h)
      PROVE  ConversationInv' /\ h \notin newer /\ health[h] = "restore"
  BY <1>5 DEF ProofRestored
<1>6. CASE \/ GateTick \/ \E e \in gateSessions : ForgetsSession(e)
           \/ \E l \in Logins : LoginBegins(l) \/ LoginUnusable(l) \/ LoginWrong(l) \/ LoginRight(l)
  BY <1>1, <1>6 DEF GateTick, ForgetsSession, LoginBegins, LoginUnusable, LoginWrong, LoginRight
<1>7. CASE UNCHANGED gateVars
  BY <1>1, <1>7 DEF gateVars
<1> QED
  BY <1>2, <1>3, <1>4, <1>5, <1>6, <1>7 DEF GatewayNext

(* The proof of a conversation gives way only to a restart or to the search of a health  *)
(* check that began before there was one (voice-auth-gateway.mjs, health), for any       *)
(* turns and health checks.                                                     *)
THEOREM ProofTheorem == GatewaySpec => ProofYieldsToOlder
<1>1. ConversationInv /\ [GatewayNext]_gateVars =>
        [proof # "none" /\ proof' = "none" =>
           GatewayRestarts \/ \E h \in HealthChecks \ newer : health[h] = "restore"]_gateVars
  BY ConversationStep
<1>2. ConversationInv /\ [GatewayNext]_gateVars => ConversationInv'
  BY ConversationStep
<1> QED
  BY <1>1, <1>2, ConversationInitInv, PTL DEF GatewaySpec, ProofYieldsToOlder

-------------------------------------------------------------------------------
(* The guesses counted in the current window, which ends at r, are the last c; those   *)
(* before them came at least a window before r, and those that lie a whole limit       *)
(* further back at least two.                                                   *)
Windowed(g, c, r) ==
  /\ c \in 0 .. LoginLimit /\ c <= Len(g)
  /\ \A k \in 1 .. Len(g) - c : g[k] + LoginWindow <= r
  /\ \A k \in 1 .. Len(g) - c - LoginLimit : g[k] + LoginWindow + LoginWindow <= r
  /\ \A k \in 1 .. Len(g) - 2 * LoginLimit : g[k] + LoginWindow <= g[k + 2 * LoginLimit]
Guesses(g, now) == g \in Seq(Nat) /\ \A k \in 1 .. Len(g) : g[k] <= now

(* A window that is over is renewed. *)
LEMMA WindowRenewed ==
  ASSUME NEW g, NEW now \in Nat, Guesses(g, now), NEW c \in Nat, NEW r \in Nat, Windowed(g, c, r), r <= now
  PROVE  Windowed(g, 0, now + LoginWindow)
<1> USE GatewayAssumption
<1>1. Len(g) \in Nat /\ \A k \in 1 .. Len(g) : g[k] \in Nat /\ g[k] <= now
  BY DEF Guesses
<1>2. c \in Nat /\ c <= LoginLimit /\ c <= Len(g) /\ LoginLimit \in Nat /\ LoginWindow \in Nat
  BY DEF Windowed
<1>3. ASSUME NEW k \in 1 .. Len(g) - LoginLimit PROVE g[k] + LoginWindow + LoginWindow <= now + LoginWindow
  <2>1. k \in 1 .. Len(g) - c /\ k \in 1 .. Len(g)
    BY <1>1, <1>2
  <2>2. g[k] + LoginWindow <= r
    BY <2>1 DEF Windowed
  <2> QED
    BY <1>1, <1>2, <2>1, <2>2
<1>4. \A k \in 1 .. Len(g) : g[k] + LoginWindow <= now + LoginWindow
  BY <1>1, <1>2
<1> QED
  BY <1>1, <1>2, <1>3, <1>4 DEF Windowed

(* The first window. *)
LEMMA WindowStarted ==
  ASSUME NEW r \in Nat PROVE Windowed(<<>>, 0, r)
  BY GatewayAssumption DEF Windowed

(* A guess in a window that has room. *)
LEMMA WindowCounts ==
  ASSUME NEW g, NEW now \in Nat, Guesses(g, now), NEW c \in Nat, NEW r \in Nat, Windowed(g, c, r),
         c < LoginLimit, r <= now + LoginWindow
  PROVE  Guesses(Append(g, now), now) /\ Windowed(Append(g, now), c + 1, r)
<1> USE GatewayAssumption
<1> DEFINE h == Append(g, now)
<1>1. /\ Len(g) \in Nat /\ \A k \in 1 .. Len(g) : g[k] \in Nat /\ g[k] <= now
      /\ h \in Seq(Nat) /\ Len(h) = Len(g) + 1 /\ h[Len(g) + 1] = now
      /\ \A k \in 1 .. Len(g) : h[k] = g[k]
  BY DEF Guesses
<1>2. c <= Len(g) /\ LoginLimit \in Nat /\ LoginLimit >= 1 /\ LoginWindow \in Nat
  BY DEF Windowed
<1> HIDE DEF h
<1>3. Guesses(h, now)
  <2> SUFFICES ASSUME NEW k \in 1 .. Len(h) PROVE h[k] <= now
    BY <1>1 DEF Guesses
  <2>1. CASE k \in 1 .. Len(g)
    BY <1>1, <2>1
  <2>2. CASE k = Len(g) + 1
    BY <1>1, <2>2
  <2> QED
    BY <1>1, <2>1, <2>2
<1>4. \A k \in 1 .. Len(h) - (c + 1) : h[k] + LoginWindow <= r
  <2>1. Len(h) - (c + 1) = Len(g) - c /\ \A k \in 1 .. Len(g) - c : k \in 1 .. Len(g)
    BY <1>1, <1>2
  <2>2. \A k \in 1 .. Len(g) - c : g[k] + LoginWindow <= r
    BY DEF Windowed
  <2> QED
    BY <1>1, <2>1, <2>2
<1>5. \A k \in 1 .. Len(h) - (c + 1) - LoginLimit : h[k] + LoginWindow + LoginWindow <= r
  <2>1. Len(h) - (c + 1) = Len(g) - c /\ \A k \in 1 .. Len(g) - c - LoginLimit : k \in 1 .. Len(g)
    BY <1>1, <1>2
  <2>2. \A k \in 1 .. Len(g) - c - LoginLimit : g[k] + LoginWindow + LoginWindow <= r
    BY DEF Windowed
  <2> QED
    BY <1>1, <2>1, <2>2
<1>6. ASSUME NEW k \in 1 .. Len(h) - 2 * LoginLimit PROVE h[k] + LoginWindow <= h[k + 2 * LoginLimit]
  <2>1. k \in 1 .. Len(g) /\ h[k] = g[k] /\ g[k] \in Nat
    BY <1>1, <1>2
  <2>2. CASE k \in 1 .. Len(g) - 2 * LoginLimit
    <3>1. k + 2 * LoginLimit \in 1 .. Len(g)
      BY <1>1, <1>2, <2>2
    <3>2. g[k] + LoginWindow <= g[k + 2 * LoginLimit]
      BY <2>2 DEF Windowed
    <3>3. h[k + 2 * LoginLimit] = g[k + 2 * LoginLimit]
      BY <1>1, <3>1
    <3> QED
      BY ONLY <2>1, <3>2, <3>3
  <2>3. CASE k = Len(g) + 1 - 2 * LoginLimit
    <3>1. k \in 1 .. Len(g) - c - LoginLimit /\ h[k + 2 * LoginLimit] = now
      BY <1>1, <1>2, <2>1, <2>3
    <3>2. g[k] + LoginWindow + LoginWindow <= r
      BY <3>1 DEF Windowed
    <3> QED
      BY <1>1, <1>2, <2>1, <3>1, <3>2
  <2>4. Len(h) - 2 * LoginLimit = Len(g) - 2 * LoginLimit + 1
    BY <1>1, <1>2
  <2>5. k \in 1 .. Len(g) - 2 * LoginLimit + 1
    BY <2>4
  <2>6. k <= Len(g) - 2 * LoginLimit \/ k = Len(g) - 2 * LoginLimit + 1
    BY <2>4, <2>5
  <2>7. Len(g) - 2 * LoginLimit + 1 = Len(g) + 1 - 2 * LoginLimit
    BY <1>1, <1>2
  <2> QED
    BY <2>2, <2>3, <2>4, <2>5, <2>6, <2>7
<1>7. c + 1 \in 0 .. LoginLimit /\ c + 1 <= Len(h)
  BY <1>1, <1>2
<1> QED
  BY <1>3, <1>4, <1>5, <1>6, <1>7 DEF Windowed, h

(* While logins come one after the other, one at most is under way; it holds the map's   *)
(* window, where it may still count, or a fresh one if the map has none.              *)
Alone(l) ==
  /\ login[l] \in Objects /\ \A k \in Logins \ {l} : login[k] = NoObject
  /\ failures \in {NoObject, login[l]}
  /\ object[login[l]].count < LoginLimit /\ object[login[l]].reset <= gateTime + LoginWindow
  /\ failures = NoObject => object[login[l]].count = 0
SingleInv ==
  /\ failures \in Objects \union {NoObject}
  /\ object \in [Objects -> [count : Nat, reset : Nat]]
  /\ Guesses(guesses, gateTime)
  /\ failures = NoObject => guesses = <<>>
  /\ failures # NoObject => /\ Windowed(guesses, object[failures].count, object[failures].reset)
                            /\ object[failures].reset <= gateTime + LoginWindow
  /\ \A l \in Logins : login[l] # NoObject => Alone(l)
LoginInv ==
  /\ gateTime \in Nat /\ overlapped \in BOOLEAN /\ login = [l \in Logins |-> login[l]]
  /\ ~overlapped => SingleInv

(* There is an object beside the one that a login holds. *)
LEMMA ObjectsThere == NoObject \notin Objects /\ \A l \in Logins : {1, 2} \subseteq Objects
<1>1. NoObject \notin Objects
  BY DEF Objects, NoObject
<1>2. ASSUME NEW l \in Logins PROVE {1, 2} \subseteq Objects
  <2>1. Cardinality(Logins) \in Nat /\ Cardinality(Logins) # 0
    BY FS_CardinalityType, FS_EmptySet, GatewayAssumption
  <2> QED
    BY <2>1 DEF Objects
<1> QED
  BY <1>1, <1>2

(* Every initial state satisfies the invariant. *)
LEMMA LoginInitInv == GatewayInit => LoginInv
<1> SUFFICES ASSUME GatewayInit PROVE LoginInv
  OBVIOUS
<1>1. Guesses(guesses, gateTime)
  BY EmptySeq DEF GatewayInit, Guesses
<1>2. object \in [Objects -> [count : Nat, reset : Nat]]
  BY DEF GatewayInit, NewWindow
<1> QED
  BY <1>1, <1>2 DEF GatewayInit, LoginInv, SingleInv

(* The map's window lasts, or it is over and is renewed. *)
LEMMA BeginsKeeps == ASSUME LoginInv, NEW l \in Logins, LoginBegins(l) PROVE LoginInv'
<1> USE GatewayAssumption
<1> DEFINE o == IF failures # NoObject THEN failures ELSE CHOOSE x \in Unheld : TRUE
           fresh == IF Lasts(o) THEN object[o] ELSE [count |-> 0, reset |-> gateTime + LoginWindow]
<1>1. /\ login[l] = NoObject /\ object' = [object EXCEPT ![o] = fresh]
      /\ login' = IF MayTry(fresh.count) THEN [login EXCEPT ![l] = o] ELSE login
      /\ overlapped' = (overlapped \/ (MayTry(fresh.count) /\ \E k \in Logins : login[k] # NoObject))
      /\ UNCHANGED <<gateTime, failures, guesses>>
  BY DEF LoginBegins
<1>2. gateTime' \in Nat /\ overlapped' \in BOOLEAN /\ login' = [k \in Logins |-> login'[k]]
  <2> HIDE DEF o, fresh
  <2>1. gateTime' \in Nat /\ overlapped \in BOOLEAN /\ login = [k \in Logins |-> login[k]]
    BY <1>1 DEF LoginInv
  <2>2. overlapped' \in BOOLEAN
    BY <1>1, <2>1
  <2>3. login' = [k \in Logins |-> login'[k]]
    BY <1>1, <2>1
  <2> QED
    BY <2>1, <2>2, <2>3
<1> SUFFICES ASSUME ~overlapped' PROVE SingleInv'
  BY <1>2 DEF LoginInv
<1>3. SingleInv /\ (MayTry(fresh.count) => \A k \in Logins : login[k] = NoObject)
  <2>1. ~overlapped /\ ~(MayTry(fresh.count) /\ \E k \in Logins : login[k] # NoObject)
    BY <1>1
  <2> QED
    BY <2>1 DEF LoginInv
<1>4. o \in Objects /\ (failures # NoObject => o = failures)
  <2>1. CASE failures # NoObject
    BY <1>3, <2>1 DEF SingleInv
  <2>2. CASE failures = NoObject
    <3>1. PICK x \in {1, 2} : \A k \in Logins : login[k] # x
      BY <1>3, ObjectsThere DEF SingleInv, Alone, NoObject
    <3>2. x \in Unheld
      BY <1>3, <2>2, <3>1, ObjectsThere DEF Unheld
    <3>3. o \in Unheld
      BY <2>2, <3>2
    <3> QED
      BY <2>2, <3>3 DEF Unheld
  <2> QED
    BY <2>1, <2>2
<1>5. PICK w \in [count : Nat, reset : Nat] :
        /\ w = fresh /\ w.reset <= gateTime + LoginWindow
        /\ failures = NoObject => w.count = 0
        /\ failures # NoObject => Windowed(guesses, w.count, w.reset)
  <2>1. gateTime \in Nat /\ object[o] \in [count : Nat, reset : Nat] /\ Guesses(guesses, gateTime)
    BY <1>3, <1>4 DEF LoginInv, SingleInv
  <2>2. CASE Lasts(o)
    BY <1>3, <1>4, <2>1, <2>2, ObjectsThere DEF SingleInv, Lasts
  <2>3. CASE ~Lasts(o)
    <3>1. fresh = [count |-> 0, reset |-> gateTime + LoginWindow]
      BY <2>3
    <3>2. failures # NoObject => Windowed(guesses, 0, gateTime + LoginWindow)
      BY <1>3, <1>4, <2>1, <2>3, WindowRenewed DEF SingleInv, Lasts
    <3>3. /\ [count |-> 0, reset |-> gateTime + LoginWindow] \in [count : Nat, reset : Nat]
          /\ gateTime + LoginWindow <= gateTime + LoginWindow
      BY <2>1
    <3> HIDE DEF fresh
    <3> QED
      BY <3>1, <3>2, <3>3
  <2> QED
    BY <2>2, <2>3
<1> HIDE DEF o, fresh
<1>6. /\ object' \in [Objects -> [count : Nat, reset : Nat]] /\ object'[o] = w
      /\ MayTry(w.count) => login' = [login EXCEPT ![l] = o] /\ \A k \in Logins : login[k] = NoObject
      /\ ~MayTry(w.count) => login' = login
  BY <1>1, <1>3, <1>4, <1>5 DEF SingleInv
<1>7. ASSUME NEW k \in Logins, login'[k] # NoObject PROVE Alone(k)'
  <2>1. CASE MayTry(w.count)
    <3>1. k = l /\ login'[l] = o /\ \A j \in Logins \ {l} : login'[j] = NoObject
      BY <1>2, <1>6, <1>7, <2>1 DEF LoginInv
    <3> QED
      BY <1>1, <1>4, <1>5, <1>6, <2>1, <3>1 DEF Alone, MayTry
  <2>2. CASE ~MayTry(w.count)
    <3>1. Alone(k) /\ failures # NoObject
      BY <1>3, <1>5, <1>6, <1>7, <2>2 DEF SingleInv, MayTry
    <3>2. login[k] = o /\ object[o].count < LoginLimit
      BY <1>4, <3>1 DEF Alone
    <3>3. w.count < LoginLimit
      <4>1. CASE Lasts(o)
        BY <1>5, <3>2, <4>1 DEF fresh
      <4>2. CASE ~Lasts(o)
        BY <1>5, <4>2 DEF fresh
      <4> QED
        BY <4>1, <4>2
    <3> QED
      BY <2>2, <3>3 DEF MayTry
  <2> QED
    BY <2>1, <2>2
<1> QED
  BY <1>1, <1>3, <1>4, <1>5, <1>6, <1>7 DEF SingleInv

(* The body of a login is unusable, or its password is wrong. *)
LEMMA EndsKeeps ==
  ASSUME LoginInv, NEW l \in Logins, LoginUnusable(l) \/ LoginWrong(l) PROVE LoginInv'
<1> USE GatewayAssumption
<1>1. /\ login[l] # NoObject /\ login' = [login EXCEPT ![l] = NoObject]
      /\ UNCHANGED <<gateTime, overlapped>>
  BY DEF LoginUnusable, LoginWrong, LoginEnds
<1>2. gateTime' \in Nat /\ overlapped' \in BOOLEAN /\ login' = [k \in Logins |-> login'[k]]
  BY <1>1 DEF LoginInv
<1> SUFFICES ASSUME ~overlapped PROVE SingleInv'
  BY <1>1, <1>2 DEF LoginInv
<1>3. SingleInv /\ Alone(l) /\ login[l] \in Objects /\ gateTime \in Nat
  BY <1>1 DEF LoginInv, SingleInv, Alone
<1>4. \A k \in Logins : login'[k] = NoObject
  BY <1>1, <1>3 DEF LoginInv, Alone
<1>5. NewWindow \in [count : Nat, reset : Nat]
  BY DEF NewWindow
<1>6. CASE LoginUnusable(l)
  <2>1. failures' = failures /\ object' = Collected(object) /\ guesses' = guesses
    BY <1>6 DEF LoginUnusable
  <2>2. object' \in [Objects -> [count : Nat, reset : Nat]]
    BY <1>3, <1>5, <2>1 DEF Collected, SingleInv
  <2>3. failures # NoObject => object'[failures] = object[failures]
    BY <1>3, <2>1 DEF Collected, SingleInv
  <2> QED
    BY <1>1, <1>3, <1>4, <2>1, <2>2, <2>3 DEF SingleInv
<1>7. CASE LoginWrong(l)
  <2>1. /\ failures' = login[l] /\ guesses' = Append(guesses, gateTime)
        /\ object' = Collected([object EXCEPT ![login[l]].count = @ + 1])
    BY <1>7 DEF LoginWrong
  <2>2. PICK w \in [count : Nat, reset : Nat] : w = object[login[l]]
    BY <1>3 DEF SingleInv
  <2>3. PICK windows \in [Objects -> [count : Nat, reset : Nat]] :
          /\ object' = Collected(windows)
          /\ windows[login[l]].count = w.count + 1 /\ windows[login[l]].reset = w.reset
    <3>1. [object EXCEPT ![login[l]].count = @ + 1] = [object EXCEPT ![login[l]] = [w EXCEPT !.count = w.count + 1]]
      BY <2>2
    <3>2. [w EXCEPT !.count = w.count + 1] \in [count : Nat, reset : Nat]
          /\ [w EXCEPT !.count = w.count + 1].count = w.count + 1 /\ [w EXCEPT !.count = w.count + 1].reset = w.reset
      BY <2>2
    <3> QED
      BY <1>3, <2>1, <3>1, <3>2 DEF SingleInv
  <2>4. object' \in [Objects -> [count : Nat, reset : Nat]] /\ object'[login[l]] = windows[login[l]]
    <3>1. object' = [o \in Objects |-> IF o = failures' \/ \E k \in Logins : login'[k] = o THEN windows[o] ELSE NewWindow]
      BY <2>3 DEF Collected
    <3>2. login[l] \in Objects /\ failures' = login[l]
      BY <1>3, <2>1
    <3>3. object'[login[l]] = windows[login[l]]
      BY <3>1, <3>2
    <3>4. object' \in [Objects -> [count : Nat, reset : Nat]]
      BY <1>5, <3>1
    <3> QED
      BY <3>3, <3>4
  <2>5. w.count < LoginLimit /\ w.reset <= gateTime + LoginWindow /\ Windowed(guesses, w.count, w.reset)
    <3>1. CASE failures = NoObject
      BY <1>3, <2>2, <3>1, WindowStarted DEF SingleInv, Alone
    <3>2. CASE failures # NoObject
      BY <1>3, <2>2, <3>2 DEF SingleInv, Alone
    <3> QED
      BY <1>3, <2>2, <3>1, <3>2 DEF Alone
  <2>6. Guesses(guesses', gateTime) /\ Windowed(guesses', w.count + 1, w.reset)
    BY <1>3, <2>1, <2>5, WindowCounts DEF SingleInv
  <2> QED
    BY <1>1, <1>3, <1>4, <2>1, <2>3, <2>4, <2>5, <2>6, ObjectsThere DEF SingleInv
<1> QED
  BY <1>6, <1>7

(* The password is right. *)
LEMMA RightKeeps == ASSUME LoginInv, NEW l \in Logins, LoginRight(l) PROVE LoginInv'
<1>1. /\ login[l] # NoObject /\ login' = [login EXCEPT ![l] = NoObject] /\ failures' = NoObject
      /\ object' = Collected(object) /\ guesses' = <<>> /\ gateTime' = gateTime
      /\ overlapped' = \E k \in Logins \ {l} : login[k] # NoObject
  BY DEF LoginRight, LoginEnds
<1>2. gateTime' \in Nat /\ overlapped' \in BOOLEAN /\ login' = [k \in Logins |-> login'[k]]
  BY <1>1 DEF LoginInv
<1> SUFFICES ASSUME ~overlapped' PROVE SingleInv'
  BY <1>2 DEF LoginInv
<1>3. \A k \in Logins : login'[k] = NoObject
  BY <1>1 DEF LoginInv
<1>4. \A o \in Objects : object'[o] = NewWindow /\ object' = [x \in Objects |-> object'[x]]
  BY <1>1, <1>3, ObjectsThere DEF Collected
<1>5. object' \in [Objects -> [count : Nat, reset : Nat]]
  BY <1>4, ObjectsThere DEF NewWindow
<1>6. Guesses(guesses', gateTime')
  BY <1>1, EmptySeq DEF Guesses
<1> QED
  BY <1>1, <1>3, <1>5, <1>6 DEF SingleInv

(* Every step keeps the invariant. *)
LEMMA LoginNextInv == LoginInv /\ [GatewayNext]_gateVars => LoginInv'
<1> SUFFICES ASSUME LoginInv, [GatewayNext]_gateVars PROVE LoginInv'
  OBVIOUS
<1>1. CASE UNCHANGED <<gateTime, logins>>
  BY <1>1 DEF logins, LoginInv, SingleInv, Alone
<1>2. CASE GateTick
  <2>1. gateTime' = gateTime + 1 /\ UNCHANGED logins /\ gateTime \in Nat
    BY <1>2 DEF GateTick, LoginInv
  <2>2. ASSUME SingleInv PROVE SingleInv'
    <3>1. Guesses(guesses, gateTime + 1)
      BY <2>1, <2>2 DEF SingleInv, Guesses
    <3>2. \A l \in Logins : Alone(l) => Alone(l)'
      BY <2>1, <2>2, GatewayAssumption DEF Alone, SingleInv, logins
    <3>3. failures # NoObject => object[failures].reset <= gateTime + 1 + LoginWindow
      BY <2>1, <2>2, GatewayAssumption DEF SingleInv
    <3> QED
      BY <2>1, <2>2, <3>1, <3>2, <3>3 DEF SingleInv, logins
  <2> QED
    BY <2>1, <2>2 DEF LoginInv, logins
<1>3. CASE GatewayRestarts
  <2>1. /\ failures' = NoObject /\ login' = [l \in Logins |-> NoObject] /\ guesses' = <<>> /\ gateTime' = gateTime
        /\ object' = [o \in Objects |-> NewWindow] /\ overlapped' = FALSE
    BY <1>3 DEF GatewayRestarts
  <2>2. object' \in [Objects -> [count : Nat, reset : Nat]] /\ Guesses(guesses', gateTime')
    BY <2>1, EmptySeq DEF NewWindow, Guesses
  <2> QED
    BY <2>1, <2>2 DEF LoginInv, SingleInv
<1>4. CASE (\E e \in gateSessions : ForgetsSession(e)) \/ UNCHANGED gateVars
           \/ (\E v \in VoiceCalls : OpensCall(v) \/ OtherAnswered(v) \/ CallRefused(v) \/ TurnAnswered(v))
           \/ (\E h \in HealthChecks : HealthBegins(h) \/ ProofRestored(h))
  BY <1>1, <1>4 DEF ForgetsSession, OpensCall, OtherAnswered, CallRefused, TurnAnswered, CallGoes, HealthBegins,
                    ProofRestored, gateVars
<1> QED
  BY <1>2, <1>3, <1>4, BeginsKeeps, EndsKeeps, RightKeeps DEF GatewayNext

(* As long as logins come one after the other, of any 2 * LoginLimit + 1 wrong passwords  *)
(* the last comes at least a rate window after the first (voice-auth-gateway.mjs, login), *)
(* for any logins, limit and window.                                            *)
THEOREM LoginsTheorem == GatewaySpec => []LoginsAreLimited
<1>1. LoginInv => LoginsAreLimited
  BY GatewayAssumption DEF LoginInv, SingleInv, Windowed, LoginsAreLimited
<1> QED
  BY <1>1, LoginInitInv, LoginNextInv, PTL DEF GatewaySpec

-------------------------------------------------------------------------------
(* The audit.  Receipts are in the file in their order, each with one end at most; and   *)
(* what was there when an audit looked stays.                                    *)
LedgerInv ==
  /\ \A k \in 1 .. Len(ledger) : ledger[k].receipt <= issued
  /\ \A j, k \in 1 .. Len(ledger) : j < k =>
       /\ ledger[j].receipt <= ledger[k].receipt
       /\ ledger[j].ends => ledger[j].receipt < ledger[k].receipt
AuditInv ==
  /\ AuditTypeOK /\ LedgerInv /\ HistoryIsTrue
  /\ audit.at = "stat" => audit.size <= Len(ledger)

(* Every initial state satisfies the invariant. *)
LEMMA AuditInitInv == AuditInit => AuditInv
  BY AuditAssumption DEF AuditInit, AuditInv, AuditTypeOK, LedgerInv, HistoryIsTrue

(* An append, of one unit or two, keeps the receipts in order. *)
LEMMA RecordKeeps ==
  ASSUME AuditInv, NEW whole \in BOOLEAN, RecordReceipt(whole)
  PROVE  AuditInv'
<1> DEFINE new == IF whole THEN Receipt(issued') ELSE <<Head(Receipt(issued'))>>
<1>1. /\ ledger \in Seq(Unit) /\ issued \in 0 .. MaxReceipts /\ issued' = issued + 1 /\ issued' \in 1 .. MaxReceipts
      /\ ledger' = ledger \o new
  BY AuditAssumption DEF AuditInv, AuditTypeOK, RecordReceipt
<1>2. /\ new \in Seq(Unit) /\ Len(new) \in 1 .. 2
      /\ \A k \in 1 .. Len(new) : new[k].receipt = issued' /\ (new[k].ends => k = 2)
  <2> DEFINE a == [receipt |-> issued', ends |-> FALSE]
             b == [receipt |-> issued', ends |-> TRUE]
  <2>1. a \in Unit /\ b \in Unit /\ a.receipt = issued' /\ b.receipt = issued' /\ ~a.ends
    BY <1>1 DEF Unit
  <2>2. Receipt(issued') = <<a, b>>
    BY DEF Receipt
  <2>3. Head(Receipt(issued')) = a
    BY <2>2
  <2>4. new = <<a, b>> \/ new = <<a>>
    BY <2>2, <2>3
  <2> HIDE DEF a, b, new
  <2>5. CASE new = <<a, b>>
    BY <2>1, <2>5
  <2>6. CASE new = <<a>>
    BY <2>1, <2>6
  <2> QED
    BY <2>4, <2>5, <2>6
<1> HIDE DEF new
<1>3. /\ ledger' \in Seq(Unit) /\ Len(ledger') = Len(ledger) + Len(new)
      /\ \A k \in 1 .. Len(ledger) : ledger'[k] = ledger[k]
      /\ \A k \in Len(ledger) + 1 .. Len(ledger') : ledger'[k] = new[k - Len(ledger)]
  BY <1>1, <1>2, ConcatProperties
<1>4. \A k \in Len(ledger) + 1 .. Len(ledger') :
        ledger'[k].receipt = issued' /\ (ledger'[k].ends => k = Len(ledger) + 2)
  BY <1>1, <1>2, <1>3
<1>5. LedgerInv'
  <2>0. \A k \in 1 .. Len(ledger) : ledger[k].receipt \in Nat /\ ledger[k].receipt <= issued
    <3> SUFFICES ASSUME NEW k \in 1 .. Len(ledger)
                 PROVE  ledger[k].receipt \in Nat /\ ledger[k].receipt <= issued
      OBVIOUS
    <3>1. ledger[k] \in Unit
      BY <1>1
    <3> QED
      BY <3>1, AuditAssumption DEF AuditInv, LedgerInv, Unit
  <2>1. ASSUME NEW k \in 1 .. Len(ledger') PROVE ledger'[k].receipt <= issued' /\ ledger'[k].receipt \in Nat
    <3>1. CASE k \in 1 .. Len(ledger)
      BY <3>1, <1>1, <1>3, <2>0
    <3>2. CASE k \in Len(ledger) + 1 .. Len(ledger')
      BY <3>2, <1>1, <1>4
    <3> QED
      BY <3>1, <3>2, <1>1, <1>2, <1>3
  <2>2. ASSUME NEW j \in 1 .. Len(ledger'), NEW k \in 1 .. Len(ledger'), j < k
        PROVE  /\ ledger'[j].receipt <= ledger'[k].receipt
               /\ ledger'[j].ends => ledger'[j].receipt < ledger'[k].receipt
    <3>1. CASE k <= Len(ledger)
      BY <2>2, <3>1, <1>1, <1>3 DEF AuditInv, LedgerInv
    <3>2. CASE k > Len(ledger) /\ j <= Len(ledger)
      <4>1. ledger'[j].receipt \in Nat /\ ledger'[j].receipt <= issued
        BY <3>2, <1>3, <2>0
      <4>2. ledger'[k].receipt = issued'
        BY <3>2, <1>1, <1>3, <1>4
      <4> QED
        BY <4>1, <4>2, <1>1
    <3>3. CASE j > Len(ledger)
      BY <2>2, <3>3, <1>1, <1>2, <1>3, <1>4
    <3> QED
      BY <2>2, <3>1, <3>2, <3>3, <1>1, <1>2, <1>3
  <2> QED
    BY <2>1, <2>2 DEF LedgerInv
<1>6. audit' = audit /\ readOf' = readOf
  BY DEF RecordReceipt
<1>7. HistoryIsTrue'
  BY <1>6 DEF AuditInv, HistoryIsTrue
<1> QED
  BY <1>1, <1>2, <1>3, <1>5, <1>6, <1>7 DEF AuditInv, AuditTypeOK

(* Of the lines of a window, those that are kept reach up to its end. *)
LEMMA KeptReachEnd ==
  ASSUME NEW S \in SUBSET Nat, IsFiniteSet(S), NEW m \in Nat, NEW e \in S, NEW d \in S, d > e,
         Cardinality({x \in S : x > e}) < m
  PROVE  Cardinality({x \in S : x > d}) < m
<1>0. e \in Nat /\ d \in Nat /\ \A x \in S : x \in Nat
  OBVIOUS
<1>1. {x \in S : x > e} \in SUBSET S /\ {x \in S : x > d} \in SUBSET {x \in S : x > e}
  <2>1. \A x \in S : x > d => x > e
    BY <1>0
  <2> QED
    BY <2>1
<1>2. IsFiniteSet({x \in S : x > e})
  BY <1>1, FS_Subset
<1>3. Cardinality({x \in S : x > d}) <= Cardinality({x \in S : x > e})
  BY <1>1, <1>2, FS_Subset
<1>4. Cardinality({x \in S : x > d}) \in Nat /\ Cardinality({x \in S : x > e}) \in Nat
  BY <1>1, <1>2, FS_Subset, FS_CardinalityType
<1> QED
  BY <1>3, <1>4

(* No line has as many after it as there are. *)
LEMMA FewerAfter ==
  ASSUME NEW S \in SUBSET Nat, IsFiniteSet(S), NEW e \in S
  PROVE  Cardinality({x \in S : x > e}) < Cardinality(S) /\ Cardinality(S) \in Nat
<1>1. e \in Nat /\ ~(e > e)
  <2>1. e \in Nat
    OBVIOUS
  <2> QED
    BY <2>1
<1>2. {x \in S : x > e} \in SUBSET S /\ e \notin {x \in S : x > e}
  BY <1>1
<1>3. /\ Cardinality({x \in S : x > e}) <= Cardinality(S) /\ Cardinality({x \in S : x > e}) # Cardinality(S)
      /\ IsFiniteSet({x \in S : x > e})
  BY <1>2, FS_Subset
<1>4. Cardinality(S) \in Nat /\ Cardinality({x \in S : x > e}) \in Nat
  BY <1>3, FS_CardinalityType
<1> QED
  BY <1>3, <1>4

(* A read that is answered. *)
LEMMA ReadIsTrue ==
  ASSUME AuditInv, ReadHistory, audit'.at = "ok"
  PROVE  HistoryIsTrue' /\ audit'.rows \subseteq Nat
<1> DEFINE size == audit.size
           ends == LineEnds(WindowStart + 1, size)
           lines == ShiftsCut(ends)
           most == IF size > 0 /\ ledger[size].ends THEN RowLimit - 1 ELSE RowLimit
           whole == {e \in 2 .. size : SubSeq(ledger, e - 1, e) = Receipt(ledger[e].receipt)}
           all == {e \in 1 .. size : ledger[e].ends}
<1>1. /\ ledger \in Seq(Unit) /\ size \in Nat /\ size <= Len(ledger) /\ audit.at = "stat"
      /\ RowLimit \in Nat \ {0} /\ WindowLimit \in Nat \ {0}
      /\ WindowStart \in Nat /\ (WindowStart = 0 <=> size <= WindowLimit)
  BY AuditAssumption DEF AuditInv, AuditTypeOK, ReadHistory, WindowStart
<1>2. /\ readOf' = ledger /\ audit'.rows = AuditRows /\ audit'.size = size
      /\ \A e \in AuditRows : WellFormed(e)
  BY <1>1 DEF ReadHistory, AuditInv, AuditTypeOK
<1>3. AuditRows = {e \in lines : Cardinality({d \in lines : d > e}) < most}
  BY DEF AuditRows
<1>4. /\ ends = {e \in all : e > WindowStart} /\ lines \subseteq ends /\ all \subseteq Nat
      /\ WindowStart = 0 => lines = all
  BY <1>1 DEF LineEnds, ShiftsCut
<1>5. IsFiniteSet(all) /\ IsFiniteSet(lines) /\ most \in Nat
  <2>1. IsFiniteSet(1 .. size)
    BY <1>1, FS_Interval
  <2>2. IsFiniteSet(all)
    BY <2>1, FS_Subset
  <2>3. lines \in SUBSET all
    BY <1>4
  <2>4. IsFiniteSet(lines)
    BY <2>2, <2>3, FS_Subset
  <2> QED
    BY <1>1, <2>2, <2>4
<1>6. \A e \in 2 .. size : SubSeq(ledger, e - 1, e) = Receipt(ledger[e].receipt) => ledger[e].ends
  <2> SUFFICES ASSUME NEW e \in 2 .. size, SubSeq(ledger, e - 1, e) = Receipt(ledger[e].receipt)
               PROVE  ledger[e].ends
    OBVIOUS
  <2>1. SubSeq(ledger, e - 1, e)[2] = ledger[e]
    BY <1>1, SubSeqProperties
  <2>2. Receipt(ledger[e].receipt)[2].ends = TRUE
    BY DEF Receipt
  <2> QED
    BY <2>1, <2>2
<1>7. whole \subseteq all
  <2> SUFFICES ASSUME NEW e \in whole PROVE e \in all
    OBVIOUS
  <2>1. e \in 2 .. size /\ ledger[e].ends
    BY <1>6
  <2> QED
    BY <1>1, <2>1
<1>8. AuditRows \subseteq whole
  <2> SUFFICES ASSUME NEW e \in AuditRows PROVE e \in whole
    OBVIOUS
  <2>1. e \in all /\ WellFormed(e)
    BY <1>2, <1>3, <1>4
  <2>2. e - 1 \in WindowStart + 1 .. e
    BY <2>1 DEF WellFormed, LineOf
  <2> QED
    BY <1>1, <2>1, <2>2 DEF WellFormed
<1>9. \A d, e \in AuditRows : d < e => ledger[d].receipt < ledger[e].receipt
  <2> SUFFICES ASSUME NEW d \in AuditRows, NEW e \in AuditRows, d < e
               PROVE  ledger[d].receipt < ledger[e].receipt
    OBVIOUS
  <2>1. d \in 1 .. Len(ledger) /\ e \in 1 .. Len(ledger) /\ ledger[d].ends
    <3>1. d \in all /\ e \in all
      BY <1>7, <1>8
    <3> QED
      BY <1>1, <3>1
  <2> QED
    BY <2>1 DEF AuditInv, LedgerInv
<1>10. \A e \in AuditRows, d \in whole : d > e => d \in AuditRows
  <2> SUFFICES ASSUME NEW e \in AuditRows, NEW d \in whole, d > e PROVE d \in AuditRows
    OBVIOUS
  <2>1. e \in lines /\ d \in all /\ e \in ends
    BY <1>3, <1>4, <1>7
  <2>2. d \in ends
    BY <1>1, <1>4, <2>1
  <2>3. d \in lines
    BY <2>1, <2>2 DEF ShiftsCut
  <2>4. lines \in SUBSET Nat /\ Cardinality({x \in lines : x > e}) < most
    BY <1>3, <1>4
  <2>5. Cardinality({x \in lines : x > d}) < most
    BY ONLY <1>5, <2>1, <2>3, <2>4, d > e, KeptReachEnd
  <2> QED
    BY <1>3, <2>3, <2>5
<1>11. ASSUME size <= WindowLimit, Cardinality(all) < RowLimit PROVE AuditRows = whole
  <2> SUFFICES ASSUME NEW e \in whole PROVE e \in AuditRows
    BY <1>8
  <2>1. e \in all /\ lines = all /\ lines \in SUBSET Nat
    BY <1>1, <1>4, <1>7, <1>11
  <2>2. Cardinality({x \in lines : x > e}) < Cardinality(lines) /\ Cardinality(lines) \in Nat
    BY ONLY <1>5, <2>1, FewerAfter
  <2>3. {x \in lines : x > e} \in SUBSET lines
    OBVIOUS
  <2>4. Cardinality({x \in lines : x > e}) \in Nat
    BY ONLY <1>5, <2>3, FS_Subset, FS_CardinalityType
  <2>5. Cardinality({x \in lines : x > e}) < most
    <3>1. Cardinality(lines) < RowLimit
      BY <1>11, <2>1
    <3>2. most = RowLimit \/ most = RowLimit - 1
      OBVIOUS
    <3> HIDE DEF most, lines
    <3> QED
      BY <1>1, <2>2, <2>4, <3>1, <3>2
  <2> QED
    BY <1>3, <2>1, <2>5
<1>12. AuditRows \subseteq {e \in whole : e > 2 => ledger[e - 2].ends}
  <2> SUFFICES ASSUME NEW e \in AuditRows, e > 2 PROVE ledger[e - 2].ends
    BY <1>8
  <2>1. e \in lines /\ e \in Nat /\ LineOf(e) = {e - 1, e}
    BY <1>2, <1>3, <1>4 DEF WellFormed
  <2>2. e - 1 >= WindowStart + 1 /\ ~ledger[e - 1].ends
    <3>1. e - 1 \in WindowStart + 1 .. e /\ LineEnds(e - 1, e - 1) = {}
      BY <2>1 DEF LineOf
    <3>2. e - 1 \in (e - 1) .. (e - 1)
      BY <2>1
    <3> QED
      BY <1>1, <2>1, <3>1, <3>2 DEF LineEnds
  <2>3. CASE e - 2 >= WindowStart + 1
    <3>1. e - 2 \in WindowStart + 1 .. e /\ e - 2 \notin LineOf(e)
      BY <1>1, <2>1, <2>3
    <3>2. PICK x \in (e - 2) .. (e - 1) : ledger[x].ends
      BY <3>1 DEF LineOf, LineEnds
    <3>3. x = e - 2 \/ x = e - 1
      BY <2>1
    <3> QED
      BY <2>2, <3>2, <3>3
  <2>4. CASE e - 2 < WindowStart + 1
    <3>1. WindowStart = e - 2 /\ WindowStart > 0
      BY <1>1, <2>1, <2>2, <2>4
    <3>2. PICK d \in ends : d < e
      BY <2>1, <3>1 DEF ShiftsCut
    <3>3. d \in WindowStart + 1 .. size /\ ledger[d].ends
      BY DEF LineEnds
    <3>4. d = e - 1
      BY <1>1, <2>1, <3>1, <3>2, <3>3
    <3> QED
      BY <2>2, <3>3, <3>4
  <2> QED
    BY <1>1, <2>1, <2>3, <2>4
<1>13. HistoryIsTrue'
  BY <1>2, <1>12, <1>9, <1>10, <1>11 DEF HistoryIsTrue
<1> QED
  BY <1>2, <1>4, <1>7, <1>8, <1>13

(* Every step keeps the invariant. *)
LEMMA AuditNextInv == AuditInv /\ [AuditNext]_auditVars => AuditInv'
<1> SUFFICES ASSUME AuditInv, [AuditNext]_auditVars PROVE AuditInv'
  OBVIOUS
<1>1. CASE OpenHistory
  <2>1. /\ UNCHANGED <<ledger, issued, readOf>> /\ audit.at = "none"
        /\ audit' = [audit EXCEPT !.at = "stat", !.size = Len(ledger)] \/ audit' = [audit EXCEPT !.at = "error"]
    BY <1>1 DEF OpenHistory
  <2>0. audit \in [at : {"none", "stat", "ok", "error"}, size : Nat, rows : SUBSET Nat] /\ Len(ledger) \in Nat
    BY DEF AuditInv, AuditTypeOK
  <2>2. /\ AuditTypeOK' /\ audit'.at # "ok"
        /\ audit'.at = "stat" => audit'.size <= Len(ledger)
    <3>1. CASE audit' = [audit EXCEPT !.at = "stat", !.size = Len(ledger)]
      <4>1. /\ audit' = [at |-> "stat", size |-> Len(ledger), rows |-> audit.rows]
            /\ audit.rows \in SUBSET Nat
        BY <2>0, <3>1
      <4>2. /\ audit' \in [at : {"none", "stat", "ok", "error"}, size : Nat, rows : SUBSET Nat]
            /\ audit'.at = "stat" /\ audit'.size = Len(ledger)
        BY <2>0, <4>1
      <4> QED
        BY <2>1, <4>2 DEF AuditInv, AuditTypeOK
    <3>2. CASE audit' = [audit EXCEPT !.at = "error"]
      BY <2>0, <2>1, <3>2 DEF AuditInv, AuditTypeOK
    <3> QED
      BY <2>1, <3>1, <3>2
  <2> QED
    BY <2>1, <2>2 DEF AuditInv, LedgerInv, HistoryIsTrue
<1>2. CASE NextAudit
  BY <1>2 DEF NextAudit, AuditInv, AuditTypeOK, LedgerInv, HistoryIsTrue
<1>3. CASE ReadHistory
  <2>1. /\ readOf' = ledger /\ UNCHANGED <<ledger, issued>>
        /\ audit' = [audit EXCEPT !.at = "ok", !.rows = AuditRows] \/ audit' = [audit EXCEPT !.at = "error"]
    BY <1>3 DEF ReadHistory
  <2>2. audit'.at \in {"ok", "error"}
    BY <2>1 DEF AuditInv, AuditTypeOK
  <2>3. audit'.at = "ok" => HistoryIsTrue' /\ audit'.rows \subseteq Nat
    BY <1>3, ReadIsTrue
  <2>4. AuditTypeOK'
    BY <2>1, <2>3 DEF AuditInv, AuditTypeOK
  <2>5. HistoryIsTrue'
    BY <2>2, <2>3 DEF HistoryIsTrue
  <2> QED
    BY <2>1, <2>2, <2>4, <2>5 DEF AuditInv, LedgerInv
<1>4. CASE UNCHANGED auditVars
  BY <1>4 DEF auditVars, AuditInv, AuditTypeOK, LedgerInv, HistoryIsTrue
<1> QED
  BY <1>1, <1>2, <1>3, <1>4, RecordKeeps DEF AuditNext

(* What an audit answers are receipts written whole, on lines of their own, in their   *)
(* order and without a gap up to the latest, whatever crashes tore and limits cut off    *)
(* (readHistory).                                                               *)
THEOREM HistoryTheorem == AuditSpec => []HistoryIsTrue
<1>1. AuditInv => HistoryIsTrue
  BY DEF AuditInv
<1> QED
  BY <1>1, AuditInitInv, AuditNextInv, PTL DEF AuditSpec

-------------------------------------------------------------------------------
(* The types of the services, and the run that holds them side by side.  Windows: a call's *)
(* text is one that was asked for.                                                *)
UiRest ==
  /\ changes \in 0 .. MaxChanges
  /\ observed \subseteq Observations /\ older \in [Observations -> SUBSET Observations]
  /\ \A c \in UiCalls : call[c].at # "idle" => call[c].text \in Texts
  /\ readBack \subseteq Observations \X Texts /\ disturbed \subseteq UiCalls
  /\ sent \subseteq [obs : Observations, text : Texts \union {NoText}, disturbed : BOOLEAN]

(* Every step keeps the types. *)
LEMMA UiRestNext == UiInv /\ UiRest /\ [UiNext]_uiVars => UiRest'
<1> SUFFICES ASSUME UiInv, UiRest, [UiNext]_uiVars PROVE UiRest'
  OBVIOUS
<1> USE DEF UiRest
<1>0. /\ call \in [UiCalls -> CallOf] /\ \A c \in UiCalls : call[c].at # "idle" => call[c].obs \in Observations
      /\ Unexpired \subseteq Observations /\ window.text \in Texts \union {NoText}
  BY DEF UiInv, CallInv, Sound, Unexpired, WindowInv
<1>1. ASSUME NEW c \in UiCalls, NEW to, call' = [call EXCEPT ![c].at = to], call[c].at # "idle"
      PROVE  \A d \in UiCalls : call'[d].at # "idle" => call'[d].text \in Texts
  BY <1>0, <1>1
<1>2. ASSUME NEW o \in Observations, Observe(o) \/ AgeObservation(o) PROVE UiRest'
  BY <1>0, <1>2 DEF Observe, AgeObservation, observations, uiHistory
<1>3. ASSUME NEW c \in UiCalls, Find(c) \/ SetValue(c) \/ Verify(c) \/ ScriptKilled(c) PROVE UiRest'
  <2>1. /\ call[c].at # "idle" /\ \E to : call' = [call EXCEPT ![c].at = to]
        /\ UNCHANGED <<changes, observed, older, readBack, sent>> /\ disturbed' \subseteq UiCalls
    BY <1>3 DEF Find, SetValue, Verify, ScriptKilled, At, Becomes, observations, uiHistory
  <2> QED
    BY <1>1, <2>1
<1>4. ASSUME NEW c \in UiCalls, ReadBack(c) PROVE UiRest'
  <2>1. /\ call[c].at # "idle" /\ \E to : call' = [call EXCEPT ![c].at = to]
        /\ UNCHANGED <<changes, observed, older, disturbed, sent>>
        /\ readBack' \subseteq readBack \union {<<call[c].obs, call[c].text>>}
    BY <1>4 DEF ReadBack, At, observations
  <2>2. call[c].obs \in Observations /\ call[c].text \in Texts
    BY <1>0, <2>1
  <2> QED
    BY <1>1, <2>1, <2>2
<1>5. ASSUME NEW c \in UiCalls, Press(c) PROVE UiRest'
  <2> DEFINE e == [obs |-> call[c].obs, text |-> window.text, disturbed |-> c \in disturbed]
  <2>1. /\ call[c].at # "idle" /\ \E to : call' = [call EXCEPT ![c].at = to]
        /\ UNCHANGED <<changes, observed, older, readBack>> /\ disturbed' \subseteq UiCalls
        /\ sent' \subseteq sent \union {e}
    BY <1>5 DEF Press, At, Becomes, observations
  <2>2. call[c].obs \in Observations /\ (c \in disturbed) \in BOOLEAN
    BY <1>0, <2>1
  <2>3. e \in [obs : Observations, text : Texts \union {NoText}, disturbed : BOOLEAN]
    BY <1>0, <2>2
  <2> HIDE DEF e
  <2> QED
    BY <1>1, <2>1, <2>3
<1>6. ASSUME NEW c \in UiCalls, InputAnswer(c) \/ SubmitAnswer(c) PROVE UiRest'
  <2>1. /\ call[c].at # "idle" /\ \E to : call' = [call EXCEPT ![c].at = to]
        /\ UNCHANGED <<changes, older, uiHistory>> /\ observed' \subseteq observed
    BY <1>6 DEF InputAnswer, SubmitAnswer, At, observations
  <2> QED
    BY <1>1, <2>1 DEF uiHistory
<1>7. ASSUME NEW c \in UiCalls, NEW o \in Observations, NEW t \in Texts,
             BeginInput(c, o, t) \/ BeginSubmit(c, o, t)
      PROVE  UiRest'
  <2>1. /\ \E op : call' = [call EXCEPT ![c] = [op |-> op, obs |-> o, text |-> t, at |-> "find"]]
        /\ UNCHANGED <<changes, older, uiHistory>> /\ observed' = Unexpired
    BY <1>7 DEF BeginInput, BeginSubmit
  <2> QED
    BY <1>0, <2>1 DEF uiHistory
<1>8. CASE Restart \/ Retitle \/ \E t \in Texts : Type(t)
  BY <1>8, UiAssumption DEF Restart, Retitle, Type, Change, Becomes, observations
<1>9. CASE UNCHANGED uiVars
  BY <1>9 DEF uiVars, uiHistory, observations
<1> QED
  BY <1>2, <1>3, <1>4, <1>5, <1>6, <1>7, <1>8, <1>9 DEF UiNext, ScriptStep
(* The variables of the observed windows keep their types (WindowsUi), for any number of  *)
(* observations, calls and texts.                                               *)
THEOREM UiTypes == UiSpec => []UiTypeOK
<1>1. UiInit => UiInv /\ UiRest
  BY UiInitInv, UiAssumption DEF UiInit, UiRest, Idle
<1>2. UiInv /\ UiRest /\ [UiNext]_uiVars => (UiInv /\ UiRest)'
  BY UiNextInv, UiRestNext
<1>3. UiInv /\ UiRest => UiTypeOK
  BY DEF UiInv, UiRest, UiTypeOK, WindowInv, ViewInv, CallInv, Views, CallOf
<1> QED
  BY <1>1, <1>2, <1>3, PTL DEF UiSpec

(* The voice gateway: there are objects enough for the windows of every login and of the  *)
(* map, so that a new window is never one that is held.                             *)
LEMMA SomeUnheld ==
  ASSUME GatewayTypeOK, failures = NoObject, NEW l \in Logins, login[l] = NoObject
  PROVE  \E o \in Objects : o \in Unheld
<1> DEFINE n == Cardinality(Logins)
           f == [k \in Logins |-> IF login[k] = NoObject THEN n + 1 ELSE login[k]]
<1>1. n \in Nat /\ IsFiniteSet(Logins) /\ IsFiniteSet(Objects) /\ Cardinality(Objects) = n + 1
  <2>1. n \in Nat /\ IsFiniteSet(Logins)
    BY GatewayAssumption, FS_CardinalityType
  <2> QED
    BY <2>1, FS_Interval DEF Objects
<1> SUFFICES ASSUME \A o \in Objects : o \notin Unheld PROVE FALSE
  OBVIOUS
<1>2. \A o \in Objects : \E k \in Logins : login[k] = o
  BY ObjectsThere DEF Unheld
<1>3. \A o \in Objects : \E k \in Logins : f[k] = o
  BY <1>2, ObjectsThere
<1>4. f \in Surjection(Logins, Objects)
  <2>1. n + 1 \in Objects
    BY <1>1 DEF Objects
  <2>2. f \in [Logins -> Objects]
    BY <2>1 DEF GatewayTypeOK
  <2> HIDE DEF f
  <2> QED
    BY <1>3, <2>2 DEF Surjection
<1> HIDE DEF f
<1>5. Cardinality(Objects) <= n
  BY <1>1, <1>4, FS_Surjection
<1> QED
  BY <1>1, <1>5

(* A window that counts one more. *)
LEMMA CountsOne ==
  ASSUME NEW w \in [count : Nat, reset : Nat]
  PROVE  [w EXCEPT !.count = w.count + 1] \in [count : Nat, reset : Nat]
  OBVIOUS

(* Every step keeps the types. *)
LEMMA GatewayTypesNext == GatewayTypeOK /\ [GatewayNext]_gateVars => GatewayTypeOK'
<1> SUFFICES ASSUME GatewayTypeOK, [GatewayNext]_gateVars PROVE GatewayTypeOK'
  OBVIOUS
<1> USE GatewayAssumption DEF GatewayTypeOK
<1>0. NewWindow \in [count : Nat, reset : Nat] /\ NoObject \notin Objects
  BY ObjectsThere DEF NewWindow
<1>1. ASSUME NEW windows \in [Objects -> [count : Nat, reset : Nat]], object' = Collected(windows)
      PROVE  object' \in [Objects -> [count : Nat, reset : Nat]]
  BY <1>0, <1>1 DEF Collected
<1>2. ASSUME NEW l \in Logins, LoginBegins(l) PROVE GatewayTypeOK'
  <2> DEFINE o == IF failures # NoObject THEN failures ELSE CHOOSE x \in Unheld : TRUE
             fresh == IF Lasts(o) THEN object[o] ELSE [count |-> 0, reset |-> gateTime + LoginWindow]
  <2>1. /\ login[l] = NoObject /\ object' = [object EXCEPT ![o] = fresh]
        /\ login' = IF MayTry(fresh.count) THEN [login EXCEPT ![l] = o] ELSE login
        /\ overlapped' = (overlapped \/ (MayTry(fresh.count) /\ \E k \in Logins : login[k] # NoObject))
        /\ UNCHANGED <<gateTime, gateSessions, failures, guesses, conversation>>
    BY <1>2 DEF LoginBegins
  <2>2. o \in Objects
    <3>1. CASE failures = NoObject
      <4>1. \E x \in Objects : x \in Unheld
        BY <2>1, <3>1, SomeUnheld
      <4>2. (CHOOSE x \in Unheld : TRUE) \in Unheld
        BY <4>1
      <4> QED
        BY <3>1, <4>2 DEF Unheld
    <3>2. CASE failures # NoObject
      BY <3>2
    <3> QED
      BY <3>1, <3>2
  <2>3. fresh \in [count : Nat, reset : Nat]
    <3>1. gateTime + LoginWindow \in Nat
      OBVIOUS
    <3> QED
      BY <2>2, <3>1
  <2> HIDE DEF o, fresh
  <2>4. object' \in [Objects -> [count : Nat, reset : Nat]] /\ login' \in [Logins -> Objects \union {NoObject}]
    BY <2>1, <2>2, <2>3
  <2>5. overlapped' \in BOOLEAN
    BY <2>1
  <2> QED
    BY <2>1, <2>4, <2>5 DEF conversation
<1>3. ASSUME NEW l \in Logins, LoginEnds(l) PROVE login' \in [Logins -> Objects \union {NoObject}]
  BY <1>3 DEF LoginEnds
<1>4. ASSUME NEW l \in Logins, LoginUnusable(l) PROVE GatewayTypeOK'
  <2>1. object' \in [Objects -> [count : Nat, reset : Nat]] /\ login' \in [Logins -> Objects \union {NoObject}]
    BY <1>1, <1>3, <1>4 DEF LoginUnusable
  <2> QED
    BY <1>4, <2>1 DEF LoginUnusable, conversation
<1>5. ASSUME NEW l \in Logins, LoginWrong(l) PROVE GatewayTypeOK'
  <2>1. /\ login[l] \in Objects /\ failures' = login[l] /\ object' = Collected([object EXCEPT ![login[l]].count = @ + 1])
        /\ guesses' = IF overlapped THEN <<>> ELSE Append(guesses, gateTime)
        /\ UNCHANGED <<gateTime, gateSessions, overlapped, conversation>>
    BY <1>5 DEF LoginWrong, LoginEnds
  <2>2. [object EXCEPT ![login[l]].count = @ + 1] \in [Objects -> [count : Nat, reset : Nat]]
    <3>1. PICK w \in [count : Nat, reset : Nat] : w = object[login[l]]
      BY <2>1
    <3>2. [w EXCEPT !.count = w.count + 1] \in [count : Nat, reset : Nat]
      BY CountsOne
    <3>3. [object EXCEPT ![login[l]].count = @ + 1] = [object EXCEPT ![login[l]] = [w EXCEPT !.count = w.count + 1]]
      BY <3>1
    <3> QED
      BY <2>1, <3>2, <3>3
  <2>3. object' \in [Objects -> [count : Nat, reset : Nat]] /\ login' \in [Logins -> Objects \union {NoObject}]
    BY <1>1, <1>3, <1>5, <2>1, <2>2 DEF LoginWrong
  <2>4. guesses' \in Seq(Nat)
    <3>1. gateTime \in Nat /\ guesses \in Seq(Nat)
      OBVIOUS
    <3> QED
      BY <2>1, <3>1, EmptySeq, AppendProperties
  <2> QED
    BY <2>1, <2>3, <2>4 DEF conversation
<1>6. ASSUME NEW l \in Logins, LoginRight(l) PROVE GatewayTypeOK'
  <2>1. object' \in [Objects -> [count : Nat, reset : Nat]] /\ login' \in [Logins -> Objects \union {NoObject}]
    BY <1>1, <1>3, <1>6 DEF LoginRight
  <2>2. overlapped' \in BOOLEAN /\ gateSessions' \subseteq Nat /\ guesses' \in Seq(Nat)
    BY <1>6 DEF LoginRight
  <2> QED
    BY <1>6, <2>1, <2>2 DEF LoginRight, conversation
<1>7. CASE GateTick
  BY <1>7 DEF GateTick, logins, conversation
<1>8. CASE GatewayRestarts
  <2>1. /\ UNCHANGED <<gateTime, newer>> /\ failures' = NoObject /\ gateSessions' = {} /\ proof' = "none"
        /\ guesses' = <<>> /\ overlapped' = FALSE
    BY <1>8 DEF GatewayRestarts
  <2>2. /\ login' \in [Logins -> Objects \union {NoObject}] /\ object' \in [Objects -> [count : Nat, reset : Nat]]
    BY <1>0, <1>8 DEF GatewayRestarts
  <2>3. voiceCall' \in [VoiceCalls -> {"new", "open", "turn", "done", "error"}]
    BY <1>8 DEF GatewayRestarts
  <2>4. health' \in [HealthChecks -> {"new", "restore", "done"}]
    BY <1>8 DEF GatewayRestarts
  <2> QED
    BY <2>1, <2>2, <2>3, <2>4, EmptySeq
<1>9. ASSUME NEW e \in gateSessions, ForgetsSession(e) PROVE GatewayTypeOK'
  BY <1>9 DEF ForgetsSession, logins, conversation
<1>10. ASSUME NEW v \in VoiceCalls, OpensCall(v) \/ OtherAnswered(v) \/ CallRefused(v) \/ TurnAnswered(v)
       PROVE  GatewayTypeOK'
  BY <1>10 DEF OpensCall, OtherAnswered, CallRefused, TurnAnswered, CallGoes, logins
<1>11. ASSUME NEW h \in HealthChecks, HealthBegins(h) \/ ProofRestored(h) PROVE GatewayTypeOK'
  BY <1>11 DEF HealthBegins, ProofRestored, logins
<1>12. CASE UNCHANGED gateVars
  BY <1>12 DEF gateVars, logins, conversation
<1> QED
  BY <1>2, <1>4, <1>5, <1>6, <1>7, <1>8, <1>9, <1>10, <1>11, <1>12 DEF GatewayNext
(* The variables of the voice gateway keep their types (VoiceGateway), for any logins,    *)
(* calls and health checks.                                                       *)
THEOREM GatewayTypes == GatewaySpec => []GatewayTypeOK
<1>1. GatewayInit => GatewayTypeOK
  <2> SUFFICES ASSUME GatewayInit PROVE GatewayTypeOK
    OBVIOUS
  <2>0. guesses \in Seq(Nat)
    BY EmptySeq DEF GatewayInit
  <2>1. /\ gateTime = 0 /\ gateSessions \subseteq Nat /\ failures = NoObject /\ proof = "none"
        /\ newer \subseteq HealthChecks /\ overlapped = FALSE /\ 0 \in 0 .. MaxGateTime
    BY GatewayAssumption DEF GatewayInit
  <2>2. /\ login \in [Logins -> Objects \union {NoObject}] /\ object \in [Objects -> [count : Nat, reset : Nat]]
        /\ voiceCall \in [VoiceCalls -> {"new", "open", "turn", "done", "error"}]
        /\ health \in [HealthChecks -> {"new", "restore", "done"}]
    BY DEF GatewayInit, NewWindow
  <2> QED
    BY <2>0, <2>1, <2>2 DEF GatewayTypeOK
<1> QED
  BY <1>1, GatewayTypesNext, PTL DEF GatewaySpec

-------------------------------------------------------------------------------
(* A behaviour of the services side by side is one of each of them: what a theorem says   *)
(* of a service holds in the run that checks them together.                          *)
LEMMA SideBySide ==
  HostSpec => /\ SearchSpec /\ UiSpec /\ FileSpec /\ AppendSpec /\ GatewaySpec /\ GpuSpec
              /\ GpuWorkstationSpec /\ DesktopRunsSpec /\ ContentSearchSpec /\ AuditSpec /\ IngressSpec /\ RemoteSpec
<1>1. HostInit => /\ SearchInit /\ UiInit /\ FileInit /\ AppendInit /\ GatewayInit /\ GpuInit /\ GpuWorkstationInit
                  /\ DesktopRunsInit /\ ContentSearchInit /\ AuditInit /\ IngressInit /\ RemoteInit
  BY DEF HostInit
<1>2. [HostNext]_<<side, deskVars, netVars>> =>
        /\ [SearchNext]_sVars /\ [UiNext]_uiVars /\ [FileNext]_fileVars /\ [AppendNext]_appendVars
        /\ [DesktopRunsNext]_runVars /\ [ContentSearchNext]_findVars /\ [AuditNext]_auditVars
        /\ [GatewayNext]_gateVars /\ [GpuNext]_gpuVars /\ [GpuWorkstationNext]_wsVars
        /\ [IngressNext]_ingressVars /\ [RemoteNext]_remoteVars
  <2>1. ASSUME UNCHANGED deskVars
        PROVE  UNCHANGED <<sVars, uiVars, fileVars, appendVars, runVars, findVars, auditVars>>
    BY <2>1 DEF deskVars
  <2>2. ASSUME UNCHANGED netVars PROVE UNCHANGED <<gateVars, gpuVars, wsVars, ingressVars, remoteVars>>
    BY <2>2 DEF netVars
  <2> QED
    BY <2>1, <2>2 DEF HostNext, DeskNext, NetNext
<1> QED
  BY <1>1, <1>2, PTL DEF HostSpec, SearchSpec, UiSpec, FileSpec, AppendSpec, GatewaySpec, GpuSpec,
     GpuWorkstationSpec, DesktopRunsSpec, ContentSearchSpec, AuditSpec, IngressSpec, RemoteSpec

(* The services keep the types of their variables, and their properties, in the run that   *)
(* checks them side by side (MCHostServices).                                        *)
THEOREM HostTypesTheorem == HostSpec => []HostTypes
<1>1. SearchSpec => []SearchTypeOK
  BY SearchInitInv, SearchStep, PTL DEF SearchSpec, SearchInv
<1>2. FileSpec => []FileTypeOK
  <2>1. FileInv => FileTypeOK
    BY DEF FileInv, FileShape
  <2> QED
    BY <2>1, FileInitInv, FileNextInv, PTL DEF FileSpec
<1>3. AppendSpec => []AppendTypeOK
  BY AppendInitInv, AppendNextInv, PTL DEF AppendSpec, AppendInv
<1>4. GpuWorkstationSpec => []GpuWorkstationTypeOK
  BY WsInitInv, WsNextInv, PTL DEF GpuWorkstationSpec, WsInv
<1>5. DesktopRunsSpec => []DesktopRunsTypeOK
  BY OutcomesInit, OutcomesNext, PTL DEF DesktopRunsSpec, OutcomesInv
<1>6. ContentSearchSpec => []ContentSearchTypeOK
  BY WalkInitInv, WalkNextInv, PTL DEF ContentSearchSpec, WalkInv
<1>7. AuditSpec => []AuditTypeOK
  BY AuditInitInv, AuditNextInv, PTL DEF AuditSpec, AuditInv
<1>8. IngressSpec => []IngressTypeOK
  BY IngressInitInv, IngressNextInv, PTL DEF IngressSpec, IngressInv
<1>9. RemoteSpec => []RemoteTypeOK
  BY RemoteInitInv, RemoteNextInv, PTL DEF RemoteSpec, InstanceInv
<1> QED
  BY <1>1, <1>2, <1>3, <1>4, <1>5, <1>6, <1>7, <1>8, <1>9, SideBySide, UiTypes, GatewayTypes, GpuTypes, PTL
     DEF HostTypes

(* What the run checks of the services side by side holds for all values of the constants: *)
(* HostSpec is what the theorems of the services say, all at once.                     *)
THEOREM HostServicesTheorem ==
  HostSpec => /\ [](CompleteFindsAll /\ UntruncatedFindsAll /\ NothingLost /\ AppendedIsThere)
              /\ [](SentWasReadBack /\ LoginsAreLimited /\ OptOutHolds /\ AdmittedOnce)
              /\ [](HistoryIsTrue /\ ResponseIsWhole /\ InstanceOutlastsAnswer)
              /\ LastPageIsLast /\ ProofYieldsToOlder /\ OutcomesStand
  BY SideBySide, CompleteTheorem, UntruncatedTheorem, NothingLostTheorem, AppendTheorem, SentTheorem, LoginsTheorem,
     OptOutTheorem, AdmittedOnceTheorem, HistoryTheorem, ResponseTheorem, InstanceTheorem, LastPageTheorem,
     ProofTheorem, OutcomesTheorem, PTL
===============================================================================
