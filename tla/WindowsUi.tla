------------------------------- MODULE WindowsUi -------------------------------
(***************************************************************************)
(* Observed windows of the desktop adapter (apps/desktop/                  *)
(* windows-ui-sessions.mjs).  An observation names a process and a window; *)
(* input and submit run a PowerShell script against it, whose steps are    *)
(* interleaved with other calls, with the owner at the keyboard and with   *)
(* the end of the process.  A script that is killed at its timeout leaves  *)
(* behind what it has done.                                                *)
(***************************************************************************)
EXTENDS Naturals, FiniteSets

CONSTANTS
  Observations,      \* observation ids
  UiCalls,           \* calls of observe, input and submit
  Texts,
  MaxObservations,   \* MAX_OBSERVATIONS
  MaxChanges         \* bound of the model: restarts, new titles and typing

ASSUME UiAssumption == MaxObservations \in Nat \ {0} /\ MaxChanges \in Nat

VARIABLES
  window,       \* the application: process and title (numbers), text of the composer
  changes,
  observed,     \* this.observations
  older,        \* those that were there when an observation came: the map keeps their order
  view,         \* what an observation recorded, and its marks inputUsed, textSha256, submitted
  call,         \* a call: its operation, observation, text and place in its script
  readBack,     \* history: texts an input script read back under an observation
  disturbed,    \* history: submit calls whose composer changed after they had compared it
  sent          \* history: what the composer held when the submit button was pressed

observations == <<observed, older>>
uiHistory == <<readBack, disturbed, sent>>
uiVars == <<window, changes, observations, view, call, uiHistory>>

NoText == "no text"
Blank == [process |-> 0, title |-> 0, used |-> FALSE, text |-> NoText, submitted |-> FALSE, aged |-> FALSE]
Idle == [op |-> "none", obs |-> "none", text |-> NoText, at |-> "idle"]
Steps == {"idle", "find", "set", "read", "verify", "press", "result", "ok", "error"}

UiTypeOK ==
  /\ window \in [process : Nat, title : Nat, text : Texts \union {NoText}]
  /\ changes \in 0 .. MaxChanges
  /\ observed \subseteq Observations /\ older \in [Observations -> SUBSET Observations]
  /\ view \in [Observations -> [process : Nat, title : Nat, used : BOOLEAN,
                 text : Texts \union {NoText}, submitted : BOOLEAN, aged : BOOLEAN]]
  /\ call \in [UiCalls -> [op : {"none", "input", "submit"}, obs : Observations \union {"none"},
                 text : Texts \union {NoText}, at : Steps]]
  /\ readBack \subseteq Observations \X Texts /\ disturbed \subseteq UiCalls
  /\ sent \subseteq [obs : Observations, text : Texts \union {NoText}, disturbed : BOOLEAN]

UiInit ==
  /\ window = [process |-> 1, title |-> 1, text |-> NoText] /\ changes = 0
  /\ observed = {} /\ older = [o \in Observations |-> {}] /\ view = [o \in Observations |-> Blank]
  /\ call = [c \in UiCalls |-> Idle]
  /\ readBack = {} /\ disturbed = {} /\ sent = {}

-------------------------------------------------------------------------------
Fresh(o) == ~view[o].aged
(* expireObservations, which precedes every use of the table.                 *)
Unexpired == {o \in observed : Fresh(o)}

(* The script of observe has answered: the observation is what it saw, the     *)
(* oldest one makes room.                                                     *)
Observe(o) ==
  /\ view[o] = Blank
  /\ view' = [view EXCEPT ![o] = [Blank EXCEPT !.process = window.process, !.title = window.title]]
  /\ older' = [older EXCEPT ![o] = Unexpired]
  /\ LET all == Unexpired \union {o}
         Oldest(p) == older'[p] \intersect all = {}
     IN observed' = IF Cardinality(all) > MaxObservations THEN {p \in all : ~Oldest(p)} ELSE all
  /\ UNCHANGED <<window, changes, call, uiHistory>>

(* getObservation and the tests that precede a script.                        *)
Held(o) == o \in Unexpired
MayInput(o) == ~view[o].used /\ ~view[o].submitted
MaySubmitAnything(o, t) == view[o].used /\ ~view[o].submitted   \* mutant: the text is not compared
MaySubmit(o, t) == view[o].used /\ ~view[o].submitted /\ view[o].text = t
BeginInput(c, o, t) ==
  /\ call[c].at = "idle" /\ Held(o) /\ MayInput(o)
  /\ call' = [call EXCEPT ![c] = [op |-> "input", obs |-> o, text |-> t, at |-> "find"]]
  /\ observed' = Unexpired
  /\ UNCHANGED <<window, changes, older, view, uiHistory>>
BeginSubmit(c, o, t) ==
  /\ call[c].at = "idle" /\ Held(o) /\ MaySubmit(o, t)
  /\ call' = [call EXCEPT ![c] = [op |-> "submit", obs |-> o, text |-> t, at |-> "find"]]
  /\ observed' = Unexpired
  /\ UNCHANGED <<window, changes, older, view, uiHistory>>

(* targetScript: the process by its start time, the window by its title.       *)
SameProcess(c) == window.process = view[call[c].obs].process
SameWindow(c) == SameProcess(c) /\ window.title = view[call[c].obs].title
At(c, from, ok, to) ==
  /\ call[c].at = from
  /\ call' = [call EXCEPT ![c].at = IF ok THEN to ELSE "error"]
Find(c) ==
  /\ At(c, "find", SameWindow(c), IF call[c].op = "input" THEN "set" ELSE "verify")
  /\ UNCHANGED <<window, changes, observations, view, uiHistory>>

(* The application gets another state.  What a submit script has compared is    *)
(* not held: the composer may change before its button is pressed.             *)
Becomes(w) ==
  /\ window' = w
  /\ disturbed' = disturbed \union {c \in UiCalls : call[c].at = "press" /\ w.text # window.text}

(* The script of input: the value is set, then read back.  An element of a     *)
(* process that has ended cannot be used.                                     *)
SetValue(c) ==
  /\ At(c, "set", SameProcess(c), "read")
  /\ Becomes(IF SameProcess(c) THEN [window EXCEPT !.text = call[c].text] ELSE window)
  /\ UNCHANGED <<changes, observations, view, readBack, sent>>
ReadBack(c) ==
  LET same == SameProcess(c) /\ window.text = call[c].text
  IN /\ At(c, "read", same, "result")
     /\ readBack' = IF same THEN readBack \union {<<call[c].obs, call[c].text>>} ELSE readBack
     /\ UNCHANGED <<window, changes, observations, view, disturbed, sent>>

(* The script of submit: the text is compared, then the button is pressed: the  *)
(* application sends what its composer holds at that moment, and may empty it. *)
Compares(c) == SameProcess(c) /\ window.text = call[c].text
Verify(c) ==
  /\ At(c, "verify", Compares(c), "press")
  /\ UNCHANGED <<window, changes, observations, view, uiHistory>>
Press(c) ==
  /\ At(c, "press", SameProcess(c), "result")
  /\ IF SameProcess(c)
     THEN /\ sent' = sent \union {[obs |-> call[c].obs, text |-> window.text, disturbed |-> c \in disturbed]}
          /\ \E w \in {window, [window EXCEPT !.text = NoText]} : Becomes(w)
     ELSE UNCHANGED <<sent, window, disturbed>>
  /\ UNCHANGED <<changes, observations, view, readBack>>

(* The answer of the script reaches the adapter, unless the timeout was first  *)
(* and killed it.                                                             *)
InputAnswer(c) ==
  /\ call[c].op = "input" /\ At(c, "result", TRUE, "ok")
  /\ view' = [view EXCEPT ![call[c].obs].used = TRUE, ![call[c].obs].text = call[c].text]
  /\ UNCHANGED <<window, changes, observations, uiHistory>>
Mark(o) == [view[o] EXCEPT !.submitted = TRUE]
SubmitAnswer(c) ==
  LET o == call[c].obs
      bound == call[c].text = view[o].text
  IN /\ call[c].op = "submit" /\ At(c, "result", bound, "ok")
     /\ view' = IF bound THEN [view EXCEPT ![o] = Mark(o)] ELSE view
     /\ observed' = IF bound /\ view'[o].submitted THEN observed \ {o} ELSE observed
     /\ UNCHANGED <<window, changes, older, uiHistory>>
ScriptKilled(c) ==
  /\ call[c].at \notin {"idle", "ok", "error"}
  /\ call' = [call EXCEPT ![c].at = "error"]
  /\ UNCHANGED <<window, changes, observations, view, uiHistory>>

(* The application restarts, shows another page, or is typed into; an          *)
(* observation reaches the end of its time.                                   *)
Change(w) ==
  /\ changes < MaxChanges /\ w # window
  /\ Becomes(w) /\ changes' = changes + 1
  /\ UNCHANGED <<observations, view, call, readBack, sent>>
Restart == Change([process |-> window.process + 1, title |-> 1, text |-> NoText])
Retitle == Change([window EXCEPT !.title = @ + 1])
Type(t) == Change([window EXCEPT !.text = t])
AgeObservation(o) ==
  /\ view[o] # Blank /\ ~view[o].aged
  /\ view' = [view EXCEPT ![o].aged = TRUE]
  /\ UNCHANGED <<window, changes, observations, call, uiHistory>>

ScriptStep(c) ==
  Find(c) \/ SetValue(c) \/ ReadBack(c) \/ Verify(c) \/ Press(c) \/ ScriptKilled(c)
UiNext ==
  \/ \E o \in Observations : Observe(o) \/ AgeObservation(o)
  \/ \E c \in UiCalls : ScriptStep(c) \/ InputAnswer(c) \/ SubmitAnswer(c)
  \/ \E c \in UiCalls, o \in Observations, t \in Texts : BeginInput(c, o, t) \/ BeginSubmit(c, o, t)
  \/ Restart \/ Retitle \/ \E t \in Texts : Type(t)

UiSpec == UiInit /\ [][UiNext]_uiVars

-------------------------------------------------------------------------------
(* What the composer holds when the button is pressed was read back by an      *)
(* input of the same observation, whatever other calls, typing, restarts and   *)
(* killed scripts come before: unless the composer changed after the script    *)
(* had compared it, which nothing in the script excludes.                      *)
SentWasReadBack == \A s \in sent : s.disturbed \/ <<s.obs, s.text>> \in readBack
===============================================================================
