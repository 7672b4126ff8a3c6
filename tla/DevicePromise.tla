----------------------------- MODULE DevicePromise -----------------------------
(***************************************************************************)
(* What a caller of the relay adapter may rely on: while one instance of   *)
(* the phone's service lives a command takes effect at most once, and it is *)
(* answered once, with ok only when it has taken effect.  An error promises *)
(* nothing: the effect may have come before it or may still come.          *)
(***************************************************************************)
EXTENDS Naturals

CONSTANTS Commands, Instances

VARIABLES effects, answer

Init == effects = [c \in Commands |-> [g \in Instances |-> 0]] /\ answer = [c \in Commands |-> "none"]

TakesEffect(c, g) ==
  /\ effects[c][g] = 0
  /\ effects' = [effects EXCEPT ![c][g] = 1]
  /\ UNCHANGED answer
Answered(c, a) ==
  /\ answer[c] = "none"
  /\ a = "ok" => \E g \in Instances : effects[c][g] = 1
  /\ answer' = [answer EXCEPT ![c] = a]
  /\ UNCHANGED effects

Next == \E c \in Commands : (\E g \in Instances : TakesEffect(c, g)) \/ (\E a \in {"ok", "error"} : Answered(c, a))
Spec == Init /\ [][Next]_<<effects, answer>>
===============================================================================
