--------------------------- MODULE MCProcessSessions ---------------------------
(* Two sessions where one may be active, and output of three bytes in a ring   *)
(* of two: the capacity check, the ring and the retention all take effect.     *)
EXTENDS ProcessSessions

CONSTANTS s1, s2

===============================================================================
