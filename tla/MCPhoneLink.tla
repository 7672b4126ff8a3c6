----------------------------- MODULE MCPhoneLink -----------------------------
(* Two instances, of which one may be a destroyed one whose callbacks still    *)
(* arrive, two sockets, two intents under way, and one stop or one kill.       *)
EXTENDS PhoneLink

CONSTANTS i1, i2, s1, s2

===============================================================================
