----------------------------- MODULE MCBootOptions -----------------------------
(* Two requests of the administrator, one device, one command failure and two *)
(* resets: enough for a request to meet a half-done one, and for a reset on   *)
(* either side of every Set.                                                  *)
EXTENDS BootOptions
===============================================================================
