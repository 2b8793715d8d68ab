------------------------------ MODULE MCWatchdog ------------------------------
(* Policies with no timeout, with the longest one that the countdown holds   *)
(* in units of 100 ms, and with one that wraps; the countdown has 7 bits     *)
(* instead of 16.                                                            *)
EXTENDS Watchdog

MCSeconds == {0, 12, 13}
===============================================================================
