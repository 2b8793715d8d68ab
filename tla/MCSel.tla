--------------------------------- MODULE MCSel ---------------------------------
(* Two clients and a log of three records: one client's call meets any call  *)
(* of the other between its commands, with the log empty, filling and full.  *)
(* One response is cut, at any place.                                        *)
EXTENDS Sel
===============================================================================
