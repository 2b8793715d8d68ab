---------------------------- MODULE MCKcsTransport ----------------------------
(* Messages of two and three bytes, so that one, and more than one, byte     *)
(* goes before WRITE_END; answers of the buffer's size and of one byte more. *)
(* Bytes are numbered by position, so that a lost, repeated or foreign byte  *)
(* shows.                                                                    *)
EXTENDS KcsTransport

MCRequests == {<<"m1", "m2">>, <<"m1", "m2", "m3">>}
MCReplies == {<<"r1", "r2">>, <<"r1", "r2", "r3">>}
===============================================================================
