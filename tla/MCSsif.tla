-------------------------------- MODULE MCSsif --------------------------------
(* Blocks of two bytes to the BMC and of four from it.  Messages of one and  *)
(* of two full blocks, and of two and a byte; answers of one and of two      *)
(* blocks, of four that fill the buffer, and too long for it.  Bytes are     *)
(* numbered by position, so that a lost or repeated byte shows.              *)
EXTENDS Ssif

\* Messages of n bytes.
Message(s, n) == Append(SubSeq(s, 1, n - 1), "end")

MCRequests == {Message(<<"m1", "m2", "m3", "m4">>, n) : n \in {2, 4, 5}}
MCReplies == {Message(<<"r1", "r2", "r3", "r4", "r5", "r6", "r7", "r8", "r9">>, n) :
                n \in {4, 5, 9, 10}}
===============================================================================
