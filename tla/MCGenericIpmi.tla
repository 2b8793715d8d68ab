----------------------------- MODULE MCGenericIpmi -----------------------------
(* GenericIpmi on an instance small enough to enumerate: two commands, so   *)
(* that a late answer can belong to the other one; responses shorter than   *)
(* the header, with no data, and one byte more or less than the buffer.     *)
(* A buffer of 4 bytes is taken for one of 0 when CountMax is 3.             *)
EXTENDS GenericIpmi

MCDataSizes == {HeaderSize - 1, HeaderSize + 1, HeaderSize + 2}
MCBufferSizes == {1, 4}
===============================================================================
