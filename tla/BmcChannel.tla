------------------------------ MODULE BmcChannel ------------------------------
(***************************************************************************)
(* What any IPMI transport promises the generic layer: requests travel to  *)
(* the BMC, the BMC answers the ones it received in order, the host takes  *)
(* answers in order, and anything in flight may be lost.  Nothing is made  *)
(* up and nothing is garbled: an answer the host takes is one the BMC      *)
(* produced for a request that was sent.  An answer may be late, so the    *)
(* one the host takes need not answer its last request.                    *)
(*                                                                         *)
(* GenericIpmi runs on this channel; KcsTransport implements it byte by    *)
(* byte (the transport libraries implement SendDataToBmcPort and           *)
(* ReceiveBmcDataFromPort of Include/Library/IpmiTransportLib.h).          *)
(***************************************************************************)
EXTENDS Naturals, Sequences

CONSTANTS
  Requests,     \* what the host may send
  Replies,      \* what the BMC may answer
  NoAnswer,     \* no answer was read yet
  MaxInFlight   \* bound: requests and answers in flight together

VARIABLES
  inbox,   \* requests the BMC holds and has not answered
  outbox,  \* answers [req, rep] the BMC holds for the host
  taken    \* the answer the host read last

vars == <<inbox, outbox, taken>>

Answers == [req : Requests, rep : Replies]

TypeOK ==
  /\ inbox \in Seq(Requests)
  /\ outbox \in Seq(Answers)
  /\ taken \in Answers \cup {NoAnswer}

Init ==
  /\ inbox = <<>>
  /\ outbox = <<>>
  /\ taken = NoAnswer

\* A request reaches the BMC complete.
Deliver(m) ==
  /\ Len(inbox) + Len(outbox) < MaxInFlight
  /\ inbox' = Append(inbox, m)
  /\ UNCHANGED <<outbox, taken>>

\* The BMC answers the oldest request it holds.
Answer ==
  /\ inbox # <<>>
  /\ \E rep \in Replies :
       outbox' = Append(outbox, [req |-> Head(inbox), rep |-> rep])
  /\ inbox' = Tail(inbox)
  /\ UNCHANGED taken

\* The BMC forgets a request, or an answer is dropped.
LoseRequest ==
  /\ inbox # <<>>
  /\ inbox' = Tail(inbox)
  /\ UNCHANGED <<outbox, taken>>

LoseAnswer ==
  /\ outbox # <<>>
  /\ outbox' = Tail(outbox)
  /\ UNCHANGED <<inbox, taken>>

\* The host reads the oldest answer.
Take ==
  /\ outbox # <<>>
  /\ taken' = Head(outbox)
  /\ outbox' = Tail(outbox)
  /\ UNCHANGED inbox

Bmc == Answer \/ LoseRequest \/ LoseAnswer

Next == (\E m \in Requests : Deliver(m)) \/ Bmc \/ Take

Spec == Init /\ [][Next]_vars
===============================================================================
