-------------------------------- MODULE KcsSmi --------------------------------
(***************************************************************************)
(* Two drivers on one KCS interface: GenericIpmi/Dxe and GenericIpmi/Smm   *)
(* each link their own IpmiTransportLibKcs, and both use the registers at  *)
(* PcdIpmiIoBaseAddress (SmmGenericIpmi.c: "we still use SMS IO base").    *)
(* Nothing keeps an SMI whose handler sends a command                      *)
(* (BmcAcpiPowerStateSmm.c, the event log in SMM) from interrupting a DXE  *)
(* transfer between any two port accesses; the DXE code stands still until *)
(* the handler's command is over.                                          *)
(*                                                                         *)
(* The host of KcsTransport is the driver the processor is executing: the  *)
(* DXE one, or during an SMI the SMM one, while the DXE driver's locals    *)
(* and the place it was stopped at wait in saved.  The BMC is slow, so     *)
(* that either host may give up at any poll, but it neither errs nor       *)
(* resets of its own accord.                                               *)
(***************************************************************************)
EXTENDS KcsTransport

CONSTANTS
  DxeRequests,  \* what DXE drivers send
  SmmRequests,  \* what SMI handlers send
  AnswersTo,    \* the answers the BMC may give to a request
  MaxSmis       \* bound: SMIs in one behaviour

ASSUME SmiAssumption ==
  /\ DxeRequests \subseteq Requests /\ SmmRequests \subseteq Requests
  /\ AnswersTo \in [Requests -> SUBSET Replies]
  /\ MaxSmis \in Nat

VARIABLES
  saved,   \* <<>>, or in SMM the interrupted context <<c>>
  smis,    \* SMIs so far
  broken   \* history: a handler left SMM without its command completed

smi == <<saved, smis, broken>>
smiVars == <<vars, smi>>

\* The processor is in System Management Mode.
InSmi == saved # <<>>

\* Where the executing driver is.
Context ==
  [pc |-> pc, polled |-> polled, op |-> op, outcome |-> outcome, msg |-> msg, sent |-> sent,
   Data |-> Data, cont |-> cont, caller |-> caller, Idle |-> Idle, staleIbf |-> staleIbf,
   late |-> late, taken |-> taken]

Resume(c) ==
  /\ pc' = c.pc /\ polled' = c.polled /\ op' = c.op /\ outcome' = c.outcome
  /\ msg' = c.msg /\ sent' = c.sent /\ Data' = c.Data
  /\ cont' = c.cont /\ caller' = c.caller
  /\ Idle' = c.Idle /\ staleIbf' = c.staleIbf /\ late' = c.late /\ taken' = c.taken

SmiInit ==
  /\ Init /\ msg \in DxeRequests
  /\ saved = <<>> /\ smis = 0 /\ broken = FALSE
-------------------------------------------------------------------------------
(***************************************************************************)
(* The executing driver.  A DXE driver sends whenever it likes; an SMI     *)
(* handler sends one command and receives its response: the attempt of     *)
(* IpmiSendCommandInternal, as in SetBmcAcpiPowerState.                    *)
(***************************************************************************)
DxeSend(m) == ~ InSmi /\ SendDataToBmcPort(m) /\ UNCHANGED smi

PortReceive == ReceiveBmcDataFromPort /\ UNCHANGED smi

PortSteps == Host /\ UNCHANGED smi

\* SendDataToBmcPort, called by a handler: its locals are new, wherever the
\* other driver was stopped.
EnterSmi(m) ==
  /\ ~ InSmi /\ smis < MaxSmis
  /\ saved' = <<Context>> /\ smis' = smis + 1
  /\ pc' = "start" /\ polled' = "none" /\ op' = "send" /\ outcome' = "none"
  /\ msg' = m /\ sent' = 0 /\ late' = FALSE
  /\ disturbed' = FALSE
  /\ Data' = <<>> /\ cont' = "first" /\ caller' = "port"
  /\ Idle' = FALSE /\ staleIbf' = FALSE
  /\ UNCHANGED <<taken, bmc, ibf, obf, din, broken>>

\* DXE goes on with the status byte it has read before.
LeaveSmi ==
  /\ InSmi /\ pc = "idle"
  /\ op = "receive" \/ outcome = "error"
  /\ Resume(saved[1])
  /\ saved' = <<>>
  /\ broken' = (broken \/ outcome = "error")
  /\ disturbed' = TRUE
  /\ UNCHANGED <<bmc, ibf, obf, din, smis>>

\* The BMC works on, in SMM or not; it answers a request with one of its answers.
Bmc ==
  /\ \/ BmcCommand \/ BmcData
     \/ /\ BmcExecute
        /\ collected \in Requests => answer'.rep \in AnswersTo[collected]
  /\ UNCHANGED smi

SmiNext ==
  \/ \E m \in DxeRequests : DxeSend(m)
  \/ PortReceive
  \/ PortSteps
  \/ \E m \in SmmRequests : EnterSmi(m)
  \/ LeaveSmi
  \/ Bmc

SmiSpec == SmiInit /\ [][SmiNext]_smiVars
-------------------------------------------------------------------------------
(***************************************************************************)
(* Properties.                                                             *)
(***************************************************************************)

\* The BMC never executes a mixture of a DXE and an SMM request, wherever the
\* SMI hit the DXE transfer, as long as the handlers' own commands complete.
WholeRequests == mode = "exec" /\ ~ broken => collected \in Requests

\* What either host returns with EFI_SUCCESS is a whole answer to its own
\* request: the DXE transfer that was cut in two fails instead of returning
\* bytes of both answers, and an SMI handler is not harmed by the half transfer
\* it interrupts, not even by one that an earlier handler left half done.
OwnAnswers ==
  [][/\ pc # "idle" /\ pc' = "idle" /\ op = "receive" /\ outcome' = "ok"
     /\ broken => InSmi
     => taken'.rep \in AnswersTo[taken'.req]]_smiVars

\* DXE writes on the strength of a poll made before the SMI: the register is
\* free again all the same if the handler's command completed.
NoOverrunBySmi == [][ibf /\ ibf' /\ ~ broken => din' = din]_smiVars
===============================================================================
