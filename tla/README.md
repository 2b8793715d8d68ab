# TLA+ models of the IPMI feature package

`IpmiFeaturePkg` is the UEFI firmware's side of IPMI: drivers for the PEI, DXE and
MM phases that talk to the board's management controller (BMC), and features on
top of them (event log, watchdog, boot options, CMOS clear). This directory holds
TLA+ models of it, the TLC configurations that check them on small instances, and
proofs checked by TLAPS.

## 1. Inventory

| Part (under `src/IpmiFeaturePkg`) | State it keeps | Operations | Talks to |
|---|---|---|---|
| Generic layer, `GenericIpmi/Common/GenericIpmi.c`, `IpmiHooks.c` | `BmcStatus`, `SoftErrorCount` (UINT8, never reset), `TempData` | `IpmiSendCommandInternal`, `IpmiBmcStatus`, `UpdateErrorStatus` | a transport below; the PPI/protocol above |
| KCS transport, `Library/IpmiTransportLibKcs` | none between calls; the register file is shared with the BMC | `SendDataToBmcPort`, `ReceiveBmcDataFromPort`, both made of poll loops; `KcsErrorExit` aborts | the BMC, through two I/O ports |
| SSIF transport, `Library/IpmiTransportLibSsif` | none between calls | the same two functions, in SMBus blocks | the BMC, through `BmcSmbusLib` |
| Initialization, `GenericIpmi/Common/IpmiInitialize.c` | `BmcStatus`, collected error codes | `GetDeviceId`, `GetSelfTest`, `IpmiInitializeBmc` | the generic layer; the error manager |
| Drivers, `GenericIpmi/{Pei,Dxe,Smm,StandaloneMm}` | the instance, the BMC HOB, the installed interface | entry points | each other, through the HOB |
| Watchdog, `IpmiWatchdog`, `Library/IpmiWatchdogLib` | the copied policy, two events; the timer in the BMC | enable, disable, two callbacks | base library, policy service |
| Boot options, `Library/IpmiBootOptionLib`, `IpmiCmosClear` | none; flags in the BMC that survive resets | `IpmiGetBootDevice`, `IpmiGetCmosClearOption` | BMC, an administrator's tool on the other side of it |
| Event log, `Library/IpmiSelLib`, `IpmiSel` | none; the log in the BMC | add, clear, read, time, info | BMC, other clients |
| Software BMC, `Library/MockIpmi` | log, boot flags, watchdog timer | one function per command | used in place of a BMC by tests and bring-up |
| Power restore policy, `IpmiPowerRestorePolicy`, `PlatformPowerRestorePolicyDefault` | none; the policy in the BMC | read, compare, set | policy service, command library |
| Serial over LAN, `SolStatus`; FRU, `IpmiFru` | loop counters | query the BMC | command library |
| ACPI power state, `BmcAcpiPowerState` | two registered handlers | entry point, S5 and ExitBootServices handlers, in SMM | SMM base library |
| Tables, `SpmiTable`, `BmcAcpi`, `IpmiSmbios` | the tables, the ReadyToBoot event | entry points, one callback | ACPI and SMBIOS services, firmware volumes, the generic layer |
| Command library, base libraries | the transport, once located | fill in or forward one command | generic layer |

What is hard here: a command and its answer are two transport calls, so an answer
may come after the command was given up; the transports poll a device that may be
slow, refuse, or restart at any poll; retry and poll loops count in several
styles; a command whose response was lost has still taken effect; the machine may
be reset between two commands that belong together; the administrator and other
clients change the BMC's state between two commands; PEI's verdict is used by later
phases; SMI handlers use the registers a DXE transfer is using; dependency
expressions leave the order of the drivers open; the counters are 8 and 16 bits
wide. `PROJECT.json` lists these hazards at their lines, with the properties aimed at
them.

What makes each part correct: commands return, with their own answer, and errors
are accounted for (generic layer); whole messages go in and out (transports);
every phase ends and a BMC that is ready is recognised (initialization); nobody
leaves the firmware's timer running (watchdog); a request is served once and not
lost (boot options); an acknowledged record stays (event log); success means the
policy is set, tables are published once and whole, the BMC knows the power state,
and no driver keeps the boot waiting (the drivers on top).

## 2. Modules

| Module | Models | Uses |
|---|---|---|
| `BmcChannel` | the promise of a transport: whole requests in, the BMC's answers out in order, anything may be lost or late, nothing made up | |
| `GenericIpmi` | the generic layer | `BmcChannel` as its transport |
| `KcsTransport` | the KCS driver, poll by poll, and the BMC's register interface | refines `BmcChannel` |
| `KcsSmi` | the DXE and the SMM copy of the KCS driver on one register file | extends `KcsTransport` |
| `Ssif` | the SSIF driver, one SMBus transaction per step | refines `BmcChannel` |
| `IpmiInitialize` | initialization and the four drivers of one boot | |
| `Watchdog` | PEI and DXE watchdog modules, their library, the BMC's timer | |
| `BootOptions` | CMOS clear and boot device selection over several boots | |
| `Sel` | the event log with several clients | |
| `PlatformBoot` | the drivers on top of the stack, their dispatch and their base libraries, over many boots | |
| `MC*` | instances for TLC | |
| `GenericIpmi_proofs`, `KcsTransport_proofs`, `Ssif_proofs`, `IpmiInitialize_proofs`, `Watchdog_proofs`, `BootOptions_proofs`, `Sel_proofs`, `PlatformBoot_proofs` | theorems | the module of that name; `KcsTransport_proofs` is about `KcsSmi` too |

Definitions have the names of the C functions, variables and constants they stand
for; `map` in `PROJECT.json` gives file and lines. Two conventions run through all
modules. `pc` names the point between two commands (or polls) at which others can
act; everything the code does between two such points is one action. Variables
marked *history* are read by properties only.

**GenericIpmi.** A command is `BeginCall`, then per attempt `Send` (the top of the
loop) and `Receive` or `ReceiveFails` (the rest of it); `HandleResponse` is the chain
of tests on the response, in the code's order: too short, bad completion code, too
long for the buffer, of another command, delivered. Messages are a command name, a
completion code and a size: the sizes are kept because the code compares three
different ones (with the header, without it, with the completion code put back).
`CountSoftError` wraps at `CountMax`, the code's 255. `Narrowed` is the hook's cast of a
`UINT32 *` to a `UINT8 *`: of the caller's buffer size the low byte counts. `RejectCall` is
the argument check.

**KcsTransport.** One step per poll that ends its loop, one for the port accesses
that follow it (so that the BMC, or an SMI, may come between the two: `polled` is the
status byte in `KcsStatus`), and one per poll loop that gives up. A timeout may happen
at any poll; so may 0xFF in the status register. `cont` and `caller` are the return addresses of
`KcsCheckStatus` and `KcsErrorExit`. The BMC side is external: it follows the
protocol, may err at any time and may restart.

**KcsSmi.** The host of `KcsTransport` is the driver the processor is executing: DXE's,
or during an SMI the handler's. `EnterSmi`, between any two port accesses, keeps the
DXE driver's locals and its place in `saved` and begins the handler's command with
locals of its own; the registers and the BMC stay as they are. `LeaveSmi` ends the
handler, its command successful or not, and DXE goes on with the status byte it read
before. Here the BMC does not err of its own accord, so that whatever goes wrong is the
two drivers' doing.

**Ssif.** `WriteBlock` chooses the command for the next block as lines 88-101 do;
`ReadBlock` has the line-by-line tests on a block. The BMC may repeat, skip, empty
or truncate blocks, and transactions may fail on either side of their effect. The
model takes the first block of an answer to have the two bytes line 165 looks at;
with less the code would look at bytes of its uninitialised buffer.

**IpmiInitialize.** The drivers of one boot run one after the other, in the order
of the phases, and each may fail to set up. A command fails, is answered, or is
answered with more than `DataSize` holds; `DataSize` is the in-out parameter that
the code sets once before the loop and that every response changes.

**Watchdog.** Both library routines as their Get, Set and Reset commands, each of
which may fail before or after it took effect; the entry points and callbacks call
them. The timer is that of `MockWdt.c`, and may run out. The policy may change at any
time; `mWatchdogPolicy` is the driver's copy. `osTimer` records how far the
ExitBootServices callback got.

**BootOptions.** The CMOS driver, then the boot manager's call, then the operating
system; a reset starts over at any point. The flags are those of `MockChassis.c`; the
administrator brackets each write with *set in progress*.

**Sel.** Each client adds, clears (with or without waiting) or walks through the
log. `device` is the BMC: that of `MockSel.c`, whose answer to the status query empties
the log as the clear itself does, or one that erases in the background (`SlowSelClear`,
`Erase`; external) and may never finish. A response may be lost, or be cut to its
completion code and pass for a success: `IpmiAddSelEntry` looks at the size, `SelClear`
and `SelGetEntry` do not, and read the zeroes of their buffer (erasure in progress; next
record 0). Every pass of `SelClear`'s loop is a step (`odd`), so that polling for ever is
a behaviour of the model.

**PlatformBoot.** One action per entry point, or per command of an entry point where
others can act in between (`ReadRestorePolicy`, `SetRestorePolicy`; an attempt of
`GetSOLStatus`; a round of the SSDT loop). A driver may run when its phase has come
and the interfaces of its `Depex` are installed; `located` is `mIpmiTransport` of the DXE
and SMM base libraries, each driver's own. A command that fails may have been
executed. What the generic drivers find out is a free choice here, as
`IpmiInitialize` has it in detail. `PowerLoss` ends a boot at any point and forgets
everything but the BMC's state; `EnterS5` runs the S5 handler first. `ReadyToBoot` may
be signalled any number of times. Only `clean` boots, those in which no command,
service or driver failed, are held to publishing everything.

## 3. Runs

Passing runs:

| Run | Shows | Instance and why it is enough |
|---|---|---|
| `generic_ipmi` | a size returned with `EFI_BUFFER_TOO_SMALL` is sufficient and its own command's; a transport failure is not forgotten; hard failures are earned, and errors outside force update mode are not played down before the counter wraps; commands return | two commands, so that a late answer can belong to the other; sizes on both sides of header and buffer, and a buffer of 4 that the hook takes for one of 0; two retries; a threshold of 2 and a counter that wraps after 3, with 4 errors, so that it wraps |
| `kcs_transport` | the driver implements `BmcChannel`; a send that succeeds has delivered, if the BMC did not err; no byte is overwritten; calls return | messages of two and three bytes (the first, middle and last byte are written by different code); answers of the buffer's size and one more |
| `kcs_smi` | the BMC never executes a mixture of two requests; either host's success is a whole answer to its own request; a write after a poll from before the SMI overwrites nothing; all this as long as the handlers' commands complete | messages and answers of two bytes, all different, so that a byte of the other host shows; up to two SMIs, each at any point of a DXE transfer, in the same one or in different ones, and DXE goes on with further transfers |
| `ssif` | the same refinement; no success for repeated or short blocks; a skipped block passes only in the one place where it cannot be seen; calls return | messages of exactly one and two blocks and one byte more; answers of one, two and four blocks; the byte range that the size calculation wraps in, scaled down with the block size |
| `initialize` | ready BMCs are recognised; the HOB spares the BMC further commands, a BMC in update is left alone, and an instance that never reached the BMC is published only on PEI's word; initialization ends | three polls per loop; a counter that wraps at 8 for the code's 32 bits; response sizes in the order of the real ones; self tests with no flag, a hard one and a soft one |
| `watchdog` | a closed ReadyToBoot event means a stopped timer, also after lost responses; the OS starts under FRB2 only after a failure and if no callback disarmed it, under the OS timer once that was set, and without a failure just when the copied policy asks for it | timeouts of 0, the largest that fits and one that wraps in a 7-bit countdown; two ReadyToBoot signals, one policy change |
| `boot_options` | CMOS clears and one-shot boots happen once per request, plus once per lost Set; requests are otherwise kept; boots end | two requests (one meets the other half-done), one failure, two resets |
| `sel` | a record ID acknowledged while no clear was under way names its caller's record until the next `SelClear`; an awaited clear that succeeds leaves nothing old; walks end though the log is filled and cleared for ever; clears end if the BMC, from some time on, is not erasing | both kinds of BMC; two clients, so that any call meets any other between its commands; a log of three records, with a first, a middle and a last; one response cut short, at any place; no bound on operations |
| `platform` | success of the power restore driver means the BMC has the policy; the BMC knows the power state, in whichever order the SMM drivers came; at most one type 38 record, and in a clean boot every table, with revisions that agree; every boot gets past the drivers | three sets of drivers, so that every driver runs and the SMM ones come in both orders; two policies; a storage file in the second volume only, or in both, where the first is taken; two channels and three attempts for the code's three and ten; no bound on boots, signals or the administrator |

Deadlock is checked in the runs of `GenericIpmi`, `KcsTransport`, `KcsSmi`, `Ssif`, `Sel` and
`PlatformBoot`, where a new call or boot is always possible; the one boot of
`IpmiInitialize` and `Watchdog` and the bounded number of them in `BootOptions` really end.

**Fairness.** Weak fairness of the host's own steps and nothing else: the firmware
polls or computes and the processor executes it, and every poll loop has a limit.
Nothing is assumed of the BMC, which may stay silent for ever; in `PlatformBoot` nothing
is assumed of users, power or the operating system either. `KcsSmi` has safety
properties only and no fairness. In `Sel` each client goes on with its own call, and
that is all: nothing forces a command to fail or the BMC to finish. The loop of
`SelClear` has no limit, hence the premise of `CallReturns` there, that the BMC at some time is
done for good; without it, or with erasures that each end but are started again by
others, a client waits for ever. Responses are cut only finitely often
(`MaxTruncated`): a walk starts over at each.

Runs that are expected to fail state what a comment or a document says, and
show where the code does otherwise:

| Run | Says | Code |
|---|---|---|
| `own_response` | "Verify the response data matched with the cmd sent." (`GenericIpmi.c:291`) | compared only for a response that is too long: a late answer that fits is delivered for another command |
| `kcs_delivery` | "EFI_SUCCESS - Send out the data successfully" (`KcsBmc.c:310`) | `KcsCheckStatus` returns the status of its abort: if it is the check before the last byte that aborts, the transfer is a success |
| `self_test` | "Three of the possible errors result in BMC hard failure [...] All other errors are BMC soft failures." (`IpmiInitialize.c:145`) | the flags are looked for in the result byte, so that every error is a hard failure |

The passing properties take these into account: the second half of
`RequiredSizeSuffices` is what remains of the first, `SendDelivers` of the second.

## 4. Proofs

All eight proof modules prove safety for every value of the constants, from the named
assumptions in the modules that declare them. Each has an inductive invariant made of
named parts (`...Inv`), one lemma per action or group of actions that it is preserved,
and theorems that name the properties of the runs. Every part of these invariants was
first an invariant of the run's instance.

Where a run checks liveness, the proof module has the part of it that needs no
fairness: the work that is left (`StepsLeft` or the like) is a natural number, or
several in lexicographic order, 0 only where the liveness property wants to get to;
every step of the host lowers it; and no step of anyone else raises it, a new call or
what the theorem names excepted. What is left to TLC is that a host with work left can
take a step.

- `GenericIpmi_proofs`, from `SizeAssumption`, `RetryAssumption` (the retry limit is
  not 0), `CountAssumption` and `ChannelAssumption`: types, `LoopNeverFallsThrough`,
  `NoOkAfterFailure`, `EscalatesBeforeWrap`, `RequiredSizeSuffices`, and the action
  properties `HardFailEarned` and `UpdateModeKept` (`LoopNeverFallsThrough` and
  `UpdateModeKept` are proved only, and not in a run). The invariant `IInv` adds what
  they need: the counter equals the number of errors until it wraps and never exceeds
  it (`CounterInv`, without which escalation says nothing about errors), and the errors
  in force update mode are some of them; the result of
  a refused response belongs to the response last taken (`ResultInv`); no result or
  report survives the start of the next command (`BusyInv`). `CommandBounded`: two
  steps per attempt, and no late or wrong answer gives an attempt back.
- `KcsTransport_proofs`, from `MessageAssumption` (requests of two bytes or more,
  which is what `SendDataToBmcPort` is called with; answers of one or more): types,
  `SendDelivers`, the action property `NoOverrun`, and the refinement
  `ImplementsChannel`. `BmcInv` ties the BMC's mode to the status it shows, and
  `WholeInv` says that it executes whole requests only. `PollInv` says what a poll
  that has ended still tells the host although the BMC has moved on: the input
  register is empty, and the BMC can only have erred, restarted or begun to answer;
  without it no write is known to be safe. `HostInv` places the host in its message,
  and `AbortInv` says that after an abort nothing of the exchange before it is left.
  `SendInv` covers a message being written: the BMC has just the bytes that went out,
  or has been disturbed and refuses the rest. `ReceiveInv` follows the message from
  there through five stages: last byte on its way, being executed, being answered,
  answered, lost. The refinement maps each step to a stutter but these: the BMC taking
  the last byte is `Deliver`, executing is `Answer`, an error or a restart loses what
  is in the channel, and the end of a successful receive is `Take`. `CallBounded`: a
  call takes at most 17 steps per byte of the message, or of the buffer, and 118
  besides, its waits before the start and every abort included, however often the BMC
  errs or restarts.
- The same module proves the three properties of `kcs_smi`, from `SmiAssumption`, for
  any number of SMIs. `SmiInv` holds that invariant of the driver that executes
  (`RunInv`) and what is needed to have it back when DXE goes on. A handler starts
  with locals of its own and writes only after waits of its own, so that `RunInv`
  holds in SMM whatever earlier handlers left behind. When a handler's command has
  completed nothing of it is left in the interface (`Completed`); to DXE it then looks
  as if the BMC had restarted, a case that `KcsTransport` has already. The exception
  is a DXE driver that had seen the dummy byte of its own answer and needs no more of
  the BMC (`Kept`, and `Beyond` after the SMI). If a handler gave up, `broken`, the
  shape of DXE's context is all that is known.
- `Ssif_proofs`, from `BlockAssumption`: types, `SendDelivers`, `FaultsRefused` and
  the refinement `ImplementsChannel`. `SendInv` says that the write command tells how
  much of the message is left and that the BMC has the bytes before; `ReadInv` that,
  as long as no block was at fault, what has been copied is the answer up to the BMC's
  own position and the block numbers agree (`InStep`). `BlockAssumption` states that a
  block's size fits a byte, that the buffer is more than one byte short of the range
  of a byte, and that it is full before the block numbers run out: in the code 32 <
  256, 254 < 255 (`GenericIpmi.c:209`) and 254 < 30 + 254 * 31. With a smaller range
  the 8-bit arithmetic of lines 199-205 could accept a block too short for its number.
  `CallBounded`: a call takes one transaction per byte of the message at most, or one
  per block number and two more, though the BMC sends empty blocks without end.
- `IpmiInitialize_proofs`, from `RetryAssumption`, `SizeAssumption` (every response
  fits `TempData`) and `HobAssumption`: types, `ReadyNotMissed` and `HobSparesBmc`.
  `LoopInv` says that a ready answer that was not heard has left `DataSize` large
  enough for the next, which is why there is one at most, and that a self test is
  asked only of a BMC that has been heard of and is neither dead nor updating.
  `DriverInv` says that PEI runs first or not at all, that each driver publishes once,
  and that a later driver has the HOB's word or the BMC's own. `InitBounded`: a driver
  takes at most five steps, `ReadyDelay` twice and the self tests (`SelfTestsFrom`:
  one per retry, and `CountRange` of them where the count starts at 0 and wraps, see
  section 5).
- `Watchdog_proofs`, from `CountdownAssumption`: types, `ClosedMeansStopped` and
  `OsTimerStarted`, for any policies, signals and failures. `OsInv` says what the timer
  is after each command of the ExitBootServices callback. `RoutineInv` says which
  library routine runs in which phase and for which timer, and that a timer about to
  be started is the one just set: Reset starts whatever Set left. `EventInv` says that
  both events exist from the end of the entry point on and that without a failure the
  first ReadyToBoot closes its own, so that nothing of FRB2 is left when the second
  callback starts the timer.
- `BootOptions_proofs`, from `BoundAssumption`: types, `CmosClearsBounded`,
  `OneShotBootsBounded` and the action property `RequestKept`, for any number of
  requests, failures and resets. The bounds are not inductive, because a request is
  served later than it is made: the invariant also counts the request the BMC still
  holds and the one a routine has read and the BMC no longer holds. The two are the
  same request unless the administrator wrote in between, which is what `CopyInv` says
  and `RequestKept` follows from. Each failed Set can leave one request with both,
  hence the term `setFailures`. `BootBounded`: the steps to the operating system are
  those of one boot and four for each reboot that a request or a lost Set can still
  cause, so that only a reset, a request or a lost Set adds any.
- `Sel_proofs`, from `CountAssumption`: types, `AckedKept` and the action property
  `ClearedOld`, for any clients, log size and number of cut responses, on both kinds of
  BMC. A new ID is the log's length, and every acknowledged ID is below it; `QuietInv`
  says that nothing is acknowledged while a clear may still empty the log, be it one
  whose caller has left. `WaitInv` says that a client which polls has no old record left
  unless the BMC is still erasing: completion reported to a poll is then completion of
  its own clear, even if others started another in between. `CommandsBounded`: a walk
  sends at most one command per record the log can hold, and as many again after each
  cut response, whatever others do; a clear polls on only if the BMC is still erasing or
  its response was cut.
- `PlatformBoot_proofs`: `PolicySettled` and `PowerStateReported` from no assumption,
  types and `TablesPublished` from `PlatformAssumption`, for any builds, orders of
  dispatch, boots, firmware layouts and failures. `PolicyInv` adds that the module
  that publishes the policy and then the driver that uses it run once per boot
  (`DispatchInv`, from the dependency expressions), that what the driver read is still
  in the BMC unless the administrator acted (`ReadInv`), and that until it is done
  only the administrator has changed the BMC (`ChosenInv`). `PowerInv` says, for a
  boot in which nothing failed, that a driver no longer pending has installed its
  interface (`InstalledInv`) and registered its handlers (`HandlersInv`), and that
  after DXE none of the four drivers is pending (`AllRunInv`). The last is the crux:
  DXE ends only when nothing is dispatchable, and the dependency expressions of the
  four form no cycle, so that one still pending would leave another dispatchable.
  `TypeInv` adds to the types that a driver with an event, a handler or tables to its
  name has been dispatched, once (`OnceInv`). `TablesInv` carries `TablesPublished`
  through a boot with the same crux, that DXE ends only when nothing is left to
  dispatch (`RunInv`, `ProvidersInv`); then the first ReadyToBoot finds the event open
  (`OpenInv`), the SPMI table and the record have the revision of the one version
  (`SpmiInv`, `RecordInv`), and the SSDT loop has installed the sections of the first
  storage file up to the one it looks at (`SsdtInv`). `DriversBounded`: every step of
  the firmware before BDS ends a phase, dispatches a driver that was pending, ends the
  driver that runs, or is a round of its loop, of which there are fewer left
  (`LoopLeft`); nothing but a loss of power undoes any of this.

Only model-checked: liveness (`CallReturns` in four modules, `InitTerminates`, and
`BootEnds` in two), because fairness and `ENABLED` are outside what the prover does;
the theorems named `...Bounded` are the rest of the argument. Every invariant and
every action property that a passing run checks is proved.

## 5. Observations

Read in the code while modelling, and not checked by a run:

- `GenericIpmi.c:22-23` says that the soft error count "is not updated if the BMC is in
  Force Update Mode"; the test at line 44 spares the status only, and line 50 counts.
  `EscalatesBeforeWrap` therefore leaves out the errors met in that mode (`updateErrors`).
- The OS watchdog policy "can be dynamically updated at boot time [...] so long as it's
  done before _ExitBootServices_" (`Docs/Ipmi_Watchdog.md:22`); `WatchdogDxe.c:108` copies it
  at the driver's entry, and the callback looks at the copy. `OsTimerStarted` claims the
  policy's timer only if the policy is still the copied one.
- `IpmiWatchdogLib.c:27` speaks of a time "in seconds"; line 74 takes it ten-fold in 16
  bits, so that 6554 s start a timer of 0.4 s, with `EFI_SUCCESS`. `OsTimerStarted` claims
  the time of a timeout that fits.
- `IpmiSel.c:54` says that NextRecordId is the next record's, or 0xFFFF; a response to Get
  SEL Entry that is cut to its completion code is a success with an empty record and a
  NextRecordId of 0 (`IpmiSelLib.c:650-653`), and a walk that follows it starts over.
- `MockSel.c:208` empties the log before it looks at the kind of request, so that records
  added after a clear, while its caller waits for the erasure, are lost and their IDs
  handed out again. `AckedKept` makes no claim for a record added while any clear is under
  way, and `ClearedOld` speaks of old records only.
- `SelClear` polls without a limit (`IpmiSelLib.c:360`): a BMC that never completes an
  erasure, or other clients who keep it erasing, hold the caller for ever.
- `IpmiHooks.c:48-65` narrows both sizes to 8 bits: a response buffer of 256 bytes is taken
  for one of 0. The callers in the package pass less.
- Reading a one-shot boot device zeroes all flags (`IpmiBootOptionLib.c:390`), and with them
  a CMOS clear request made after the CMOS driver ran.
- The documentation of `IpmiSelGetRecordEntry` says that 0xFFFF retrieves the last
  entry; the software BMC answers that there is no such record.
- The code that reads set in progress, then the flags, then writes them takes no lock:
  an administrator's write in between is overwritten. `RequestKept` excludes that case
  through `raced`.
- If the second Get of the watchdog driver's entry fails after FRB2 was enabled, no
  callback is registered and nothing stops the timer. `OsTimerStarted` allows it.
- `GenericIpmi.c:287` says "Verify the response data buffer passed in is big enough.";
  the check leaves out the completion code that lines 326-333 put in front of the data,
  so that a response with one byte more than the buffer holds is stored whole.
  `RequiredSizeSuffices` is about the responses that are refused.
- If an SMI handler's command gives up in the middle of a DXE transfer, it leaves the
  interface with half a command (`broken` marks that case). From then on a mixture of two
  requests may be executed, a byte overwritten, and DXE given an answer that is not
  its own; only the handlers still get theirs. Nothing in the code tells DXE.
- The dependency expression of `BmcAcpiPowerState` names the DXE protocol
  (`BmcAcpiPowerStateSmm.inf:44`), its library looks for the SMM one. It works because
  the first command is sent by a handler, when all drivers have run.
- `SolStatus` and `IpmiFru` depend on nothing and fail if they are dispatched before
  the DXE driver; `SolStatusEntryPoint` returns the status of the last channel only, and
  with `PcdMaxSOLChannels` = 255 its UINT8 loop would not end (`PlatformAssumption`).
- `BmcAcpi.c:188-227` ends at the first table that is not accepted and returns
  `EFI_SUCCESS`; line 197 passes the address of a UINT32 as one of a UINTN.
- `IpmiSmbios.c:142` closes the event before the record is added: a BMC that does not
  answer at the first ReadyToBoot leaves the system without the record. Lines 92-111
  write 16-bit registers as spacing 00b and 32-bit ones as 10b, which the comment of
  lines 87-90 calls byte and 16-bit boundaries.
- With `PcdIpmiBmcReadyDelayTimer` = 0 and `PcdBmcTimeoutSeconds` = 0 the self test loop
  (`IpmiInitialize.c:64-105`) starts with `Retries` = 0, and `--Retries > 0` wraps: a BMC that does
  not answer is polled 2^32 times, and one that answers at once is a hard failure with a
  communication error (line 110 looks at `Retries` too). `RetryAssumption` allows it, the
  count wraps in the model, and `InitBounded` has the bound.
- `BmcAcpi` takes the first firmware volume that has the storage file; tables in a
  second such file are not installed.
- `BmcAcpiPowerStateSmm.c:172` only logs a failed registration of the S5 handler; the
  entry point returns the status of the second registration.

## 6. Not modelled

SEL time and information queries (read-only, or state nobody reads); the wrappers of
the command library without a caller in the modelled code, and `SetSOLParams`, which
nothing calls; `GetBmcStatus` of the base libraries and their MM and null versions; the
PEI shadow pass (moves function pointers); the command dispatch of the software BMC
(a table of functions) and its device ID and self test responses; the status code
sample; addresses and interrupts in the published tables (copied from build
constants); record contents, formatting and debug output; the Null libraries.

## 7. Plan

Written, in order of importance: `BmcChannel`, `GenericIpmi` and its proofs; `KcsTransport`
and its refinement; `IpmiInitialize`; `Watchdog`; `BootOptions`; `Ssif`; `Sel`; `KcsSmi`;
`PlatformBoot`; the proofs of all of them, the two refinements and `KcsSmi` included; the
bounds on the steps of every call, command and boot. Nothing that the prover can do is
left open; liveness stays with TLC.
