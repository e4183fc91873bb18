# A verification project for the G.hn SDK

The repository (`AkiraNetRD/issi_sdk`) is a C library and a set of command line
tools that manage the G.hn (power line and coax) modems of a network from a host:
they find the devices, read their state and statistics, set their parameters,
pair them, and replace their firmware. The modules here model the part whose
mistakes cannot be taken back, the **firmware upgrade of devices over the
network**: TLC checks the models on small instances, and TLAPS proves the most
important properties for any number of devices, calls, sections and firmwares.
Below it, the **transport** that carries each command is modelled and proved the
same way; beside it, how a tool **finds its local device**, the **channel test**
of one link (`netinf`), and the **tests of a whole network** with the table of PHY
rates read after them.

Contents: [1 inventory](#1-inventory) · [2 modules](#2-the-modules) ·
[3 runs](#3-the-runs) · [4 findings](#4-findings) · [5 proofs](#5-the-proofs) ·
[6 bounds, fairness, assumptions](#6-bounds-fairness-assumptions) ·
[7 what is not modelled](#7-what-is-not-modelled) · [8 plan](#8-plan)

## 1 Inventory

| part | source | state it keeps | operations | what is hard |
|---|---|---|---|---|
| upgrade of one device | `GHN_LIB/src/GHN_LIB_UpgradeFW.c` | locals of one call; the flash of the device | erase, program sections, set and clear active bytes, replace the boot loader | every command can fail, or take effect and lose its reply; the device restarts, the tool dies; the order of the writes |
| update manager | `SDK/um/um.c` | `ThreadsInformation[]`, `DMStatus_Table[]`, station list | start one thread per device, poll, verdict, second round, reset, query | interleaving of the threads, a shared array without locks, one device failing among many, being run again |
| flash reading | `GHN_LIB/src/GHN_LIB_Flash.c` | locals of one call | query, boot loader version and table, image tables, parameter blocks | depends on which image was *launched*, not which is active |
| console transport | `console/src/console_PacketHandling.c`, `console_CommandFunc.c` | transaction id counter of a connection | send and await the reply, broadcast query, read and write flash in pieces | lost, late and duplicated replies, equal ids of concurrent connections, 16-bit wrap |
| connections and raw sockets | `console/src/cmgr.c`, `eth.c`, `nic.c`; `GHN_LIB/src/GHN_LIB_Layer2Connection.c` | connection handles, sockets | open, close, find the adapter | several threads with sockets on one network card |
| local device discovery | `console_PacketHandling.c` (`Pkt_Query_Devices`), `common/CMD_Helpers/src/CMD_Helpers.c` | table of answers of one query | broadcast, collect, select the first local device | late and second answers, a bounded table, only remote devices answering |
| channel test of one link | `GHN_LIB_ext.c` (`Ghn_Netinf`), `GHN_LIB_netinf.c`, `SDK/netinf/netinf.c` | two samples of counters, sampling state, flags shared with `main()` | start the traffic, sample, compare, stop | failed requests, resets of the receiver, another process, a user who stops it |
| channel tests of a network, PHY rate table | `GHN_LIB_ext.c` (`Ghn_Run_Netinf_Entire_Network`, `Ghn_Get_PHY_Rate_Table_Information`), `SDK/PhyRateTable` | table of links, table of busy transmitters, table of rates | start, poll, read | tests that run meanwhile, requests that fail in the middle of a scan |
| network information, topology, link statistics | `GHN_LIB/src/GHN_LIB_netinf.c`, `GHN_LIB_LinkStatistics.c`, `SDK/BPL_Topology`, `SDK/ixxi` | tables collected from all devices, two samples of counters | collect, merge, subtract | devices that leave between two reads |
| library interface and command helpers | `GHN_LIB/src/GHN_LIB_ext.c`, `common/CMD_Helpers` | none | one request, one answer | partial failure of a sequence of parameter writes |
| images and parameter blocks | `common/Image_LIB`, `SDK/UpdateParameters` | a BIN file in memory | find, override, append TLV parameters; checksums | limits of lengths and indices |
| HTTP, XML, MD5, helpers | `common/HTTP_LIB`, `XMLParser`, `MD5`, `common` | none | | I/O and formatting |

How they interact: `um` calls `Ghn_Upgrade_Firmware` in one thread per device;
that function calls `Ghn_Read_Flash_Information`, opens a layer 2 connection, and
sends commands (`EraseFlashCommandFunction`, `SetFlash...`) through
`Pkt_Send_Receive`, each of which waits for one reply or for its timeout. The
threads share only the array `ThreadsInformation` with `main()`, which polls it,
and the network card. After the threads, `main()` sends resets, waits, and starts
threads again to query the devices. `netinf` runs `Ghn_Netinf` in one thread and
shares two flags with it, `ThreadProc_Is_Running` and `g_bStopNetinf`.
`PhyRateTable` has no threads: it selects its device, gets the stations, runs the
tests, and reads the rates, one request after the other, while the transmitters
run their tests.

What makes these parts correct:

* **the device**: from before the first command to after the last, it can be
  started from a complete image; an incomplete image is never made active;
* **one call**: SUCCESS means that the device is switched over; it always returns;
* **the transport**: a reply ends the wait of the command it answers and of no
  other; a command is executed at most once, not before an earlier one, and not
  after its caller was told how it ended;
* **the manager**: with `-E`, no device is switched before all are programmed;
  "Quiting without upgrade!" and "finish successfully" are true when printed; it
  calls the library only on devices the library can upgrade safely; it ends;
* **the discovery**: a connection is made with a device that answered and is local;
* **a channel test**: a result compares two consecutive samples of a receiver that
  was not reset between them; the traffic is stopped; a stop is heeded; it ends;
* **the tests of a network**: none is cut short by the next; the rates printed were
  measured; it ends.

`PROJECT.json` lists every component, and the hazards with their lines.

## 2 The modules

| module | models | extends |
|---|---|---|
| `ABUpdate` | what an update of devices with two images promises (abstract) | |
| `UpgradeFirmware` | `Ghn_Upgrade_Firmware()` and the flash of the devices | |
| `UpgradeFirmware_proofs` | theorems about it | `UpgradeFirmware`, TLAPS |
| `UpdateManager` | `main()` and `ThreadProc()` of `um` | `UpgradeFirmware` |
| `UpdateManager_proofs` | theorems about it, mostly of `um -E` | `UpdateManager`, `UpgradeFirmware_proofs` |
| `NetworkUpdate` | what `um -E` promises of a network: an atomic commitment (abstract) | |
| `NetworkUpdate_proofs` | `um -E` implements it, and the A/B update | `UpdateManager_proofs` |
| `OneDevice_proofs` | theorems about `um` without `-E` | `UpdateManager_proofs` |
| `PacketHandling` | `Pkt_Send_Receive()`, the connections and the network | |
| `PacketHandling_proofs` | theorems about it | `PacketHandling`, TLAPS |
| `CommandChannel` | what a caller of `Pkt_Send_Receive()` relies on (abstract) | |
| `CommandChannel_proofs` | the transport implements it | `PacketHandling_proofs` |
| `Netinf` | `Ghn_Netinf()` and `main()` of `netinf` | |
| `Netinf_proofs` | theorems about it | `Netinf`, TLAPS |
| `QueryDevices` | `Pkt_Query_Devices()`, `Ghn_Query_Local_Devices()`, `Prepare_Connection()` | |
| `NetinfNetwork` | `Ghn_Run_Netinf_Entire_Network()` and the transmitters | |
| `PhyRateTable` | `main()` of `PhyRateTable`, composed of the two | `NetinfNetwork`, `QueryDevices` |
| `PhyRateTable_proofs` | theorems about it | `PhyRateTable`, TLAPS |
| `MCUpgradeFirmware`, `MCUpdateManager`, `MCPacketHandling`, `MCNetinf`, `MCPhyRateTable` | definitions of constants and initial states for TLC | |

### UpgradeFirmware

*State of a device.* `fw[d][s]` and `intact[d][s]`: the firmware in slot `s` and
which of its sections are on the flash whole; `activeByte[d][s]`: the byte in the
FW SPI section that makes an image active (255 as erased or as in the BIN file, 1
set, 0 cleared); `bootLoader[d]`; `mode[d]`; and `launched[d]`, what the device
answers to `GetFwStateCommandFunction`. The flash and the boot loader are not in
this repository: writes clear bits only (`Written`), an erase sets the whole slot
to 255, a failed erase leaves any part of the slot (`TornErase`), and an intact
boot loader starts *one of* the active images (`Reboot`).

*State of a call.* `pc[c]` is its next step. `seen[c]` is the copy of `launched`
the call read; `next[c]` the section to program; `opts[c]` the booleans of
`sUpgrade_Firmware_Information`.

*Actions.* One per step of the function, in its order: `CheckBinFile`,
`CheckChipType`, `ReadFlashInformation`, `OpenConnection`, `EnterRemoteUpgrade`,
`ParseFWTable`, `EraseInactive`, `UpdateBlocks`, `ProgramSection` (once per
section), `SetActive`, then with `-B` `EraseBootLoader`, `ProgramEBL`, `ProgramB1`,
`EraseActive` (one 4KB block at a time), without it `ClearActive`; `QueryDevice`,
`Return`. The operators `AfterProgram`, `AfterSetActive`... are the `if`s between
them. Each command of a step has three outcomes: it succeeds, it takes effect but
its reply is lost (the call fails), it has no effect (the call fails).
`DeviceRestarts` and `ToolCrashes` may come between any two steps.

*Callers.* `Ghn_Upgrade_Firmware` checks nothing of what it needs from its
caller. `MayStart` says what that is: nobody else works on the device, it runs
the image that is active, a replacement of the boot loader comes with an
activation, and an activation alone finds the other image programmed completely
and not retired. The constant `Disciplined` makes `StartCall` respect it. In
`UpdateManager` the constant is FALSE and `ManagerIsDisciplined` is a *property*.

### UpdateManager

`stage` is where `main()` is: `upgrade` (first round), `activate` (second, only
with `-E`), `reset`, `query`, and the ends `quit` ("Quiting without upgrade!"),
`unstable` ("Device(s) state is unstable!!!"), `done` (after the summary),
`killed`. `todo` holds the devices the current loop has not treated; the order
of the station list is abstracted. A thread is `created`, then `calling`
(`ThreadStarts`: the flag is set and the call starts), takes the steps of its
call, and ends (`ThreadEnds`: exit code, then flag). In the rounds of the constant
`ThreadsMayFail` the creation of a thread may fail (`StartThread`); `main()` then reads
in the array what was there before. `SendReset` follows the order of the three loops (remote devices, the DM, local ones); no reply is awaited, so
it may have no effect. `RunAgain` starts the tool once more, up to `MaxRuns`.

### ABUpdate

`bootable[d]` is the set of images `d` can be started from. A step adds one image
(`Promote`) or removes one while another remains (`Retire`). `UpgradeFirmware`
implements it under the mapping
`bootable[d] = {<<s, fw[d][s]>> : ActiveImage(d, s)}`.

### NetworkUpdate

`image[d]` is `old`, `staged` (the device holds the new firmware and does not use
it), `both` (it may start either) or `new`; `told` what the end of `main()` says of the
network. A device is staged, switched and retired once and in this order, switched only
when all are staged, and nothing changes after something was told: the two rounds, the
threads, the commands and the calls of `UpdateManager` have all gone. `UpdateManager`
implements it under `ImageOf`, which reads `image[d]` off the flash, and `Told`, which
reads it off `stage`. A tool that is killed tells nothing. `um -E` does not implement it
when a thread of the second round cannot be created (section 4).

### PacketHandling

*A thread and its connection.* `phase[c]`: the connection is `new`, `ready`,
`waiting` (inside `Pkt_Send_Receive`) or `closed`. `number[c]` is
`m_transIdCounter` less its random first value `FirstId[c]`; `TransId(c, n)` is the
16-bit field on the wire. `left[c]` is `LeftRetries`, `result[c]` what the last call
returned, `answer[c]` the accepted `ReceivePacket`, `inbox[c]` the buffer of the
socket. `program[c]`, chosen at the start, says what the caller will send: a
`query` (`xi_bMustUseRetransmission`, 15 tries), a `command` (one try, since the
Makefile defines `CONSOLE_NO_LAYER2_RETRANSMISSION`), or a `oneWay` reset
(`ReceivePacket` is NULL). `failed[c]` is the discipline of the callers that write
in pieces (`SetFlashFromBufferCommandFunction`...): they return at the first piece
that fails (`MaySend`).

*The network.* `requests` and `replies` are sets of packets on the way, so they
arrive in any order, late, or never. `Deliver` puts a reply in the buffer of *every*
open socket: the connections are made with the broadcast address as their device
(`CM_connect` with NULL), which switches the filter of `ETH_rx` off. `effects`
remembers what the devices executed.

*Actions.* `Open`, `Send` (a call begins), `Retransmit`, `GiveUp` (a try, or the
last try, is over), `Receive` (one `RxPkt`: `Matches` compares the source address
and the id, not the `MsgId`), `Close`; `Execute`, `Deliver`.

`UpgradeFirmware` abstracts a command to three outcomes. `NoEffectAfterAnswer` is
what justifies the first (SUCCESS: executed, and over). The other two (no SUCCESS:
executed at once or never) leave out that a command may be executed *later*, after
its caller gave up; composing the two is in the plan.

### CommandChannel

One channel per connection, without packets, ids, tries or sockets: `Give` (the caller
gives its next command, not after a failure if it writes in pieces), `Execute` (a command
at most once, and only while it is awaited or given up; a query as often as the device
likes) and `Return` (SUCCESS and FAILURE only as the outcome of an execution of this
command). `PacketHandling` implements it under `Status` and `Executions`.

### QueryDevices

`query` is where the query is: it broadcasts (`round`), waits, selects (`list`), and
ends `connected` or `failed`. `NumberOfRetries`, `QueryDevices` and `DeviceMAC` are
the variables of the code; `replies` the answers on the way, each with the round it
answers. All rounds have one transaction id, so `ReceiveReply` takes any of them.
The first answer sets `NumberOfRetries` to 0, after which the wait only starts anew.
`SelectLocalDevice` skips remote devices; with no local one it leaves the value
`Uninitialized` and goes on, as the code does.

### Netinf

*The thread.* `pc` goes through the set-up (`Setup`, `CheckRunning`, `StopOld`,
`StartTest`, each a request that may fail), `Begin`, and the iterations of the
loop, `top` - `read` - `bitload` - `calc`. `sampling` is `SamplingState`: after a
failed sample (`Recover`) one sample is read without a result (`After_Recover`). Of
the counters only the times are kept (`up`, `clock`), with two history fields:
`epoch`, the resets of a receiver that was up for `SkewLimit` or longer, and `age`,
the iterations since the sample was read. `Skewed` is the check of
`Netinf_CalcCEParameters` that two measures of one interval agree.

*main().* A key, a sleep, a look at `ThreadProc_Is_Running`: `PressQ` calls
`Ghn_Stop_Netinf` and joins the thread. `Begin` clears a stop that came during the
set-up, as the code does. `main()` may also leave before the thread has begun.

*The environment.* Time passes, the receiver resets, the test duration ends, and
the transmitter's test ends or is another process's.

### NetinfNetwork and PhyRateTable

`Run_Table[tx, rx]` and `Run_Devices[tx]` are the tables of the code, `i`, `j` the
link its scan is at: one action per cell, by what the cell holds (`SkipCell`,
`TransmitterBusy`, `StartTest`, `StillRunning`, `TestFinished`, `QueryFails`), and
`EndScan` for `while (bFinish != TRUE)`. `test[tx]` is the test the transmitter runs;
it ends by itself, between any two cells. `tested` and `missed` are history.

`PhyRateTable` runs `QueryStep`, `GetStations`, with `-g` the `SweepStep`s, then one
`ReadReceiver` per receiver: it reports any of the links, and the rate of a link is
`measured` if a test has ended on it, `old` if not.

## 3 The runs

| run | instance | shows |
|---|---|---|
| `upgrade_ab` | 1 device, 2 calls, 2 firmwares, no `-B`; about 122,000 states | types; the device is bootable throughout (`AlwaysBootable`); SUCCESS is true; incomplete images are never activated; refinement of `ABUpdate`; every call returns |
| `upgrade_bootloader` | the same with `-B`, printing, final query, reset on error; about 200,000 states | some image is always active, also with `-B`; the inductive invariant of the proofs; while the boot loader is absent the new image is complete and active |
| `um_network` | `-E`, 2 devices in 2 threads, which may not be created in the first round and for the query; about 69,000 states | nothing is switched before all is programmed; the messages are true; the manager is disciplined; the inductive invariant of the proofs (`NetworkInv`); refinement of `NetworkUpdate`; it ends |
| `um_one_device` | `-B` without `-E`, two runs of the tool, threads that may not be created; about 22,000 states | the inductive invariants of any run (`AnyRunInv`) and of the first (`FirstRunInv`); a call that returns SUCCESS has switched its device, from every state an earlier update can leave. The other properties of this configuration follow from the invariants by theorems (section 5) |
| `transport` | 2 threads, 2 devices, one card, equal ids that wrap round and use up the id space, 3 commands each, a buffer of one reply; about 455,000 states | each thread gets the answer of its own device; `ExecutedOnce`, `NoGap`, `NoEffectAfterAnswer`; the inductive invariant; refinement of `CommandChannel`; every call returns |
| `netinf_test` | three configurations of a test (with and without traffic; a caller that ends on errors, without a duration), 3 ticks; about 397,000 states | no result over a gap or a reset; the traffic is stopped; a stop is heeded; the inductive invariant; the tool ends |
| `phy_rate_table` | 3 stations, 3 devices that answer the query, 2 rounds, with and without `-g`; about 36,000 states | the inductive invariant; rates printed after `-g` were measured; no test is cut short; the tool ends if transmitters answer |
| `um_quit_bootloader`, `um_quit_rerun`, `um_two_active`, `phy_rate_table_hangs`, `local_device` | | violations, see below |

Each property of a passing run has a mutant in `PROJECT.json`: a definition of the
model changed as a plausible bug would change the code (the old byte cleared
before the new one is set, a verdict ignored, a loop one section short...), which
the run then refutes.

## 4 Findings

Each has a run whose counterexample is a behaviour of the code.

1. **`um -E -B` can leave a device without firmware** (`um_quit_bootloader`). The
   first round with `-E` passes `bUpdate_Boot_Loader_Version` without
   `bUpdateActiveBit` (`um.c:592`, `601`). The library then replaces the boot
   loader and erases the running image although the new one is not active. The
   tool says "Quiting without upgrade!".
2. **Running `um -E` again before the devices restarted** (`um_quit_rerun`). The
   slot to erase is chosen by `launched` (`GHN_LIB_UpgradeFW.c:1259`), not by the
   active bytes. After a run that switched the bytes and ended in "Device(s) state
   is unstable!!!" (no reset) or was killed, the next run erases the only active
   image.
3. **A device with two active images** (`um_two_active`), as an interrupted call
   leaves it, may restart into its other image between the rounds. The second round
   then takes the wrong slot for the new one, and the summary says "finish
   successfully".
4. **The PHY rate table tool may never end** (`phy_rate_table_hangs`). A status query
   that fails leaves the link pending and its transmitter busy
   (`GHN_LIB_ext.c:4454`). When a transmitter stops answering for good, its other
   links can neither be started nor skipped, and nothing limits the scans.
5. **A connection with an uninitialised MAC** (`local_device`). `Prepare_Connection`
   ignores that `Select_Local_Device` found none (`CMD_Helpers.c:374`), which happens
   when only remote devices answered the query.

The first three bound what `um_network` shows: it runs without `-B`, once, and from
devices with one active image (`CleanInit`).

It also excludes one failure of `pthread_create`. `main()` only prints a message and
goes on; what it then reads as the verdict is what the array held before. In the first
round these are the zeros of the `memset` (`um.c:263`): the device counts as failed. In
the query at the end it is the verdict of the round before, which is the true one. In
the second round of `-E` (`um.c:838`) it is the TRUE of the *first* round: the device is
reset and reported as finished (`um.c:894`) although nobody has switched it. With
`"activate"` in `ThreadsMayFail` TLC finds that behaviour as a violation of
`FinishedMeansSwitched` (and of `ImplementsNetworkUpdate`); everything else that
`um_network` checks holds with it as well. Without `-E` there is no second round,
and `um_one_device` lets the creation of every thread fail.

`phy_rate_table` assumes that a transmitter asked again and again answers; finding 4
is what happens without that.

## 5 The proofs

### UpgradeFirmware

`UpgradeFirmware_proofs` proves, for every set of devices, calls, firmwares,
requests and every number of sections:

| theorem | statement | assumes |
|---|---|---|
| `TypeCorrect` | `Spec => []TypeOK` | |
| `InvariantHolds` | `Spec => []IInv` | `Disciplined` |
| `NeverWithoutImage` | `Spec => []SomeActiveImage` | `Disciplined` |
| `NewImageBeforeBootLoader` | `Spec => []BootLoaderWindow` | `Disciplined` |
| `SuccessIsInstalled` | `Spec => []SuccessMeansInstalled` | `Disciplined` |
| `OnlyCompleteActivated` | `Spec => OnlyCompleteImagesActivated` | `Disciplined` |
| `Implementation` | `Spec => ImplementsABUpdate` | `Disciplined` |
| `BootableThroughout` | `Spec => []AlwaysBootable` | `Disciplined`, no request with `-B` |

*The argument.* "Some image is active" is not inductive: nothing in it says which
image a call in progress may erase or clear. `IInv` adds, for each call, what its
position in the function guarantees: up to `SetActive` the *old* image (slot
`seen[c]`) is active (`OldImageKept`); between erase and the last section, exactly
the sections before `next[c]` are programmed and the active byte is 255
(`ProgramProgress`); from `SetActive` on the *new* image is complete and then
active (`NewImageKept`), so that the old one may be given up; a call that only
activates finds both images complete (`StagedImageKept`); and the boot loader is
rebuilt part by part (`BootLoaderProgress`). `OneCallPerDevice` makes the facts of
one call immune to the steps of the others. Every restart of a device preserves
them because it changes only `mode` and `launched`, and `launched` only to an
active image. The refinement follows because each step changes the activity of at
most one slot (`OneSlotStep`) and `SomeActiveImage` holds after it
(`CallStepMaps`); `OnlyCompleteActivated` because only `SetActive` writes a 1
(`OnlySetActivates`) and `IInv` says what the slot holds then.

`Disciplined` is an assumption on the callers, not on the library. The next section
discharges it for the manager; findings 1 to 3 are what happens where the manager
does not satisfy it.

### UpdateManager

`UpdateManager_proofs` proves, for any devices, firmwares and sections:

| theorem | statement | assumes |
|---|---|---|
| `ManagerTypes` | `UMSpec => []UMTypeOK` | |
| `ManagerInvariant` | `CleanSpec => []ManagerInv` | `OneNetworkRun` |
| `NothingSwitchedEarly` | `CleanSpec => []AllStagedBeforeAnySwitch` | `OneNetworkRun` |
| `ManagerKeepsImages` | `CleanSpec => []SomeActiveImage` | `OneNetworkRun` |
| `QuitIsHarmless` | `CleanSpec => []QuitMeansNoUpgrade` | `OneNetworkRun` |
| `FinishedIsSwitched` | `CleanSpec => []FinishedMeansSwitched` | `OneNetworkRun`, `EverySwitchStarts` |
| `ManagerDisciplined` | `CleanSpec => ManagerIsDisciplined` | `OneNetworkRun` |

`OneNetworkRun` is `-E` without `-B`, run once; `CleanSpec` starts from devices with one
active image. `EverySwitchStarts` says that the threads of the second round can be
created; nothing is assumed of those of the other rounds, and only what is reported at
the end needs it. Where one of these is dropped TLC has counterexamples (section 4).

*The argument.* The invariant puts, on top of the `IInv` of the calls, what each
round guarantees *per device*: in the first one nothing is activated, so that every
device runs its old firmware only, and a call that succeeded has staged the new one
(`FirstRound`); the verdict lets `main()` on only if all have; then all devices hold
the new firmware, a device whose call has not come to `SetActive` is still as the
first round left it, and one whose call succeeded is switched (`SecondRound`); what
comes after finds that all devices hold the new firmware and, if the exit codes of the
second round are those of its own threads, are switched (`AfterRounds`). `ThreadsOfPhase` ties the calls to
the round, `Running` says that no restart takes a device out of its firmware. With
that, `ThreadStartsWell` shows `MayStart` at every start of a call, which is what
`Disciplined` stood for, so the lemmas about single steps of a call apply unchanged.
What is known of *all* devices, `AllStagedBeforeAnySwitch`, follows in every stage
but `killed`, where it is inherited: the end of the process changes no device, and
restarts only `mode` and `launched`.

### um -E as an atomic commitment

`NetworkUpdate_proofs` proves, for any devices, firmwares and sections:

| theorem | statement | assumes |
|---|---|---|
| `NetworkInvariant` | `CleanSpec => []NetworkInv` | `OneNetworkRun` |
| `NetworkRefinement` | `CleanSpec => ImplementsNetworkUpdate` | `OneNetworkRun`, `EverySwitchStarts` |
| `Atomicity` | `Commit!Spec => []Commit!AllOrNothing` | |
| `NetworkAtomic` | `CleanSpec => []Commit!AllOrNothing` | `OneNetworkRun`, `EverySwitchStarts` |
| `NetworkImplementsABUpdate` | `CleanSpec => ImplementsABUpdate` | `OneNetworkRun` |

*The argument.* The refinement says more than the invariants of the section above: that
each device takes its steps once and in order, and that nothing changes after the tool has
spoken. `ManagerInv` is not enough for it. It does not exclude that a device the
first round has not come to yet holds pieces of the new firmware; when its call then erases
the slot, `image[d]` would go back from `staged` to `old`. `Untouched` excludes it: until
the call programs its first section nothing of the new firmware is on the device, which
`UMInit` makes true. The proof then has one step per action. Only four places of the
code change what a device holds or may start: the last section (`Stage`), the set of the
active byte (`Switch`), the clear of the other (`Retire`), and nothing else, restarts
included; only the three verdicts of `main()` tell anything. That all are staged at a
`Switch` is what `SecondRound` says of the other devices. `Atomicity` is about the
abstract specification alone, and `NetworkAtomic` combines the two.

### um without -E

`OneDevice_proofs` proves, for any devices, firmwares and sections:

| theorem | statement | assumes |
|---|---|---|
| `DirectInvariant` | `UMSpec => []AnyRunInv` | no `-E` |
| `DirectBootLoaderWindow` | `UMSpec => []BootLoaderWindow` | no `-E` |
| `DirectSuccessIsInstalled` | `UMSpec => []SuccessMeansInstalled` | no `-E` |
| `DirectOnlyCompleteActivated` | `UMSpec => OnlyCompleteImagesActivated` | no `-E` |
| `DirectFinishedIsSwitched` | `UMSpec => []FinishedMeansSwitched` | no `-E` |
| `FirstRunInvariant` | `UMSpec => []FirstRunInv` | no `-E` |
| `FirstRunKeepsImages` | `UMSpec => []SomeActiveImage` | no `-E`, one run |
| `FirstRunDisciplined` | `UMSpec => ManagerIsDisciplined` | no `-E`, one run |
| `FirstRunImplementsABUpdate` | `UMSpec => ImplementsABUpdate` | no `-E`, one run |

`-B` is free in all of them, threads of any round may fail to be created, and `UMSpec`
starts from devices in any state, two active images included.

*The argument.* The `IInv` of a call has two kinds of parts. Some need the device to have
been in order when the call began (the launched image is active: `OldImageKept`); finding
2 shows that a second run may not find it so. The others the call makes true itself, by
what it erases and programs: `ProgramProgress`, `NewImageKept`, `BootLoaderProgress`.
`CallKept` collects those. They survive killed tools, failed threads and further runs,
because without `-E` no call activates what it has not programmed (`Upgrades <=>
Activates`), so `AnyRunInv` assumes nothing of the history. The boot loader window, SUCCESS
and the activation of complete images only follow from these; that some image stays active
does not, and is proved for the first run only. `DirectInv` adds what a verdict rests on:
a call belongs to a thread of the current phase, which has set its flag
(`ThreadsOfPhase`), and a device that counts as upgraded (`Reported`) is `Switched`, and
stays so through its reset and query. A thread that cannot be created does not disturb
it: a device not treated yet has the exit code FALSE, and in the query that of its
upgrade. `FirstRunInv` adds
that in the first run a device not treated yet runs an active image, from which `MayStart`
follows, hence `IInv` and with it the lemmas of `UpgradeFirmware_proofs`.

### PacketHandling

`PacketHandling_proofs` proves, for any number of connections, devices, commands and
tries, and any size of the ids and of the buffers:

| theorem | statement |
|---|---|
| `TypesHold` | `Spec => []TypeOK` |
| `InvariantHolds` | `Spec => []IInv` |
| `AnswersAreOwn` | `Spec => []AnswerIsOwn` |
| `ProgrammedWithoutGap` | `Spec => []NoGap` |
| `AtMostOnce` | `Spec => []ExecutedOnce` |
| `NoLateEffect` | `Spec => NoEffectAfterAnswer` |

*The argument.* A reply can be trusted only if it was caused by the command, so
`PacketsAccounted` follows every packet: what is on the way was sent (`WasSent`
bounds its number and its try by the counters of the thread) and is not yet
executed; what is in a buffer or on its way back is an effect of the device. Since
`LeftRetries` is 0 for a `command`, it has one transmission, hence one effect. A
reply that matches has the device and the id of the awaited command, and by
`DistinctIds` it is a reply to it (`MatchIsOwn`): SUCCESS then means executed, and
nothing of the command is left on the way. `Progress` carries this from command to
command. The types need `Counts`, which bounds `LeftRetries`.

The theorems rest on the assumptions of `PacketHandling` about its constants.
All but one are bounds and types; `DistinctIds` says that two connections to the
same device do not use the same ids. Within one connection the code guarantees it:
even an image of 4 MB takes fewer than 3000 commands, against 65536 ids. Of two
connections it is only likely (`rand()`), and where it fails a late reply to the
first can be accepted by the second. Connections to *different* devices may share
ids; run `transport` has them equal. Two connections to one device with distinct ids
are covered by the theorems, not by a run.

`CommandChannel_proofs` proves, under the same assumptions,

| theorem | statement |
|---|---|
| `ChannelRefinement` | `Spec => ImplementsCommandChannel` |
| `ChannelInOrder` | `Channel!Spec => []Channel!InOrder` |
| `TransportInOrder` | `Spec => []Channel!InOrder` |

*The argument.* Opening, closing, retransmitting, delivering, and receiving what does not
match change neither `Status` nor `Executions`. A `Send` is a `Give`. A `Receive` that
matches is a `Return`: by `MatchIsOwn` the reply is to this command, by `PacketsAccounted`
it stands for an execution. An `Execute` is one of the channel because a packet
on the way has not been executed, has a single transmission unless it is a query, and, if
it is a command, is awaited or given up (`Progress`). What a caller that writes in pieces
needs (each piece once, in order, no hole) is then proved of the channel alone:
`ChannelInv` says of each connection that without a failure all but the awaited command
succeeded, and that each was given only after those before it had.

### Netinf

`Netinf_proofs` proves `InvariantHolds`, `TypesHold`, `ResultsConsecutive`,
`ResultsSpanNoReset`, `TrafficStopped` and `StopHeeded` (`Spec => []...`) for any
configurations, any `SkewLimit` and any length of the test.

*The argument.* That a result compares consecutive samples depends on
`SamplingState`, which is set at six places of the loop: `SamplesAreFresh` says, for
each place of the thread, how old both samples are when nothing has failed, and that
the up-time that is remembered is that of the last one. That it spans no reset rests
on the *lead* of the clock over the up-time, which never decreases and grows by more
than `SkewLimit` when a receiver up for so long resets (`TimesAreOrdered`); a result
is only saved if the lead has grown by at most that. `TrafficIsOwned` says who still
has to stop the test, `FlagFollows` what `ThreadProc_Is_Running` tells `main()`, and
`StopIsLast` that a sample begun after a stop makes the iteration the last.

### PhyRateTable

`PhyRateTable_proofs` proves `InvariantHolds`, `TypesHold`, `TestsRunToTheirEnd` and
`TableMeasured` for any number of stations, devices and rounds, and any table size.

*The argument.* `Pending`: a transmitter that runs a test has exactly this link
pending and is marked busy, so that `StartTest`, which wants it available, finds it
idle. `Tested`: a link marked as run was tested, a pending one is being tested or
was. `ScanIsRight`: while `bFinish` is TRUE and no query has failed, every link that
the scan has passed is done; at its end all links are, and then every rate read is a
measured one. `SweepStatus` relates the place of the scan to what it returned.

### Only model-checked

Liveness (`CallsReturn`, `ManagerEnds`, `CommandsEnd`, and `ToolEnds` of both tools) is
out of the prover's reach. All other properties of the passing runs are theorems. Two
are proved under stronger assumptions than one would wish, because without these they
are false: those of `um -E` (`OneNetworkRun`, `CleanSpec` and, for what is reported,
`EverySwitchStarts`; section 4), and those without `-E` that speak of the device as a whole (one run; a second run of `um` can erase the only
active image as finding 2 describes, also without `-E`).

## 6 Bounds, fairness, assumptions

* **SectionCount = 2.** Section 1 is the table of contents (FW SPI), the last one
  stands for the others; the loop is left and continued, and an image can be
  absent, begun and complete. The proofs have no bound.
* **Firmware = {old, new}.** The properties compare an image with the BIN file only.
* **Devices and calls.** Calls interact only on the same device, hence one device
  and two calls for the library (one after the other; for disciplined callers never
  at once). The manager's rounds need two devices: one that is ahead, one that is
  late or fails. `NetworkInit` lets both start from slot 1, since the slots are
  interchangeable.
* **MaxRuns** bounds how often the tool is started; 2 shows what a run finds that
  an earlier one left.
* **Fairness.** `CallStep` is weakly fair for each call: a command returns because
  `Pkt_Send_Receive` waits at most its timeout. `MainStep` and each thread are
  weakly fair: the operating system schedules them. Nothing is assumed of commands
  succeeding, of restarts, or of the tool being killed.
* **Transport bounds.** Two connections show any interference, since a reply
  concerns one other command. `QueryTries = 2` gives a query a late and a second
  reply; `InboxSize = 1` lets a buffer overflow; `MaxCommands = 3` gives a query
  followed by two pieces of data, and two pieces followed by a reset. `IdSpace = 3`
  makes the ids of a connection wrap round and leaves none unused. One program of
  commands per connection keeps the state space small.
* **Transport fairness.** `WaitStep` is weakly fair: a thread is scheduled and its
  clock goes on. Nothing is assumed of the network. Timeouts are abstracted: a try
  may end at any moment after it began.
* **Channel test bounds.** `SkewLimit = 2` and `MaxClock = 3` ticks let a receiver be
  up for the limit, reset, and be read at an up-time that shows nothing of it. The
  configurations are the tool's, and one of a caller of the library with
  `bStopOnReadingError` and without a duration. The proofs have no bound.
* **Channel test fairness.** Both threads are scheduled, requests end (libcurl and
  the console have timeouts), and the duration passes. Nobody has to press a key.
  The clock is taken to be never set.
* **Tests of a network, bounds.** Three stations give a transmitter two links, so that
  one waits for the other, and two transmitters that run at once. `MaxRetries = 2`
  and `MaxSize = 3` let a device answer twice and the table be full.
* **Tests of a network, fairness.** Requests end; a transmitter ends its test
  after its duration (`FairSpec`). `AnsweringSpec` adds that a transmitter asked again
  and again answers once its test is over (strong fairness of `TestFinished`): without
  it the tool may not end, which is finding 4. A wait of the query may end at any time.
* **The network does not duplicate packets**, and a send that fails is a packet that
  is lost (`Pkt_Send_Receive` ignores the status of `TxPkt`).
* **Sleep before polling.** A polling loop ends only when no thread is merely
  `created`: `main()` sleeps 2 s (1 s in the last loop) before it reads the flags.
* **Shared array.** The stores of a thread to its exit code and its flag are taken
  to be seen in the order of the program.
* **Failed `pthread_create`.** `ThreadsMayFail` names the rounds in which it may fail.
  Flag and exit code keep what they had: the zeros of the `memset` in the first round,
  what the device's last thread has left in the others.
* **Initial devices.** They run an active image, and the other slot is empty,
  begun (a table without active byte) or complete with any active byte.
* **A command that timed out** took effect at once or never does.

## 7 What is not modelled

The query-only mode of `um` (without `-f`), its option parsing and its search for
devices; `-M` (programming of a MAC address); `bIsBootCode`; the progress file; a
thread that starts after `main()` freed its parameter block; the contents of the
parameter blocks copied to the new image; flash addresses (the boot loader's offset
table of the BIN file against that of the device); of the transport, the payloads and
`Pkt_Receive`; a command that is executed after its caller gave up, in its effect on
the flash (`PacketHandling` shows that it can happen, `UpgradeFirmware` leaves it
out). Of the channel test: parsing, the rates computed, the graph files, parsing of
recorded samples. Of the PHY rate table: `-m`, `-I`, names, and a second run of the
tool while tests of the first go on.
Much of the repository is vendored (libcurl, mxml) or has no state of its own between
two calls: one request and one answer, parsing and printing. The components are
listed in `PROJECT.json`, each with the reason.

## 8 Plan

Done: the modules of section 2. What could follow:

1. The late execution of a command after its caller gave up, composed with
   `UpgradeFirmware`: an erase that arrives when the next call has begun.
2. `FlashTransfer.tla`: reading and writing of flash in pieces, with the addresses,
   sizes and the special flag of the first piece, checked against a reference
   definition.
3. `TLVBlock.tla`: search, override and appending of parameters, checked against a
   reference definition; `UpdateParameters` on top of it.
4. `LinkStatistics.tla`: differences of wrapping counters between two samples.
5. `Connection.tla`: handle table of `cmgr.c`, opening and closing.
