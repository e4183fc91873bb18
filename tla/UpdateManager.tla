---------------------------- MODULE UpdateManager ----------------------------
(***************************************************************************)
(* The update manager, main() and ThreadProc() of SDK/um/um.c: it upgrades *)
(* one device, or (-E) all the devices of a network, by running            *)
(* Ghn_Upgrade_Firmware() in one thread per device.  With -E it works in   *)
(* phases: first every device's inactive image is programmed; only when    *)
(* all of them succeeded a second round of threads switches the active     *)
(* bits; then the devices are reset and queried.                           *)
(*                                                                         *)
(* The calls and the devices are those of UpgradeFirmware.  The main       *)
(* thread shares with the others only the array ThreadsInformation: a flag *)
(* Thread_Is_Running it polls and a Thread_Exit_Code it reads.             *)
(***************************************************************************)
EXTENDS UpgradeFirmware

CONSTANTS
    BinFile,            \* the firmware of option -f
    EntireNetwork,      \* option -E
    WithBootLoader,     \* option -B
    Local,              \* devices with bLocalDevice, attached to this host
    ThreadsMayFail,     \* the rounds in which pthread_create() may fail
    MaxRuns             \* how often the user runs the tool (bound)

ASSUME BinFileAssumption == BinFile \in Firmware
ASSUME OptionsAssumption == {EntireNetwork, WithBootLoader} \subseteq BOOLEAN
ASSUME LocalAssumption == Local \subseteq Device
ASSUME ThreadsAssumption == ThreadsMayFail \subseteq {"upgrade", "activate", "query"}
ASSUME MaxRunsAssumption == MaxRuns \in Nat \ {0}
\* ThreadsInformation[i-1] belongs to the i-th device of StationList_Array.
ASSUME OneThreadPerDevice ==
    Call = Device /\ Target = [d \in Device |-> d] /\ ~Disciplined

VARIABLES
    stage,      \* where main() is
    todo,       \* the devices the current loop of main() has still to treat
    thread,     \* thread[d]: "none", "created" or "calling"
    running,    \* ThreadsInformation[d].Thread_Is_Running
    exitCode,   \* ThreadsInformation[d].Thread_Exit_Code # FALSE
    dm,         \* the devices with DMStatus_Table = TRUE
    runs        \* how often the tool was started

managerVars == <<stage, todo, thread, running, exitCode, dm, runs>>
umVars == <<vars, managerVars>>

Ended == {"quit", "unstable", "done", "killed"}
Stage == {"upgrade", "activate", "reset", "query"} \cup Ended

\* Mutant: the first phase activates although it treats the entire network.
ActivatesAtOnce(phase) ==
    CASE phase = "upgrade" -> {"upgrade", "activate"}
      [] phase = "activate" -> {"activate"}
      [] OTHER -> {"query"}

\* The options of the threads of each phase.
RequestOf(phase) ==
    CASE phase = "upgrade" ->
            {"upgrade"} \cup (IF EntireNetwork THEN {} ELSE {"activate"})
                        \cup (IF WithBootLoader THEN {"bootloader"} ELSE {})
      [] phase = "activate" -> {"activate"}
      [] OTHER -> {"query"}

\* The devices whose last thread reported no failure.
Succeeded == {d \in Device : exitCode[d]}

\* main() goes on to a stage whose loop treats the devices of set.
GoOn(next_stage, set) == stage' = next_stage /\ todo' = set

-----------------------------------------------------------------------------
(* The threads. *)

\* pthread_create().  When it fails main() only prints a message, and what it
\* reads later in the array is what was there before: in the first round the
\* zeros of the memset, "not running" and "failed", in the others what the
\* device's thread of an earlier round has left.
StartThread(d) ==
    /\ stage \in {"upgrade", "activate", "query"}
    /\ d \in todo
    /\ todo' = todo \ {d}
    /\ \/ thread' = [thread EXCEPT ![d] = "created"]
       \/ stage \in ThreadsMayFail /\ UNCHANGED thread
    /\ UNCHANGED <<running, exitCode, vars, stage, dm, runs>>

\* ThreadProc up to its call of Ghn_Upgrade_Firmware.
ThreadStarts(d) ==
    /\ thread[d] = "created"
    /\ thread' = [thread EXCEPT ![d] = "calling"]
    /\ running' = [running EXCEPT ![d] = TRUE]
    /\ StartCall(d)
    /\ opts'[d] = RequestOf(stage) /\ bin'[d] = BinFile
    /\ UNCHANGED <<stage, todo, exitCode, dm, runs>>

ThreadSteps(d) == CallStep(d) /\ UNCHANGED managerVars

\* Mutant: the running flag is not cleared when the call failed.
LeavesRunning(d) ==
    /\ thread[d] = "calling" /\ pc[d] = "idle"
    /\ exitCode' = [exitCode EXCEPT ![d] = (stat[d] = "SUCCESS")]
    /\ running' = [running EXCEPT ![d] = (stat[d] # "SUCCESS")]
    /\ thread' = [thread EXCEPT ![d] = "none"]
    /\ UNCHANGED <<vars, stage, todo, dm, runs>>

\* Mutant: a thread that ended does not free its place for the next one.
EndsUnjoined(d) ==
    /\ thread[d] = "calling" /\ pc[d] = "idle"
    /\ exitCode' = [exitCode EXCEPT ![d] = (stat[d] = "SUCCESS")]
    /\ running' = [running EXCEPT ![d] = FALSE]
    /\ thread' = [thread EXCEPT ![d] = "ended"]
    /\ UNCHANGED <<vars, stage, todo, dm, runs>>

\* ThreadProc after its call returned.
ThreadEnds(d) ==
    /\ thread[d] = "calling" /\ pc[d] = "idle"
    /\ exitCode' = [exitCode EXCEPT ![d] = (stat[d] = "SUCCESS")]
    /\ running' = [running EXCEPT ![d] = FALSE]
    /\ thread' = [thread EXCEPT ![d] = "none"]
    /\ UNCHANGED <<vars, stage, todo, dm, runs>>

-----------------------------------------------------------------------------
(* The main thread. *)

\* The end of a polling loop.  main() sleeps before it polls: the threads it
\* created have set their flag by then.
AllStopped(phase) ==
    /\ stage = phase
    /\ todo = {}
    /\ \A d \in Device : thread[d] # "created" /\ ~running[d]
    /\ UNCHANGED <<vars, thread, running, exitCode, dm, runs>>

\* Mutant: the failures of the phase are printed but not acted upon.
GoesOnRegardless == AllStopped("upgrade") /\ GoOn("activate", Device)

\* The verdict on the upgrade threads.  Without -E there is none.
UpgradeVerdict ==
    /\ AllStopped("upgrade")
    /\ \/ ~EntireNetwork /\ GoOn("reset", Succeeded)
       \/ EntireNetwork /\ Succeeded = Device /\ GoOn("activate", Device)
       \/ EntireNetwork /\ Succeeded # Device /\ GoOn("quit", {})

\* The verdict on the threads that switched the active bits.
ActivateVerdict ==
    /\ AllStopped("activate")
    /\ \/ Succeeded = Device /\ GoOn("reset", Device)
       \/ Succeeded # Device /\ GoOn("unstable", {})

\* The order of the three loops: remote RN devices, the DM, local RN devices.
ResetRank(d) == IF d \in dm THEN 2 ELSE IF d \in Local THEN 3 ELSE 1

\* CMDHelpers_Reset: no reply is awaited and a failure is ignored.
SendReset(d) ==
    /\ stage = "reset"
    /\ d \in todo
    /\ \A e \in todo : ResetRank(d) <= ResetRank(e)
    /\ todo' = todo \ {d}
    /\ Reboot(d) \/ UNCHANGED deviceVars
    /\ UNCHANGED <<callVars, stage, thread, running, exitCode, dm, runs>>

\* After the resets main() waits and queries the devices it has reset.
AllReset ==
    /\ stage = "reset" /\ todo = {}
    /\ \/ Succeeded # {} /\ GoOn("query", Succeeded)
       \/ Succeeded = {} /\ GoOn("done", {})
    /\ UNCHANGED <<vars, thread, running, exitCode, dm, runs>>

\* The summary: "finish successfully" for the devices of Succeeded.
Summary == AllStopped("query") /\ GoOn("done", {})

MainStep ==
    \/ \E d \in Device : StartThread(d) \/ SendReset(d)
    \/ UpgradeVerdict \/ ActivateVerdict \/ AllReset \/ Summary

\* The process is killed, and with it every thread and every call.
ToolKilled ==
    /\ stage \notin Ended
    /\ GoOn("killed", {})
    /\ pc' = [c \in Call |-> "idle"]
    /\ opts' = [c \in Call |-> {}]
    /\ seen' = [c \in Call |-> 1]
    /\ next' = [c \in Call |-> 1]
    /\ thread' = [d \in Device |-> "none"]
    /\ UNCHANGED <<deviceVars, bin, stat, running, exitCode, dm, runs>>

\* The user runs the tool again.
RunAgain ==
    /\ stage \in Ended
    /\ runs < MaxRuns
    /\ runs' = runs + 1
    /\ GoOn("upgrade", Device)
    /\ running' = [d \in Device |-> FALSE]
    /\ exitCode' = [d \in Device |-> FALSE]
    /\ UNCHANGED <<vars, thread, dm>>

\* The network before the first run: no device holds the new firmware.  At
\* most one device is the DM; IsDMStatus also returns FALSE when it cannot
\* reach the device, so DMStatus_Table may have no entry that is TRUE.
UMInit ==
    /\ Init
    /\ \A d \in Device, s \in Slot : fw[d][s] # BinFile
    /\ bin = [c \in Call |-> BinFile]
    /\ stage = "upgrade"
    /\ todo = Device
    /\ thread = [d \in Device |-> "none"]
    /\ running = [d \in Device |-> FALSE]
    /\ exitCode = [d \in Device |-> FALSE]
    /\ dm \in {D \in SUBSET Device : Cardinality(D) <= 1}
    /\ runs = 1

\* No earlier update was interrupted between its two writes of an active byte:
\* every device starts with one image that is active.
CleanInit == UMInit /\ \A d \in Device : ~ActiveImage(d, Other(launched[d]))

UMNext ==
    \/ MainStep
    \/ \E d \in Device : ThreadStarts(d) \/ ThreadSteps(d) \/ ThreadEnds(d)
    \/ \E d \in Device : DeviceRestarts(d) /\ UNCHANGED managerVars
    \/ ToolKilled
    \/ RunAgain

\* Threads are scheduled, commands return, and main() leaves its sleeps.
UMFairness ==
    /\ WF_umVars(MainStep)
    /\ \A d \in Device : WF_umVars(ThreadStarts(d) \/ ThreadSteps(d) \/ ThreadEnds(d))

UMSpec == UMInit /\ [][UMNext]_umVars
CleanSpec == CleanInit /\ [][UMNext]_umVars
UMFairSpec == UMSpec /\ UMFairness

-----------------------------------------------------------------------------
(* Properties. *)

\* Every variable of the manager holds values of its kind.
UMTypeOK ==
    /\ stage \in Stage
    /\ todo \subseteq Device
    /\ thread \in [Device -> {"none", "created", "calling"}]
    /\ running \in [Device -> BOOLEAN]
    /\ exitCode \in [Device -> BOOLEAN]
    /\ dm \subseteq Device
    /\ runs \in 1..MaxRuns

HoldsNew(d) == \E s \in Slot : Complete(d, s) /\ fw[d][s] = BinFile
RunsNewNext(d) == \E s \in Slot : ActiveImage(d, s) /\ fw[d][s] = BinFile
Switched(d) ==
    /\ RunsNewNext(d)
    /\ \A s \in Slot : ActiveImage(d, s) => fw[d][s] = BinFile

\* The point of the two phases of -E: no device of the network can be started
\* into the new firmware before every device holds it completely, however the
\* threads interleave and whichever of them fail.
AllStagedBeforeAnySwitch ==
    (\E d \in Device : RunsNewNext(d)) => \A e \in Device : HoldsNew(e)

\* "Quiting without upgrade!": when the tool gives up after the first phase,
\* every device can be started, and only into the firmware it had.
QuitMeansNoUpgrade ==
    stage = "quit" =>
        \A d \in Device : (\E s \in Slot : ActiveImage(d, s)) /\ ~RunsNewNext(d)

\* "Quiting without upgrade!", the least of it: no device is left without an
\* image it can be started from.
QuitLeavesImages ==
    stage = "quit" => \A d \in Device : \E s \in Slot : ActiveImage(d, s)

\* "finish successfully": a device the summary reports so holds the complete
\* new firmware as its only active image.
FinishedMeansSwitched ==
    stage = "done" => \A d \in Succeeded : Switched(d)

\* The manager respects what Ghn_Upgrade_Firmware needs of its callers and
\* does not check: it starts an update only on a device no other call works
\* on, that was launched from its active image, and switches the bits only
\* where the other image was programmed completely.
ManagerIsDisciplined ==
    [][\A d \in Device :
          pc[d] = "idle" /\ pc'[d] # "idle" /\ Updates(opts'[d])
              => MayStart(d, opts'[d])]_umVars

\* Every run of the tool ends, whatever the devices and the threads do.
ManagerEnds == stage \notin Ended ~> stage \in Ended

-----------------------------------------------------------------------------
(* The inductive invariant of um -E without -B, run once on devices with    *)
(* one active image.                                                        *)

\* The device runs the old firmware, its only active image.
OldOnly(d) ==
    /\ ActiveImage(d, launched[d])
    /\ ~ActiveImage(d, Other(launched[d]))
    /\ fw[d][launched[d]] # BinFile

\* Its other slot holds the new firmware, complete and never activated.
StagedNew(d) ==
    LET s == Other(launched[d]) IN
    /\ Complete(d, s)
    /\ activeByte[d][s] = 255
    /\ fw[d][s] = BinFile

\* The call of the device's thread has returned SUCCESS, or is about to.
Succeeds(d) ==
    \/ pc[d] \in {"query", "exit"}
    \/ thread[d] = "calling" /\ pc[d] = "idle" /\ stat[d] = "SUCCESS"

\* Calls are made by the threads of the current phase, which main() awaits.
ThreadsOfPhase(d) ==
    /\ bin[d] = BinFile
    /\ pc[d] # "idle" => thread[d] = "calling" /\ opts[d] = RequestOf(stage)
    /\ thread[d] # "none" => stage \in {"upgrade", "activate", "query"} /\ d \notin todo
    /\ stage \notin Ended => (running[d] <=> thread[d] = "calling")

\* No restart takes the device out of its firmware.
Running(d) == BootLoaderIntact(d) /\ mode[d] = "FW"

\* First round: nothing is activated, and what succeeded is staged.
FirstRound(d) ==
    /\ stage \in {"upgrade", "quit"} => OldOnly(d)
    /\ stage = "upgrade" =>
          /\ Succeeds(d) \/ exitCode[d] => StagedNew(d)
          /\ d \in todo \/ thread[d] # "none" => ~exitCode[d]

\* The exit codes of the second round are those of its own threads.
EverySwitchStarts == "activate" \notin ThreadsMayFail

\* Second round: everything is staged, and what succeeded is switched.
SecondRound(d) ==
    /\ stage \in {"activate", "unstable"} => HoldsNew(d)
    /\ stage = "activate" =>
          /\ \/ d \in todo \/ thread[d] = "created"
             \/ pc[d] \in BeforeRead \cup Preparing \cup {"setActive"}
             => OldOnly(d) /\ StagedNew(d)
          /\ pc[d] = "clearActive" => fw[d][Other(seen[d])] = BinFile
          /\ \/ Succeeds(d)
             \/ EverySwitchStarts /\ d \notin todo /\ thread[d] = "none" /\ exitCode[d]
             => Switched(d)

\* What comes after trusts the exit codes of the second round.
AfterRounds(d) ==
    stage \in {"reset", "query", "done"} =>
        HoldsNew(d) /\ (EverySwitchStarts => Switched(d))

DeviceInv(d) ==
    ThreadsOfPhase(d) /\ Running(d) /\ FirstRound(d) /\ SecondRound(d) /\ AfterRounds(d)

ManagerInv ==
    /\ UMTypeOK
    /\ IInv
    /\ AllStagedBeforeAnySwitch
    /\ \A d \in Device : DeviceInv(d)

\* Until its call programs the first section, no slot of the device has anything
\* of the new firmware: a device is staged once, by the last section.
Untouched(d) ==
    stage = "upgrade" /\ (\/ d \in todo \/ thread[d] = "created"
                          \/ pc[d] \in BeforeRead \cup Preparing
                                        \cup {"erase", "updateBlocks"})
    => \A s \in Slot : fw[d][s] # BinFile

\* What the refinement below rests on.
NetworkInv == ManagerInv /\ \A d \in Device : Untouched(d)

-----------------------------------------------------------------------------
(* The inductive invariants of um without -E, with -B or without, on        *)
(* devices in any state from which they can be upgraded: of any number of   *)
(* runs, and of the first.                                                  *)

\* main() counts, or will count, the device as upgraded.
Reported(d) ==
    \/ exitCode[d]
    \/ thread[d] = "calling" /\ pc[d] = "idle" /\ stat[d] = "SUCCESS"
    \/ stage = "query" /\ (d \in todo \/ thread[d] # "none")

\* What is reported of a device is true of it.
DirectInv(d) ==
    /\ ThreadsOfPhase(d)
    /\ stage = "upgrade" /\ (d \in todo \/ thread[d] # "none") => ~exitCode[d]
    /\ Reported(d) => Switched(d)

\* A call of um without -E never activates what it has not programmed itself.
CallKept(c) ==
    /\ Upgrades(opts[c]) <=> Activates(opts[c])
    /\ StepsMatchOptions(c)
    /\ ProgramProgress(c)
    /\ NewImageKept(c)
    /\ BootLoaderProgress(c)

\* In every run, whatever the runs before have left.
AnyRunInv ==
    /\ UMTypeOK
    /\ TypeOK
    /\ stage \notin {"activate", "quit", "unstable"}
    /\ \A d \in Device : CallKept(d) /\ DirectInv(d)

\* In the first run a device not treated yet runs an image that is active, and
\* the calls keep what they need: no device loses its last image.
FirstRunInv ==
    /\ AnyRunInv
    /\ runs = 1 =>
          /\ IInv
          /\ \A d \in Device :
                stage = "upgrade" /\ (d \in todo \/ thread[d] = "created") =>
                    Running(d) /\ ActiveImage(d, launched[d])

-----------------------------------------------------------------------------
(* um -E as an atomic commitment of the network. *)

\* What a device holds and may be started into.
ImageOf(d) ==
    IF Switched(d) THEN "new"
    ELSE IF RunsNewNext(d) THEN "both"
    ELSE IF HoldsNew(d) THEN "staged" ELSE "old"

\* What the ends of main() say; a tool that was killed says nothing.
Told ==
    CASE stage = "quit" -> "quit"
      [] stage = "unstable" -> "unstable"
      [] stage = "done" -> "finished"
      [] OTHER -> "nothing"

Images == [d \in Device |-> ImageOf(d)]
Finished == IF stage = "done" THEN Succeeded ELSE {}

Commit == INSTANCE NetworkUpdate
            WITH image <- Images, told <- Told, finished <- Finished

\* The threads of um -E, their commands, what fails of them, the restarts of the
\* devices and the end of the tool are steps of the commitment or none of it:
\* each device is staged, switched and retired once and in this order, none is
\* switched before all are staged, and none changes after the tool's message.
ImplementsNetworkUpdate == Commit!Spec

=============================================================================
