------------------------ MODULE UpdateManager_proofs ------------------------
(***************************************************************************)
(* Theorems about UpdateManager.  The types hold for every option and any   *)
(* number of runs.  The rest is about um -E without -B, run once on devices *)
(* with one active image, for any set of devices and any sections: where    *)
(* one of these conditions fails, TLC has counterexamples.  Any thread may  *)
(* fail to be created; only what is reported at the end needs the threads   *)
(* of the second round to start (EverySwitchStarts).                        *)
(***************************************************************************)
EXTENDS UpdateManager, UpgradeFirmware_proofs

\* The conditions: -E, no -B, the tool is run once.
OneNetworkRun ==
    EntireNetwork /\ ~WithBootLoader /\ MaxRuns = 1

-----------------------------------------------------------------------------
(* Types. *)

\* The stages main() goes on to.
LEMMA StageNames == {"upgrade", "activate", "reset", "query", "quit", "unstable",
                     "done", "killed"} = Stage
BY DEF Stage, Ended

LEMMA SucceededType == Succeeded \subseteq Device
BY DEF Succeeded

\* Every action keeps the types of the manager's variables.
LEMMA UMNextTypes ==
    ASSUME UMTypeOK, [UMNext]_umVars
    PROVE  UMTypeOK'
<1> USE StageNames, SucceededType DEF UMTypeOK, GoOn
<1>1. ASSUME NEW d \in Device, StartThread(d) PROVE UMTypeOK'
  BY <1>1 DEF StartThread, vars
<1>2. ASSUME NEW d \in Device, SendReset(d) PROVE UMTypeOK'
  BY <1>2 DEF SendReset
<1>3. CASE UpgradeVerdict
  BY <1>3 DEF UpgradeVerdict, AllStopped
<1>4. CASE ActivateVerdict
  BY <1>4 DEF ActivateVerdict, AllStopped
<1>5. CASE AllReset
  BY <1>5 DEF AllReset
<1>6. CASE Summary
  BY <1>6 DEF Summary, AllStopped
<1>7. ASSUME NEW d \in Device, ThreadStarts(d) PROVE UMTypeOK'
  BY <1>7 DEF ThreadStarts
<1>8. ASSUME NEW d \in Device, ThreadSteps(d) PROVE UMTypeOK'
  BY <1>8 DEF ThreadSteps, managerVars
<1>14. CASE UNCHANGED managerVars
  BY <1>14 DEF managerVars
<1>9. ASSUME NEW d \in Device, ThreadEnds(d) PROVE UMTypeOK'
  BY <1>9 DEF ThreadEnds
<1>10. CASE ToolKilled
  BY <1>10 DEF ToolKilled
<1>11. CASE RunAgain
  <2>1. runs' = runs + 1 /\ runs < MaxRuns
    BY <1>11 DEF RunAgain
  <2>2. runs' \in 1..MaxRuns
    BY <2>1, MaxRunsAssumption
  <2>3. UNCHANGED <<thread, dm>> /\ stage' = "upgrade" /\ todo' = Device
        /\ running' = [d \in Device |-> FALSE] /\ exitCode' = [d \in Device |-> FALSE]
    BY <1>11 DEF RunAgain
  <2> QED BY <2>2, <2>3
<1>12. CASE UNCHANGED umVars
  BY <1>12 DEF umVars, managerVars
<1> HIDE DEF UMTypeOK, GoOn
<1>13. CASE MainStep
  BY <1>13, <1>1, <1>2, <1>3, <1>4, <1>5, <1>6 DEF MainStep
<1> QED
  BY <1>7, <1>8, <1>9, <1>10, <1>11, <1>12, <1>13, <1>14 DEF UMNext

LEMMA UMInitTypes == UMInit => UMTypeOK
<1> SUFFICES ASSUME UMInit PROVE UMTypeOK
  OBVIOUS
<1>1. runs \in 1..MaxRuns
  BY MaxRunsAssumption DEF UMInit
<1>2. stage \in Stage /\ todo \subseteq Device /\ dm \subseteq Device
  BY StageNames DEF UMInit
<1>3. /\ thread \in [Device -> {"none", "created", "calling"}]
      /\ running \in [Device -> BOOLEAN]
      /\ exitCode \in [Device -> BOOLEAN]
  BY DEF UMInit
<1> QED BY <1>1, <1>2, <1>3 DEF UMTypeOK

\* Every variable of the manager always holds values of its kind, whatever its
\* options, its devices and the number of its runs.
THEOREM ManagerTypes == UMSpec => []UMTypeOK
<1>1. UMInit => UMTypeOK
  BY UMInitTypes
<1>2. UMTypeOK /\ [UMNext]_umVars => UMTypeOK'
  BY UMNextTypes
<1> QED BY <1>1, <1>2, PTL DEF UMSpec

-----------------------------------------------------------------------------
(* The calls of the threads. *)

USE DEF Upgrades, Activates, ReplacesBootLoader, Updates

\* The thread of a device works on that device.
LEMMA OwnDevices == Call = Device /\ \A d \in Device : Target[d] = d
BY OneThreadPerDevice

\* The options of each phase of um -E without -B.
LEMMA PhaseRequests ==
    ASSUME OneNetworkRun
    PROVE  /\ RequestOf("upgrade") = {"upgrade"}
           /\ RequestOf("activate") = {"activate"}
           /\ RequestOf("query") = {"query"}
BY DEF OneNetworkRun, RequestOf

\* A thread changes nothing of the others, nor of their devices.
LEMMA OtherThreads ==
    ASSUME TypeOK, NEW d \in Device, CallStep(d) \/ StartCall(d),
           NEW e \in Device, e # d
    PROVE  /\ SameCall(e) /\ SameDevice(e)
           /\ stat'[e] = stat[e] /\ mode'[e] = mode[e]
<1>1. SameCall(e) /\ SameDevice(e)
  BY OwnDevices, OnlyOwnCall, OnlyOwnDevice
<1>2. stat'[e] = stat[e]
  <2>1. CASE \E st : Leave(d, st)
    BY <2>1 DEF Leave, TypeOK
  <2>2. CASE UNCHANGED stat
    BY <2>2
  <2>3. CASE StartCall(d)
    BY <2>3 DEF StartCall, TypeOK
  <2>4. CASE CallStep(d)
    <3>1. (\E st : Leave(d, st)) \/ UNCHANGED stat
      BY <2>4 DEF CallStep, CheckBinFile, CheckChipType, ReadFlashInformation,
         OpenConnection, EnterRemoteUpgrade, ParseFWTable, EraseInactive,
         UpdateBlocks, ProgramSection, SetActive, EraseBootLoader, ProgramEBL,
         ProgramB1, EraseActive, ClearActive, QueryDevice, Return, Fail,
         Advance, Locals
    <3> QED BY <2>1, <2>2, <3>1
  <2> QED BY <2>3, <2>4
<1>3. mode'[e] = mode[e]
  <2>1. CASE UNCHANGED mode
    BY <2>1
  <2>2. CASE Reboot(d)
    BY <2>2 DEF Reboot, TypeOK
  <2>3. UNCHANGED mode \/ Reboot(d)
    BY OwnDevices DEF StartCall, CallStep, CheckBinFile, CheckChipType,
       ReadFlashInformation, OpenConnection, EnterRemoteUpgrade, ParseFWTable,
       EraseInactive, UpdateBlocks, ProgramSection, SetActive, EraseBootLoader,
       ProgramEBL, ProgramB1, EraseActive, ClearActive, QueryDevice, Return,
       Fail, deviceVars
  <2> QED BY <2>1, <2>2, <2>3
<1> QED BY <1>1, <1>2, <1>3

\* A call keeps its BIN file and, to its end, its options.
LEMMA CallRegisters ==
    ASSUME TypeOK, NEW d \in Device, CallStep(d)
    PROVE  bin'[d] = bin[d] /\ (pc'[d] # "idle" => opts'[d] = opts[d])
<1>1. CASE \E st : Leave(d, st)
  BY <1>1, OwnDevices DEF Leave, GoTo, TypeOK
<1>2. CASE UNCHANGED <<opts, bin>>
  BY <1>2
<1>3. (\E st : Leave(d, st)) \/ UNCHANGED <<opts, bin>>
  BY DEF CallStep, CheckBinFile, CheckChipType, ReadFlashInformation,
     OpenConnection, EnterRemoteUpgrade, ParseFWTable, EraseInactive,
     UpdateBlocks, ProgramSection, SetActive, EraseBootLoader, ProgramEBL,
     ProgramB1, EraseActive, ClearActive, QueryDevice, Return, Fail,
     Advance, Locals
<1> QED BY <1>1, <1>2, <1>3

\* A call that fails has not succeeded.
LEMMA FailedCall ==
    ASSUME TypeOK, NEW d \in Device, NEW st \in Status \ {"SUCCESS"}, Leave(d, st)
    PROVE  pc'[d] = "idle" /\ stat'[d] # "SUCCESS"
BY OwnDevices DEF Leave, GoTo, TypeOK

\* Where the steps that send no command to the flash lead.
HostOutcome(d) ==
    \/ pc'[d] = "idle" /\ (stat'[d] = "SUCCESS" => pc[d] = "exit")
    \/ pc[d] = "checkBin" /\ pc'[d] = "chipType"
    \/ pc[d] = "chipType" /\ pc'[d] = AfterChipType(opts[d])
    \/ pc[d] = "readFlash" /\ pc'[d] = "open"
    \/ pc[d] = "open" /\ pc'[d] = AfterOpen(opts[d])
    \/ pc[d] = "enter" /\ pc'[d] = AfterEnter(opts[d])
    \/ pc[d] = "parseTable" /\ pc'[d] = AfterParseTable(opts[d])
    \/ pc[d] = "updateBlocks" /\ pc'[d] = "program"
    \/ pc[d] = "query" /\ pc'[d] = "exit"

LEMMA HostStepOutcome ==
    ASSUME TypeOK, NEW d \in Device, "resetOnError" \notin opts[d],
           \/ CheckBinFile(d) \/ CheckChipType(d) \/ ReadFlashInformation(d)
           \/ OpenConnection(d) \/ EnterRemoteUpgrade(d) \/ ParseFWTable(d)
           \/ UpdateBlocks(d) \/ QueryDevice(d) \/ Return(d)
    PROVE  UNCHANGED deviceVars /\ HostOutcome(d)
<1>f. {"FAILURE", "OLD_EBL_VERSION", "CHIP_TYPE_MISMATCH"} \subseteq Status \ {"SUCCESS"}
  BY DEF Status
<1>1. CASE \E st \in Status \ {"SUCCESS"} : Fail(d, st)
  BY <1>1, FailedCall DEF Fail, HostOutcome
<1>2. CASE Return(d)
  BY <1>2, OwnDevices DEF Return, Leave, GoTo, TypeOK, HostOutcome
<1>3. CASE ReadFlashInformation(d)
  <2>1. CASE GoTo(d, "open") /\ UNCHANGED deviceVars
    BY <2>1, <1>3, OwnDevices DEF ReadFlashInformation, GoTo, TypeOK, HostOutcome
  <2> QED BY <1>1, <1>3, <1>f, <2>1 DEF ReadFlashInformation
<1>4. ASSUME NEW l, Advance(d, l) PROVE pc'[d] = l
  BY <1>4, OwnDevices, AdvanceRegisters
<1>5. CASE CheckBinFile(d) \/ CheckChipType(d)
  BY <1>1, <1>4, <1>5, <1>f DEF CheckBinFile, CheckChipType, HostOutcome
<1>6. CASE OpenConnection(d) \/ EnterRemoteUpgrade(d)
  BY <1>1, <1>4, <1>6, <1>f DEF OpenConnection, EnterRemoteUpgrade, HostOutcome
<1>7. CASE ParseFWTable(d) \/ UpdateBlocks(d) \/ QueryDevice(d)
  BY <1>1, <1>4, <1>7, <1>f DEF ParseFWTable, UpdateBlocks, QueryDevice, HostOutcome
<1> QED BY <1>2, <1>3, <1>5, <1>6, <1>7

\* What is known of a device depends on its flash and on what it launched.
LEMMA SameFlash ==
    ASSUME NEW d \in Device, SameDevice(d), mode'[d] = mode[d]
    PROVE  /\ OldOnly(d)' <=> OldOnly(d)
           /\ StagedNew(d)' <=> StagedNew(d)
           /\ HoldsNew(d)' <=> HoldsNew(d)
           /\ RunsNewNext(d)' <=> RunsNewNext(d)
           /\ Switched(d)' <=> Switched(d)
           /\ Running(d)' <=> Running(d)
<1> USE DEF SameDevice, ActiveImage, Complete
<1>1. OldOnly(d)' <=> OldOnly(d)
  BY DEF OldOnly
<1>2. StagedNew(d)' <=> StagedNew(d)
  BY DEF StagedNew
<1>3. HoldsNew(d)' <=> HoldsNew(d)
  BY DEF HoldsNew
<1>4. RunsNewNext(d)' <=> RunsNewNext(d)
  BY DEF RunsNewNext
<1>5. Switched(d)' <=> Switched(d)
  BY <1>4 DEF Switched
<1>6. Running(d)' <=> Running(d)
  BY DEF Running, BootLoaderIntact
<1> QED BY <1>1, <1>2, <1>3, <1>4, <1>5, <1>6

-----------------------------------------------------------------------------
(* A step of a call in each of the phases. *)

\* The options decide which steps a call takes.
LEMMA StepsOfOptions ==
    ASSUME IInv, NEW d \in Device
    PROVE  /\ ~Upgrades(opts[d]) => pc[d] \notin Programming \cup {"enter"}
           /\ ~Updates(opts[d]) => pc[d] # "parseTable"
           /\ ~Activates(opts[d]) => pc[d] \notin AfterSet \cup {"setActive"}
           /\ ~ReplacesBootLoader(opts[d]) =>
                  pc[d] \notin {"eraseBoot", "programEBL", "programB1", "eraseActive"}
BY OwnDevices DEF IInv, CallInv, StepsMatchOptions, AfterSet

\* The slots of a call on a device with one active image.
LEMMA SlotsOfCall ==
    ASSUME IInv, NEW d \in Device, OldOnly(d), ActiveImage(d, seen[d])
    PROVE  /\ seen[d] = launched[d]
           /\ launched[d] \in Slot /\ Other(launched[d]) \in Slot
           /\ Other(launched[d]) # launched[d]
BY OwnDevices DEF IInv, TypeOK, OldOnly, Slot, Other

\* In the first round a step keeps the old image the only active one, and a
\* call that reaches its end has programmed the other slot.
LEMMA FirstRoundStep ==
    ASSUME IInv, NEW d \in Device, CallStep(d), opts[d] = {"upgrade"},
           bin[d] = BinFile, OldOnly(d), Running(d),
           pc[d] \in {"query", "exit"} => StagedNew(d)
    PROVE  /\ OldOnly(d)' /\ Running(d)'
           /\ \/ pc'[d] \in {"query", "exit"}
              \/ pc'[d] = "idle" /\ stat'[d] = "SUCCESS"
              => StagedNew(d)'
<1> DEFINE s == launched[d]
           t == Other(launched[d])
<1>t. TypeOK /\ d \in Call /\ Target[d] = d
  BY OwnDevices DEF IInv
<1>o. /\ Upgrades(opts[d]) /\ Updates(opts[d])
      /\ ~Activates(opts[d]) /\ ~ReplacesBootLoader(opts[d])
      /\ "resetOnError" \notin opts[d] /\ "query" \notin opts[d]
  OBVIOUS
<1>f. "FAILURE" \in Status \ {"SUCCESS"}
  BY DEF Status
<1>1. ASSUME \/ CheckBinFile(d) \/ CheckChipType(d) \/ ReadFlashInformation(d)
             \/ OpenConnection(d) \/ EnterRemoteUpgrade(d) \/ ParseFWTable(d)
             \/ UpdateBlocks(d) \/ QueryDevice(d) \/ Return(d)
      PROVE  /\ OldOnly(d)' /\ Running(d)'
             /\ \/ pc'[d] \in {"query", "exit"}
                \/ pc'[d] = "idle" /\ stat'[d] = "SUCCESS"
                => StagedNew(d)'
  <2>1. UNCHANGED deviceVars /\ HostOutcome(d)
    BY <1>1, <1>t, <1>o, HostStepOutcome
  <2>2. SameDevice(d) /\ mode'[d] = mode[d]
    BY <2>1 DEF deviceVars, SameDevice
  <2>3. \/ pc'[d] \in {"query", "exit"}
        \/ pc'[d] = "idle" /\ stat'[d] = "SUCCESS"
        => pc[d] \in {"query", "exit"}
    BY <2>1, <1>o DEF HostOutcome, AfterChipType, AfterOpen, AfterEnter, AfterParseTable
  <2> QED BY <2>2, <2>3, SameFlash
<1>2. ASSUME EraseInactive(d)
      PROVE  /\ OldOnly(d)' /\ Running(d)'
             /\ pc'[d] \notin {"query", "exit"}
             /\ ~(pc'[d] = "idle" /\ stat'[d] = "SUCCESS")
  <2>1. ActiveImage(d, seen[d])
    BY <1>2, <1>t, <1>o DEF EraseInactive, IInv, CallInv, OldImageKept, Programming
  <2>2. seen[d] = s /\ s \in Slot /\ t \in Slot /\ t # s
    BY <2>1, SlotsOfCall
  <2>3. EraseSlot(d, t) \/ TornErase(d, t)
    BY <1>2, <1>t, <2>2 DEF EraseInactive
  <2>4. intact'[d][s] = intact[d][s] /\ activeByte'[d][s] = activeByte[d][s]
    BY <1>t, <2>2, <2>3, EraseOthers
  <2>5. UNCHANGED <<fw, bootLoader, mode, launched>>
    BY <1>2 DEF EraseInactive
  <2>6. ~ActiveImage(d, t)'
    <3>1. intact[d][t] \in SUBSET Section /\ ~ActiveImage(d, t)
      BY <1>t, <2>2 DEF TypeOK, OldOnly
    <3>2. \/ activeByte'[d][t] = 255
          \/ /\ activeByte'[d][t] = activeByte[d][t]
             /\ intact'[d][t] \subseteq intact[d][t]
      BY <1>t, <2>2, <2>3 DEF EraseSlot, TornErase, TypeOK
    <3>3. activeByte[d][t] # 1 \/ intact[d][t] # Section
      BY <3>1 DEF ActiveImage, Complete
    <3>4. ASSUME intact'[d][t] = Section, activeByte'[d][t] = 1 PROVE FALSE
      <4>1. /\ activeByte'[d][t] = activeByte[d][t]
            /\ intact'[d][t] \subseteq intact[d][t]
        BY <3>2, <3>4
      <4>2. Section \subseteq intact[d][t] /\ intact[d][t] \subseteq Section
        BY <3>1, <3>4, <4>1
      <4>3. intact[d][t] = Section
        BY <4>2
      <4> QED BY <3>3, <3>4, <4>1, <4>3
    <3> QED BY <2>5, <3>4 DEF ActiveImage, Complete, Section
  <2>7. OldOnly(d)' /\ Running(d)'
    BY <2>4, <2>5, <2>6 DEF OldOnly, Running, BootLoaderIntact, ActiveImage, Complete
  <2>8. CASE Leave(d, "FAILURE")
    BY <2>7, <2>8, <1>t, <1>f, FailedCall
  <2>9. CASE Advance(d, "updateBlocks")
    BY <2>7, <2>9, <1>t, AdvanceRegisters
  <2> QED BY <1>2, <2>8, <2>9 DEF EraseInactive
<1>3. ASSUME ProgramSection(d)
      PROVE  /\ OldOnly(d)' /\ Running(d)'
             /\ \/ pc'[d] \in {"query", "exit"}
                \/ pc'[d] = "idle" /\ stat'[d] = "SUCCESS"
                => StagedNew(d)'
  <2>1. /\ pc[d] = "program" /\ ActiveImage(d, seen[d])
        /\ intact[d][Other(seen[d])] = 1..(next[d] - 1)
        /\ activeByte[d][Other(seen[d])] = 255
        /\ next[d] \in Section
    <3>1. CallInv(d) /\ next[d] \in Section /\ pc[d] = "program"
      BY <1>3, <1>t, Facts DEF ProgramSection
    <3>2. OldImageKept(d) /\ ProgramProgress(d)
      BY <3>1 DEF CallInv
    <3>3. ActiveImage(d, seen[d])
      BY <3>1, <3>2, <1>t, <1>o DEF OldImageKept, Programming
    <3> QED BY <3>1, <3>2, <3>3, <1>t DEF ProgramProgress
  <2>2. seen[d] = s /\ s \in Slot /\ t \in Slot /\ t # s
    BY <2>1, SlotsOfCall
  <2>3. UNCHANGED <<activeByte, bootLoader, mode, launched>>
    BY <1>3 DEF ProgramSection
  <2>4. /\ intact'[d][s] = intact[d][s] /\ fw'[d][s] = fw[d][s]
    BY <1>3, <1>t, <2>2 DEF ProgramSection, WriteSection, TypeOK
  <2>5. OldOnly(d)' /\ Running(d)'
    BY <2>1, <2>2, <2>3, <2>4
       DEF OldOnly, Running, BootLoaderIntact, ActiveImage, Complete
  <2>6. CASE Leave(d, "FAILURE")
    BY <2>5, <2>6, <1>t, <1>f, FailedCall
  <2>7. CASE /\ WriteSection(d, t, next[d], bin[d])
             /\ next[d] < SectionCount /\ UNCHANGED pc
    BY <2>1, <2>5, <2>7
  <2>8. CASE /\ WriteSection(d, t, next[d], bin[d])
             /\ ~(next[d] < SectionCount)
    <3>1. next[d] = SectionCount
      BY <2>1, <2>8, SectionAssumption DEF Section
    <3>2. intact'[d][t] = intact[d][t] \cup {next[d]} /\ fw'[d][t] = BinFile
      BY <2>8, <1>t, <2>2 DEF WriteSection, TypeOK
    <3>3. intact'[d][t] = Section
      BY <3>1, <3>2, <2>1, <2>2, SectionAssumption DEF Section
    <3>4. StagedNew(d)'
      BY <3>2, <3>3, <2>1, <2>2, <2>3 DEF StagedNew, Complete
    <3> QED BY <2>5, <3>4
  <2> QED BY <1>3, <1>t, <2>2, <2>6, <2>7, <2>8 DEF ProgramSection
<1>4. \/ CheckBinFile(d) \/ CheckChipType(d) \/ ReadFlashInformation(d)
      \/ OpenConnection(d) \/ EnterRemoteUpgrade(d) \/ ParseFWTable(d)
      \/ UpdateBlocks(d) \/ QueryDevice(d) \/ Return(d)
      \/ EraseInactive(d) \/ ProgramSection(d)
  BY <1>o, StepsOfOptions DEF CallStep, SetActive, EraseBootLoader, ProgramEBL,
     ProgramB1, EraseActive, ClearActive, AfterSet
<1> QED BY <1>1, <1>2, <1>3, <1>4

\* What SecondRound says of a device whose thread is in its call.
Switching(d) ==
    /\ HoldsNew(d) /\ Running(d)
    /\ pc[d] \in BeforeRead \cup Preparing \cup {"setActive"} =>
           OldOnly(d) /\ StagedNew(d)
    /\ pc[d] = "clearActive" => fw[d][Other(seen[d])] = BinFile
    /\ pc[d] \in {"query", "exit"} => Switched(d)

\* In the second round the new byte is set, then the old one cleared.
LEMMA SecondRoundStep ==
    ASSUME IInv, NEW d \in Device, CallStep(d), opts[d] = {"activate"}, Switching(d)
    PROVE  /\ Switching(d)'
           /\ pc'[d] = "idle" /\ stat'[d] = "SUCCESS" => Switched(d)'
<1> DEFINE s == launched[d]
           t == Other(launched[d])
<1>t. TypeOK /\ d \in Call /\ Target[d] = d
  BY OwnDevices DEF IInv
<1>o. /\ ~Upgrades(opts[d]) /\ Updates(opts[d])
      /\ Activates(opts[d]) /\ ~ReplacesBootLoader(opts[d])
      /\ "resetOnError" \notin opts[d] /\ "query" \notin opts[d]
  OBVIOUS
<1>f. "FAILURE" \in Status \ {"SUCCESS"}
  BY DEF Status
<1>p. pc[d] \notin Programming \cup {"enter"}
  BY <1>o, StepsOfOptions
<1>1. ASSUME \/ CheckBinFile(d) \/ CheckChipType(d) \/ ReadFlashInformation(d)
             \/ OpenConnection(d) \/ EnterRemoteUpgrade(d) \/ ParseFWTable(d)
             \/ UpdateBlocks(d) \/ QueryDevice(d) \/ Return(d)
      PROVE  /\ Switching(d)'
             /\ pc'[d] = "idle" /\ stat'[d] = "SUCCESS" => Switched(d)'
  <2>1. UNCHANGED deviceVars /\ HostOutcome(d)
    BY <1>1, <1>t, <1>o, HostStepOutcome
  <2>2. SameDevice(d) /\ mode'[d] = mode[d]
    BY <2>1 DEF deviceVars, SameDevice
  <2>3. \/ pc'[d] = "idle" /\ (stat'[d] = "SUCCESS" => pc[d] = "exit")
        \/ pc[d] = "query" /\ pc'[d] = "exit"
        \/ /\ pc[d] \in BeforeRead \cup Preparing
           /\ pc'[d] \in BeforeRead \cup Preparing \cup {"setActive"}
    BY <2>1, <1>o, <1>p DEF HostOutcome, AfterChipType, AfterOpen, AfterEnter,
       AfterParseTable, AfterProgram, BeforeRead, Preparing, Programming
  <2>4. pc'[d] # "clearActive"
    BY <2>3 DEF BeforeRead, Preparing
  <2>5. pc'[d] \in BeforeRead \cup Preparing \cup {"setActive"} =>
            OldOnly(d) /\ StagedNew(d)
    BY <2>3 DEF Switching, BeforeRead, Preparing
  <2>6. \/ pc'[d] \in {"query", "exit"}
        \/ pc'[d] = "idle" /\ stat'[d] = "SUCCESS"
        => Switched(d)
    BY <2>3 DEF Switching, BeforeRead, Preparing
  <2> QED BY <2>2, <2>4, <2>5, <2>6, SameFlash DEF Switching
<1>2. ASSUME SetActive(d)
      PROVE  /\ Switching(d)'
             /\ ~(pc'[d] = "idle" /\ stat'[d] = "SUCCESS")
  <2>1. pc[d] = "setActive" /\ OldOnly(d) /\ StagedNew(d)
    BY <1>2 DEF SetActive, Switching
  <2>2. ActiveImage(d, seen[d])
    BY <2>1, <1>t, <1>o, Facts DEF CallInv, OldImageKept
  <2>3. seen[d] = s /\ s \in Slot /\ t \in Slot /\ t # s
    BY <2>1, <2>2, SlotsOfCall
  <2>4. UNCHANGED <<fw, intact, bootLoader, mode, launched>>
    BY <1>2 DEF SetActive
  <2>5. HoldsNew(d)' /\ Running(d)'
    BY <2>4 DEF Switching, HoldsNew, Running, BootLoaderIntact, Complete
  <2>6. CASE Leave(d, "FAILURE")
    <3>1. pc'[d] = "idle" /\ stat'[d] # "SUCCESS"
      BY <2>6, <1>t, <1>f, FailedCall
    <3> QED BY <3>1, <2>5 DEF Switching, BeforeRead, Preparing
  <2>7. CASE Advance(d, AfterSetActive(opts[d]))
    <3>1. pc'[d] = "clearActive" /\ seen'[d] = seen[d]
      BY <2>7, <1>t, <1>o, AdvanceRegisters DEF AfterSetActive
    <3>2. fw'[d][Other(seen'[d])] = BinFile
      BY <3>1, <2>1, <2>3, <2>4 DEF StagedNew
    <3> QED BY <3>1, <3>2, <2>5 DEF Switching, BeforeRead, Preparing
  <2> QED BY <1>2, <2>6, <2>7 DEF SetActive
<1>3. ASSUME ClearActive(d)
      PROVE  /\ Switching(d)'
             /\ ~(pc'[d] = "idle" /\ stat'[d] = "SUCCESS")
  <2>1. /\ pc[d] = "clearActive" /\ fw[d][Other(seen[d])] = BinFile
        /\ ActiveImage(d, Other(seen[d]))
        /\ seen[d] \in Slot /\ Other(seen[d]) \in Slot /\ Other(seen[d]) # seen[d]
    BY <1>3, <1>t, Facts DEF ClearActive, Switching, CallInv, NewImageKept, AfterSet
  <2>2. UNCHANGED <<fw, intact, bootLoader, mode, launched>>
    BY <1>3 DEF ClearActive
  <2>3. HoldsNew(d)' /\ Running(d)'
    BY <2>2 DEF Switching, HoldsNew, Running, BootLoaderIntact, Complete
  <2>4. CASE Leave(d, "FAILURE")
    <3>1. pc'[d] = "idle" /\ stat'[d] # "SUCCESS"
      BY <2>4, <1>t, <1>f, FailedCall
    <3> QED BY <3>1, <2>3 DEF Switching, BeforeRead, Preparing
  <2>5. CASE WriteActiveByte(d, seen[d], 0) /\ Advance(d, AfterUpdate(opts[d]))
    <3>1. pc'[d] = "exit"
      BY <2>5, <1>t, <1>o, AdvanceRegisters DEF AfterUpdate
    <3>2. activeByte[d][seen[d]] \in Byte
      BY <1>t, <2>1 DEF TypeOK
    <3>3. /\ activeByte'[d][seen[d]] = 0
          /\ activeByte'[d][Other(seen[d])] = activeByte[d][Other(seen[d])]
      BY <2>5, <3>2, <1>t, <2>1 DEF WriteActiveByte, Written, Byte, TypeOK
    <3>4. PICK v \in Slot : v = Other(seen[d])
      BY <2>1
    <3>5. ASSUME NEW u \in Slot
          PROVE  ActiveImage(d, u)' <=> u = v
      <4>1. u = seen[d] \/ u = v
        BY <2>1, <3>4 DEF Slot, Other
      <4> QED BY <4>1, <3>3, <3>4, <2>1, <2>2 DEF ActiveImage, Complete
    <3>6. fw'[d][v] = BinFile
      BY <2>1, <2>2, <3>4
    <3>7. Switched(d)'
      BY <3>4, <3>5, <3>6 DEF Switched, RunsNewNext
    <3> QED BY <3>1, <3>7, <2>3 DEF Switching, BeforeRead, Preparing
  <2> QED BY <1>3, <1>t, <2>4, <2>5 DEF ClearActive
<1>4. \/ CheckBinFile(d) \/ CheckChipType(d) \/ ReadFlashInformation(d)
      \/ OpenConnection(d) \/ EnterRemoteUpgrade(d) \/ ParseFWTable(d)
      \/ UpdateBlocks(d) \/ QueryDevice(d) \/ Return(d)
      \/ SetActive(d) \/ ClearActive(d)
  <2>1. pc[d] \notin {"eraseBoot", "programEBL", "programB1", "eraseActive"}
    BY <1>o, StepsOfOptions
  <2> QED BY <1>p, <2>1 DEF CallStep, EraseInactive, ProgramSection, EraseBootLoader,
          ProgramEBL, ProgramB1, EraseActive, Programming
<1> QED BY <1>1, <1>2, <1>3, <1>4

\* The final query changes nothing on the device.
LEMMA QueryRoundStep ==
    ASSUME IInv, NEW d \in Device, CallStep(d), opts[d] = {"query"}
    PROVE  UNCHANGED deviceVars
<1>o. /\ ~Upgrades(opts[d]) /\ ~Updates(opts[d])
      /\ ~Activates(opts[d]) /\ ~ReplacesBootLoader(opts[d])
      /\ "resetOnError" \notin opts[d]
  OBVIOUS
<1>1. \/ CheckBinFile(d) \/ CheckChipType(d) \/ ReadFlashInformation(d)
      \/ OpenConnection(d) \/ EnterRemoteUpgrade(d) \/ ParseFWTable(d)
      \/ UpdateBlocks(d) \/ QueryDevice(d) \/ Return(d)
  <2>1. pc[d] \notin Programming \cup AfterSet \cup {"setActive"}
    BY <1>o, StepsOfOptions
  <2> QED BY <2>1 DEF CallStep, EraseInactive, ProgramSection, SetActive,
          EraseBootLoader, ProgramEBL, ProgramB1, EraseActive, ClearActive,
          Programming, AfterSet
<1> QED BY <1>o, <1>1, HostStepOutcome DEF IInv

-----------------------------------------------------------------------------
(* The steps of the manager keep what is known of each device. *)

\* A step that does not concern a device, its thread or the stage of main().
LEMMA DeviceFrame ==
    ASSUME NEW d \in Device, DeviceInv(d), SameCall(d), SameDevice(d),
           stat'[d] = stat[d], mode'[d] = mode[d], stage' = stage,
           thread'[d] = thread[d], running'[d] = running[d],
           exitCode'[d] = exitCode[d], d \in todo' <=> d \in todo
    PROVE  DeviceInv(d)'
<1>1. ThreadsOfPhase(d)'
  BY DEF DeviceInv, ThreadsOfPhase, SameCall
<1>2. Running(d)' /\ AfterRounds(d)'
  BY SameFlash DEF DeviceInv, AfterRounds
<1>3. Succeeds(d)' <=> Succeeds(d)
  BY DEF Succeeds, SameCall
<1>4. FirstRound(d)'
  BY <1>3, SameFlash DEF DeviceInv, FirstRound
<1>5. SecondRound(d)'
  BY <1>3, SameFlash DEF DeviceInv, SecondRound, SameCall, SameDevice
<1> QED BY <1>1, <1>2, <1>4, <1>5 DEF DeviceInv

\* main() creates a thread.
LEMMA StartThreadKeeps ==
    ASSUME ManagerInv, OneNetworkRun, NEW d \in Device, StartThread(d),
           NEW e \in Device
    PROVE  DeviceInv(e)'
<1>1. /\ stage \in {"upgrade", "activate", "query"} /\ d \in todo
      /\ todo' = todo \ {d}
      /\ \/ thread' = [thread EXCEPT ![d] = "created"]
         \/ stage \in ThreadsMayFail /\ UNCHANGED thread
      /\ UNCHANGED <<running, exitCode, vars, stage, dm, runs>>
  BY DEF StartThread
<1>2. SameCall(e) /\ SameDevice(e) /\ stat'[e] = stat[e] /\ mode'[e] = mode[e]
  BY <1>1 DEF vars, SameCall, SameDevice
<1>3. DeviceInv(e) /\ thread \in [Device -> {"none", "created", "calling"}]
  BY DEF ManagerInv, UMTypeOK
<1>4. CASE e # d
  BY <1>1, <1>2, <1>3, <1>4, DeviceFrame
<1>5. CASE e = d
  <2>1. thread[d] = "none" /\ pc[d] = "idle" /\ ~running[d]
    BY <1>1, <1>3, <1>5 DEF DeviceInv, ThreadsOfPhase, Ended
  <2>2. /\ \/ thread'[d] = "created"
           \/ thread'[d] = "none" /\ stage \in ThreadsMayFail
        /\ pc'[d] = "idle" /\ ~running'[d]
        /\ bin'[d] = bin[d] /\ d \notin todo' /\ stage' = stage
        /\ exitCode'[d] = exitCode[d]
    BY <1>1, <1>2, <1>3, <1>5, <2>1 DEF SameCall
  <2>3. ThreadsOfPhase(d)'
    BY <1>1, <1>3, <1>5, <2>2 DEF DeviceInv, ThreadsOfPhase, Ended
  <2>4. Running(d)' /\ AfterRounds(d)'
    BY <1>2, <1>3, <1>5, <2>2, SameFlash DEF DeviceInv, AfterRounds
  <2>5. ~Succeeds(d)'
    BY <2>2 DEF Succeeds
  <2>6. FirstRound(d)'
    BY <1>1, <1>2, <1>3, <1>5, <2>2, <2>5, SameFlash DEF DeviceInv, FirstRound
  <2>7. SecondRound(d)'
    BY <1>1, <1>2, <1>3, <1>5, <2>2, <2>5, SameFlash
       DEF DeviceInv, SecondRound, EverySwitchStarts
  <2> QED BY <1>5, <2>3, <2>4, <2>6, <2>7 DEF DeviceInv
<1> QED BY <1>4, <1>5

\* A thread starts its call the way Ghn_Upgrade_Firmware needs it.
LEMMA ThreadStartsWell ==
    ASSUME ManagerInv, OneNetworkRun, NEW d \in Device, ThreadStarts(d)
    PROVE  /\ WellStarted(d) /\ opts'[d] = RequestOf(stage) /\ bin'[d] = BinFile
           /\ Updates(opts'[d]) => MayStart(d, opts'[d])
<1>1. /\ thread[d] = "created" /\ pc[d] = "idle" /\ DeviceInv(d)
      /\ opts'[d] = RequestOf(stage) /\ bin'[d] = BinFile
  BY DEF ThreadStarts, StartCall, ManagerInv
<1>2. stage \in {"upgrade", "activate", "query"}
  BY <1>1 DEF DeviceInv, ThreadsOfPhase
<1>3. \A x \in Call : Target[x] = d => pc[x] = "idle"
  BY <1>1, OwnDevices
<1>4. CASE stage = "upgrade"
  <2>1. opts'[d] = {"upgrade"} /\ OldOnly(d) /\ mode[d] = "FW"
    BY <1>1, <1>4, PhaseRequests DEF DeviceInv, FirstRound, Running
  <2> QED BY <1>1, <1>3, <2>1, OwnDevices DEF WellStarted, MayStart, OldOnly
<1>5. CASE stage = "activate"
  <2>1. opts'[d] = {"activate"} /\ OldOnly(d) /\ StagedNew(d) /\ mode[d] = "FW"
    BY <1>1, <1>5, PhaseRequests DEF DeviceInv, SecondRound, Running
  <2>2. Staged(d)
    BY <2>1 DEF StagedNew, Staged
  <2> QED BY <1>1, <1>3, <2>1, <2>2, OwnDevices DEF WellStarted, MayStart, OldOnly
<1>6. CASE stage = "query"
  <2>1. opts'[d] = {"query"}
    BY <1>1, <1>6, PhaseRequests
  <2> QED BY <1>1, <1>3, <2>1, OwnDevices DEF WellStarted
<1> QED BY <1>2, <1>4, <1>5, <1>6

\* The start of its call leaves the device, and what is known of it, alone.
LEMMA ThreadStartsKeeps ==
    ASSUME ManagerInv, OneNetworkRun, NEW d \in Device, ThreadStarts(d),
           NEW e \in Device
    PROVE  DeviceInv(e)'
<1>t. TypeOK /\ UMTypeOK /\ DeviceInv(e)
  BY DEF ManagerInv, IInv
<1>1. /\ thread[d] = "created" /\ thread' = [thread EXCEPT ![d] = "calling"]
      /\ running' = [running EXCEPT ![d] = TRUE] /\ StartCall(d)
      /\ UNCHANGED <<stage, todo, exitCode, dm, runs>>
  BY DEF ThreadStarts
<1>2. CASE e # d
  <2>1. /\ SameCall(e) /\ SameDevice(e) /\ stat'[e] = stat[e] /\ mode'[e] = mode[e]
    BY <1>t, <1>1, <1>2, OtherThreads
  <2> QED BY <1>t, <1>1, <1>2, <2>1, DeviceFrame DEF UMTypeOK
<1>3. CASE e = d
  <2>1. SameDevice(d) /\ mode'[d] = mode[d]
    BY <1>1 DEF StartCall, deviceVars, SameDevice
  <2>2. pc'[d] \in {"checkBin", "chipType"} /\ stat'[d] = "NONE" /\ d \in Call
    <3>1. PICK o \in Requests : GoTo(d, FirstStep(o))
      BY <1>1 DEF StartCall
    <3>2. FirstStep(o) \in {"checkBin", "chipType"}
      BY Labels
    <3> QED BY <1>t, <1>1, <3>1, <3>2, OwnDevices DEF GoTo, TypeOK, StartCall
  <2>3. thread'[d] = "calling" /\ running'[d]
    BY <1>t, <1>1 DEF UMTypeOK
  <2>4. opts'[d] = RequestOf(stage) /\ bin'[d] = BinFile
    BY ThreadStartsWell
  <2>5. stage \in {"upgrade", "activate", "query"} /\ d \notin todo
    BY <1>t, <1>1, <1>3 DEF DeviceInv, ThreadsOfPhase
  <2>6. ThreadsOfPhase(d)'
    BY <1>1, <2>3, <2>4, <2>5 DEF ThreadsOfPhase, RequestOf
  <2>7. Running(d)' /\ AfterRounds(d)'
    BY <1>t, <1>1, <1>3, <2>1, SameFlash DEF DeviceInv, AfterRounds
  <2>8. ~Succeeds(d)'
    BY <2>2 DEF Succeeds
  <2>9. FirstRound(d)'
    BY <1>t, <1>1, <1>3, <2>1, <2>5, <2>8, SameFlash DEF DeviceInv, FirstRound
  <2>10. SecondRound(d)'
    <3>1. pc'[d] # "clearActive"
      BY <2>2
    <3> QED
      BY <1>t, <1>1, <1>3, <2>1, <2>3, <2>5, <2>8, <3>1, SameFlash
         DEF DeviceInv, SecondRound
  <2> QED BY <1>3, <2>6, <2>7, <2>9, <2>10 DEF DeviceInv
<1> QED BY <1>2, <1>3

\* A step of a call, in whichever phase it is.
LEMMA ThreadStepsKeeps ==
    ASSUME ManagerInv, OneNetworkRun, NEW d \in Device, ThreadSteps(d),
           NEW e \in Device
    PROVE  DeviceInv(e)'
<1>t. TypeOK /\ IInv /\ DeviceInv(e) /\ CallStep(d)
  BY DEF ManagerInv, IInv, ThreadSteps
<1>m. UNCHANGED <<stage, todo, thread, running, exitCode, dm, runs>>
  BY DEF ThreadSteps, managerVars
<1>1. CASE e # d
  <2>1. /\ SameCall(e) /\ SameDevice(e) /\ stat'[e] = stat[e] /\ mode'[e] = mode[e]
    BY <1>t, <1>1, OtherThreads
  <2> QED BY <1>t, <1>m, <2>1, DeviceFrame
<1>2. CASE e = d
  <2>1. /\ pc[d] # "idle" /\ thread[d] = "calling" /\ opts[d] = RequestOf(stage)
        /\ bin[d] = BinFile /\ d \notin todo
        /\ stage \in {"upgrade", "activate", "query"}
    BY <1>t, <1>2, OwnDevices, CallStepLive DEF DeviceInv, ThreadsOfPhase
  <2>2. bin'[d] = bin[d] /\ (pc'[d] # "idle" => opts'[d] = opts[d])
    BY <1>t, CallRegisters
  <2>3. ThreadsOfPhase(d)'
    BY <1>t, <1>m, <1>2, <2>1, <2>2 DEF DeviceInv, ThreadsOfPhase, RequestOf
  <2>4. CASE stage = "upgrade"
    <3>1. /\ opts[d] = {"upgrade"} /\ OldOnly(d) /\ Running(d) /\ ~exitCode[d]
          /\ pc[d] \in {"query", "exit"} => StagedNew(d)
      BY <1>t, <1>2, <2>1, <2>4, PhaseRequests
         DEF DeviceInv, FirstRound, Succeeds
    <3>2. /\ OldOnly(d)' /\ Running(d)'
          /\ \/ pc'[d] \in {"query", "exit"}
             \/ pc'[d] = "idle" /\ stat'[d] = "SUCCESS"
             => StagedNew(d)'
      BY <1>t, <2>1, <3>1, FirstRoundStep
    <3>3. FirstRound(d)'
      BY <1>m, <2>1, <2>4, <3>1, <3>2 DEF FirstRound, Succeeds
    <3>4. SecondRound(d)' /\ AfterRounds(d)'
      BY <1>m, <2>4 DEF SecondRound, AfterRounds
    <3> QED BY <1>2, <2>3, <3>2, <3>3, <3>4 DEF DeviceInv
  <2>5. CASE stage = "activate"
    <3>1. opts[d] = {"activate"} /\ Switching(d)
      BY <1>t, <1>2, <2>1, <2>5, PhaseRequests
         DEF DeviceInv, SecondRound, Succeeds, Switching
    <3>2. Switching(d)' /\ (pc'[d] = "idle" /\ stat'[d] = "SUCCESS" => Switched(d)')
      BY <1>t, <3>1, SecondRoundStep
    <3>3. Succeeds(d)' => Switched(d)'
      BY <3>2 DEF Succeeds, Switching
    <3>4. SecondRound(d)'
      BY <1>m, <2>1, <2>5, <3>2, <3>3 DEF SecondRound, Switching
    <3>5. FirstRound(d)' /\ AfterRounds(d)' /\ Running(d)'
      BY <1>m, <2>5, <3>2 DEF FirstRound, AfterRounds, Switching
    <3> QED BY <1>2, <2>3, <3>4, <3>5 DEF DeviceInv
  <2>6. CASE stage = "query"
    <3>1. UNCHANGED deviceVars
      BY <1>t, <2>1, <2>6, PhaseRequests, QueryRoundStep
    <3>2. SameDevice(d) /\ mode'[d] = mode[d]
      BY <3>1 DEF deviceVars, SameDevice
    <3>3. Running(d)' /\ AfterRounds(d)'
      BY <1>t, <1>m, <1>2, <2>6, <3>2, SameFlash DEF DeviceInv, AfterRounds
    <3>4. FirstRound(d)' /\ SecondRound(d)'
      BY <1>m, <2>6 DEF FirstRound, SecondRound
    <3> QED BY <1>2, <2>3, <3>3, <3>4 DEF DeviceInv
  <2> QED BY <2>1, <2>4, <2>5, <2>6
<1> QED BY <1>1, <1>2

\* A thread reports how its call ended.
LEMMA ThreadEndsKeeps ==
    ASSUME ManagerInv, OneNetworkRun, NEW d \in Device, ThreadEnds(d),
           NEW e \in Device
    PROVE  DeviceInv(e)'
<1>t. UMTypeOK /\ DeviceInv(e)
  BY DEF ManagerInv
<1>1. /\ thread[d] = "calling" /\ pc[d] = "idle"
      /\ exitCode' = [exitCode EXCEPT ![d] = (stat[d] = "SUCCESS")]
      /\ running' = [running EXCEPT ![d] = FALSE]
      /\ thread' = [thread EXCEPT ![d] = "none"]
      /\ UNCHANGED <<vars, stage, todo, dm, runs>>
  BY DEF ThreadEnds
<1>2. SameCall(e) /\ SameDevice(e) /\ stat'[e] = stat[e] /\ mode'[e] = mode[e]
  BY <1>1 DEF vars, SameCall, SameDevice
<1>3. CASE e # d
  BY <1>t, <1>1, <1>2, <1>3, DeviceFrame DEF UMTypeOK
<1>4. CASE e = d
  <2>1. /\ thread'[d] = "none" /\ running'[d] = FALSE
        /\ exitCode'[d] = (stat[d] = "SUCCESS")
    BY <1>t, <1>1 DEF UMTypeOK
  <2>2. d \notin todo /\ pc'[d] = "idle" /\ bin'[d] = bin[d]
    BY <1>t, <1>1, <1>2, <1>4 DEF DeviceInv, ThreadsOfPhase, SameCall
  <2>3. ThreadsOfPhase(d)'
    BY <1>t, <1>4, <2>1, <2>2 DEF DeviceInv, ThreadsOfPhase
  <2>4. Running(d)' /\ AfterRounds(d)'
    BY <1>t, <1>1, <1>2, <1>4, SameFlash DEF DeviceInv, AfterRounds
  <2>5. ~Succeeds(d)' /\ (exitCode'[d] => Succeeds(d))
    BY <1>1, <2>1, <2>2 DEF Succeeds
  <2>6. FirstRound(d)'
    BY <1>t, <1>1, <1>2, <1>4, <2>1, <2>2, <2>5, SameFlash DEF DeviceInv, FirstRound
  <2>7. SecondRound(d)'
    <3>1. pc'[d] \notin BeforeRead \cup Preparing \cup {"setActive", "clearActive"}
      BY <2>2 DEF BeforeRead, Preparing
    <3> QED BY <1>t, <1>1, <1>2, <1>4, <2>1, <2>2, <2>5, <3>1, SameFlash
            DEF DeviceInv, SecondRound
  <2> QED BY <1>4, <2>3, <2>4, <2>6, <2>7 DEF DeviceInv
<1> QED BY <1>3, <1>4

\* When main() leaves a polling loop, no thread is left.
LEMMA NoThreadLeft ==
    ASSUME ManagerInv, NEW phase \in {"upgrade", "activate", "query"},
           AllStopped(phase), NEW d \in Device
    PROVE  thread[d] = "none" /\ pc[d] = "idle" /\ ~running[d] /\ d \notin todo
<1>1. DeviceInv(d) /\ thread[d] \in {"none", "created", "calling"}
  BY DEF ManagerInv, UMTypeOK
<1>2. stage = phase /\ todo = {} /\ thread[d] # "created" /\ ~running[d]
  BY DEF AllStopped
<1> QED BY <1>1, <1>2 DEF DeviceInv, ThreadsOfPhase, Ended

\* main() goes on to next_stage while no thread runs.
LEMMA StageKeeps ==
    ASSUME NEW d \in Device, DeviceInv(d), launched[d] \in Slot,
           UNCHANGED <<vars, thread, running, exitCode>>,
           thread[d] = "none", pc[d] = "idle", ~running[d],
           stage' \in {"activate", "quit", "reset", "unstable", "query", "done"},
           stage' = "activate" => OldOnly(d) /\ StagedNew(d) /\ d \in todo',
           stage' = "quit" => OldOnly(d),
           stage' = "unstable" => HoldsNew(d),
           stage' \in {"reset", "query", "done"} =>
               HoldsNew(d) /\ (EverySwitchStarts => Switched(d))
    PROVE  DeviceInv(d)'
<1>1. SameDevice(d) /\ SameCall(d) /\ mode'[d] = mode[d]
  BY DEF vars, SameDevice, SameCall
<1>2. ThreadsOfPhase(d)'
  BY <1>1 DEF DeviceInv, ThreadsOfPhase, SameCall
<1>3. Running(d)' /\ AfterRounds(d)'
  BY <1>1, SameFlash DEF DeviceInv, AfterRounds
<1>4. ~Succeeds(d)'
  BY <1>1 DEF Succeeds, SameCall
<1>5. FirstRound(d)'
  BY <1>1, SameFlash DEF FirstRound
<1>6. StagedNew(d) => HoldsNew(d)
  BY OtherType DEF StagedNew, HoldsNew
<1>7. SecondRound(d)'
  BY <1>1, <1>4, <1>6, SameFlash DEF SecondRound, SameCall
<1> QED BY <1>2, <1>3, <1>5, <1>7 DEF DeviceInv

\* The verdicts, and the passage to the last phases.
LEMMA VerdictKeeps ==
    ASSUME ManagerInv, OneNetworkRun,
           UpgradeVerdict \/ ActivateVerdict \/ AllReset \/ Summary,
           NEW d \in Device
    PROVE  DeviceInv(d)'
<1>t. DeviceInv(d) /\ launched[d] \in Slot
  BY DEF ManagerInv, IInv, TypeOK
<1>1. CASE UpgradeVerdict
  <2>1. /\ stage = "upgrade" /\ UNCHANGED <<vars, thread, running, exitCode>>
        /\ thread[d] = "none" /\ pc[d] = "idle" /\ ~running[d]
    BY <1>1, NoThreadLeft DEF UpgradeVerdict, AllStopped
  <2>2. OldOnly(d) /\ (exitCode[d] => StagedNew(d))
    BY <1>t, <2>1 DEF DeviceInv, FirstRound
  <2>3. \/ stage' = "activate" /\ todo' = Device /\ d \in Succeeded
        \/ stage' = "quit"
    BY <1>1 DEF UpgradeVerdict, OneNetworkRun, GoOn
  <2> QED BY <1>t, <2>1, <2>2, <2>3, StageKeeps DEF Succeeded
<1>2. CASE ActivateVerdict
  <2>1. /\ stage = "activate" /\ UNCHANGED <<vars, thread, running, exitCode>>
        /\ thread[d] = "none" /\ pc[d] = "idle" /\ ~running[d] /\ d \notin todo
    BY <1>2, NoThreadLeft DEF ActivateVerdict, AllStopped
  <2>2. HoldsNew(d) /\ (EverySwitchStarts /\ exitCode[d] => Switched(d))
    BY <1>t, <2>1 DEF DeviceInv, SecondRound
  <2>3. \/ stage' = "reset" /\ d \in Succeeded
        \/ stage' = "unstable"
    BY <1>2 DEF ActivateVerdict, GoOn
  <2> QED BY <1>t, <2>1, <2>2, <2>3, StageKeeps DEF Succeeded
<1>3. CASE AllReset
  <2>1. /\ stage = "reset" /\ UNCHANGED <<vars, thread, running, exitCode>>
        /\ stage' \in {"query", "done"}
    BY <1>3 DEF AllReset, GoOn
  <2>2. /\ thread[d] = "none" /\ pc[d] = "idle" /\ ~running[d]
        /\ HoldsNew(d) /\ (EverySwitchStarts => Switched(d))
    BY <1>t, <2>1 DEF DeviceInv, ThreadsOfPhase, AfterRounds, Ended
  <2> QED BY <1>t, <2>1, <2>2, StageKeeps
<1>4. CASE Summary
  <2>1. /\ stage = "query" /\ UNCHANGED <<vars, thread, running, exitCode>>
        /\ thread[d] = "none" /\ pc[d] = "idle" /\ ~running[d]
        /\ stage' = "done"
    BY <1>4, NoThreadLeft DEF Summary, AllStopped, GoOn
  <2>2. HoldsNew(d) /\ (EverySwitchStarts => Switched(d))
    BY <1>t, <2>1 DEF DeviceInv, AfterRounds
  <2> QED BY <1>t, <2>1, <2>2, StageKeeps
<1> QED BY <1>1, <1>2, <1>3, <1>4

\* A restart finds the firmware that is active: where only one is, that one.
LEMMA RestartKeepsFlash ==
    ASSUME IInv, NEW d \in Device, Reboot(d), Running(d)
    PROVE  /\ OldOnly(d) => OldOnly(d)' /\ launched'[d] = launched[d]
           /\ StagedNew(d) /\ launched'[d] = launched[d] => StagedNew(d)'
           /\ HoldsNew(d) => HoldsNew(d)'
           /\ Switched(d) => Switched(d)'
           /\ Running(d)'
<1>1. /\ launched'[d] = launched[d] \/ ActiveImage(d, launched'[d])
      /\ UNCHANGED <<fw, intact, activeByte, bootLoader>>
  BY RebootLaunches
<1>2. launched[d] \in Slot /\ launched'[d] \in Slot
  BY DeviceTypes, <1>1 DEF IInv, TypeOK, Slot
<1>3. OldOnly(d) => launched'[d] = launched[d]
  BY <1>1, <1>2 DEF OldOnly, Slot, Other
<1>4. OldOnly(d) => OldOnly(d)'
  BY <1>1, <1>3 DEF OldOnly, ActiveImage, Complete
<1>5. StagedNew(d) /\ launched'[d] = launched[d] => StagedNew(d)'
  BY <1>1 DEF StagedNew, Complete
<1>6. HoldsNew(d) => HoldsNew(d)'
  BY <1>1 DEF HoldsNew, Complete
<1>7. Switched(d) => Switched(d)'
  BY <1>1 DEF Switched, RunsNewNext, ActiveImage, Complete
<1>8. Running(d)'
  <2>1. \E s \in Slot : ActiveImage(d, s)
    BY DEF IInv, SomeActiveImage
  <2>2. mode'[d] = "FW"
    BY <2>1 DEF Reboot, Running, IInv, TypeOK
  <2> QED BY <1>1, <2>2 DEF Running, BootLoaderIntact
<1> QED BY <1>3, <1>4, <1>5, <1>6, <1>7, <1>8

\* The restart of a device, by itself or after the reset main() sent.
LEMMA RestartKeeps ==
    ASSUME ManagerInv, NEW d \in Device, Reboot(d), NEW e \in Device,
           UNCHANGED <<callVars, stage, thread, running, exitCode, dm, runs>>,
           \/ todo' = todo
           \/ stage = "reset" /\ todo' \subseteq todo
    PROVE  DeviceInv(e)'
<1>t. IInv /\ TypeOK /\ DeviceInv(e)
  BY DEF ManagerInv, IInv
<1>1. SameCall(e) /\ stat'[e] = stat[e]
  BY DEF callVars, SameCall
<1>2. UNCHANGED <<fw, intact, activeByte, bootLoader>>
  BY DEF Reboot
<1>3. CASE e # d
  <2>1. SameDevice(e) /\ mode'[e] = mode[e]
    BY <1>t, <1>2, <1>3 DEF Reboot, SameDevice, TypeOK
  <2>2. CASE todo' = todo
    BY <1>t, <1>1, <2>1, <2>2, DeviceFrame
  <2>3. CASE stage = "reset" /\ todo' \subseteq todo
    <3>1. ThreadsOfPhase(e)'
      BY <1>t, <1>1, <2>3 DEF DeviceInv, ThreadsOfPhase, SameCall
    <3>2. Running(e)' /\ AfterRounds(e)'
      BY <1>t, <2>1, SameFlash DEF DeviceInv, AfterRounds
    <3> QED BY <2>3, <3>1, <3>2 DEF DeviceInv, FirstRound, SecondRound
  <2> QED BY <2>2, <2>3
<1>4. CASE e = d
  <2>1. /\ OldOnly(d) => OldOnly(d)' /\ launched'[d] = launched[d]
        /\ StagedNew(d) /\ launched'[d] = launched[d] => StagedNew(d)'
        /\ HoldsNew(d) => HoldsNew(d)'
        /\ Switched(d) => Switched(d)'
        /\ Running(d)'
    BY <1>t, <1>4, RestartKeepsFlash DEF DeviceInv
  <2>2. ThreadsOfPhase(d)'
    BY <1>t, <1>1, <1>4 DEF DeviceInv, ThreadsOfPhase, SameCall
  <2>3. AfterRounds(d)'
    BY <1>t, <1>4, <2>1 DEF DeviceInv, AfterRounds
  <2>4. Succeeds(d)' <=> Succeeds(d)
    BY <1>1, <1>4 DEF Succeeds, SameCall
  <2>5. FirstRound(d)'
    BY <1>t, <1>4, <2>1, <2>4 DEF DeviceInv, FirstRound
  <2>6. SecondRound(d)'
    BY <1>t, <1>1, <1>2, <1>4, <2>1, <2>4 DEF DeviceInv, SecondRound, SameCall
  <2> QED BY <1>4, <2>1, <2>2, <2>3, <2>5, <2>6 DEF DeviceInv
<1> QED BY <1>3, <1>4

\* The death of the process ends every call, and leaves the devices as they are.
LEMMA KilledInv ==
    ASSUME IInv, ToolKilled
    PROVE  IInv'
<1>1. /\ pc' = [c \in Call |-> "idle"] /\ opts' = [c \in Call |-> {}]
      /\ seen' = [c \in Call |-> 1] /\ next' = [c \in Call |-> 1]
      /\ UNCHANGED <<deviceVars, bin, stat>>
  BY DEF ToolKilled
<1>2. TypeOK'
  <2>1. 1 \in Section /\ 1 \in Slot /\ "idle" \in Step
    BY SectionAssumption DEF Section, Slot, Step
  <2> QED BY <1>1, <2>1 DEF IInv, TypeOK, deviceVars
<1>3. SomeActiveImage'
  BY <1>1 DEF IInv, SomeActiveImage, deviceVars, ActiveImage, Complete
<1>4. OneCallPerDevice'
  BY <1>1 DEF OneCallPerDevice
<1>5. ASSUME NEW c \in Call PROVE CallInv(c)'
  <2>1. pc'[c] = "idle" /\ opts'[c] = {} /\ next'[c] = 1
    BY <1>1
  <2> QED
    BY <2>1 DEF CallInv, StepsMatchOptions, OldImageKept, StagedImageKept,
       ProgramProgress, NewImageKept, BootLoaderProgress,
       BeforeRead, Preparing, Programming, AfterSet
<1> QED BY <1>2, <1>3, <1>4, <1>5 DEF IInv

LEMMA KilledKeeps ==
    ASSUME ManagerInv, ToolKilled, NEW d \in Device
    PROVE  DeviceInv(d)'
<1>1. /\ stage' = "killed" /\ thread' = [e \in Device |-> "none"]
      /\ pc' = [c \in Call |-> "idle"] /\ UNCHANGED <<deviceVars, bin>>
      /\ DeviceInv(d)
  BY DEF ToolKilled, GoOn, ManagerInv
<1>2. ThreadsOfPhase(d)'
  BY <1>1, OwnDevices DEF DeviceInv, ThreadsOfPhase, Ended
<1>3. Running(d)'
  BY <1>1 DEF DeviceInv, Running, BootLoaderIntact, deviceVars
<1> QED BY <1>1, <1>2, <1>3 DEF DeviceInv, FirstRound, SecondRound, AfterRounds

\* A device that runs its old firmware would not be started into the new one.
LEMMA OldDoesNotRun ==
    ASSUME NEW d \in Device, launched[d] \in Slot, OldOnly(d)
    PROVE  ~RunsNewNext(d)
<1>1. ASSUME NEW s \in Slot, ActiveImage(d, s) PROVE s = launched[d]
  BY <1>1 DEF OldOnly, Slot, Other
<1> QED BY <1>1 DEF RunsNewNext, OldOnly

\* Until the tool is killed, what is known of the devices shows that none is
\* switched too early.
LEMMA StagedFirst ==
    ASSUME TypeOK', UMTypeOK', \A d \in Device : DeviceInv(d)', stage' # "killed"
    PROVE  AllStagedBeforeAnySwitch'
<1>1. CASE stage' \in {"upgrade", "quit"}
  <2>1. ASSUME NEW d \in Device PROVE ~RunsNewNext(d)'
    <3>1. OldOnly(d)' /\ launched'[d] \in Slot
      BY <1>1 DEF DeviceInv, FirstRound, TypeOK
    <3>2. ASSUME NEW s \in Slot, ActiveImage(d, s)' PROVE s = launched'[d]
      BY <3>1, <3>2 DEF OldOnly, Slot, Other
    <3> QED BY <3>1, <3>2 DEF RunsNewNext, OldOnly
  <2> QED BY <2>1 DEF AllStagedBeforeAnySwitch
<1>2. CASE stage' \in {"activate", "unstable"}
  BY <1>2 DEF DeviceInv, SecondRound, AllStagedBeforeAnySwitch
<1>3. CASE stage' \in {"reset", "query", "done"}
  <2>1. ASSUME NEW d \in Device PROVE HoldsNew(d)'
    BY <1>3 DEF DeviceInv, AfterRounds, Switched, RunsNewNext, HoldsNew, ActiveImage
  <2> QED BY <2>1 DEF AllStagedBeforeAnySwitch
<1>4. stage' \in {"upgrade", "quit", "activate", "unstable", "reset", "query", "done"}
  BY DEF UMTypeOK, Stage, Ended
<1> QED BY <1>1, <1>2, <1>3, <1>4

\* It speaks of the flash only.
LEMMA StagedFrame ==
    ASSUME AllStagedBeforeAnySwitch, UNCHANGED <<fw, intact, activeByte>>
    PROVE  AllStagedBeforeAnySwitch'
BY DEF AllStagedBeforeAnySwitch, RunsNewNext, HoldsNew, ActiveImage, Complete

-----------------------------------------------------------------------------
(* The theorems about um -E without -B. *)

LEMMA InitManagerInv == CleanInit => ManagerInv
<1> SUFFICES ASSUME CleanInit PROVE ManagerInv
  OBVIOUS
<1>1. UMTypeOK /\ IInv
  BY UMInitTypes, InitInv DEF CleanInit, UMInit
<1>2. ASSUME NEW d \in Device PROVE DeviceInv(d)
  <2>1. /\ stage = "upgrade" /\ thread[d] = "none" /\ ~running[d] /\ ~exitCode[d]
        /\ pc[d] = "idle" /\ bin[d] = BinFile /\ mode[d] = "FW"
        /\ bootLoader[d] \in {"older", "current"}
        /\ stat[d] = "NONE"
    BY OwnDevices DEF CleanInit, UMInit, Init
  <2>2. launched[d] \in Slot
    BY <1>1 DEF IInv, TypeOK
  <2>3. OldOnly(d)
    BY <2>2 DEF CleanInit, UMInit, Init, OldOnly
  <2>4. ~Succeeds(d)
    BY <2>1 DEF Succeeds
  <2> QED BY <2>1, <2>3, <2>4 DEF DeviceInv, ThreadsOfPhase, Running, BootLoaderIntact,
          FirstRound, SecondRound, AfterRounds
<1>3. AllStagedBeforeAnySwitch
  <2>1. ASSUME NEW d \in Device PROVE ~RunsNewNext(d)
    <3>1. OldOnly(d)
      BY <1>2 DEF DeviceInv, FirstRound, CleanInit, UMInit
    <3>2. launched[d] \in Slot
      BY <1>1 DEF IInv, TypeOK
    <3> QED BY <3>1, <3>2, OldDoesNotRun
  <2> QED BY <2>1 DEF AllStagedBeforeAnySwitch
<1> QED BY <1>1, <1>2, <1>3 DEF ManagerInv

\* The kinds of steps of a network update that is run once.
LEMMA UMSteps ==
    ASSUME UMTypeOK, OneNetworkRun, [UMNext]_umVars
    PROVE  \/ \E d \in Device : StartThread(d)
           \/ \E d \in Device : ThreadStarts(d)
           \/ \E d \in Device : ThreadSteps(d)
           \/ \E d \in Device : ThreadEnds(d)
           \/ UpgradeVerdict \/ ActivateVerdict \/ AllReset \/ Summary
           \/ \E d \in Device : SendReset(d)
           \/ \E d \in Device : DeviceRestarts(d) /\ UNCHANGED managerVars
           \/ ToolKilled
           \/ UNCHANGED umVars
<1>1. ~RunAgain
  BY DEF RunAgain, UMTypeOK, OneNetworkRun
<1> QED BY <1>1 DEF UMNext, MainStep

LEMMA UMNextInv ==
    ASSUME ManagerInv, OneNetworkRun, [UMNext]_umVars
    PROVE  ManagerInv'
<1>t. UMTypeOK /\ UMTypeOK' /\ IInv /\ AllStagedBeforeAnySwitch
      /\ \A d \in Device : DeviceInv(d)
  BY UMNextTypes DEF ManagerInv
<1>1. ASSUME NEW d \in Device, StartThread(d)
      PROVE  /\ IInv' /\ \A e \in Device : DeviceInv(e)'
             /\ UNCHANGED <<fw, intact, activeByte>>
  <2>1. UNCHANGED vars
    BY <1>1 DEF StartThread
  <2>2. \A e \in Device : DeviceInv(e)'
    BY <1>1, StartThreadKeeps
  <2> QED BY <1>t, <2>1, <2>2, StutterInv DEF vars
<1>2. ASSUME NEW d \in Device, ThreadStarts(d)
      PROVE  /\ IInv' /\ \A e \in Device : DeviceInv(e)'
             /\ UNCHANGED <<fw, intact, activeByte>>
  <2>1. StartCall(d) /\ WellStarted(d) /\ UNCHANGED deviceVars
    BY <1>2, ThreadStartsWell DEF ThreadStarts, StartCall
  <2>2. \A e \in Device : DeviceInv(e)'
    BY <1>2, ThreadStartsKeeps
  <2> QED BY <1>t, <2>1, <2>2, OwnDevices, StartCallInv DEF deviceVars
<1>3. ASSUME NEW d \in Device, ThreadSteps(d)
      PROVE  /\ IInv' /\ \A e \in Device : DeviceInv(e)'
             /\ stage' # "killed"
  <2>1. CallStep(d) /\ stage' = stage
    BY <1>3 DEF ThreadSteps, managerVars
  <2>2. stage # "killed"
    BY <1>t, <2>1, OwnDevices, CallStepLive DEF DeviceInv, ThreadsOfPhase
  <2>3. \A e \in Device : DeviceInv(e)'
    BY <1>3, ThreadStepsKeeps
  <2> QED BY <1>t, <2>1, <2>2, <2>3, OwnDevices, CallStepInv
<1>4. ASSUME NEW d \in Device, ThreadEnds(d)
      PROVE  /\ IInv' /\ \A e \in Device : DeviceInv(e)'
             /\ UNCHANGED <<fw, intact, activeByte>>
  <2>1. UNCHANGED vars
    BY <1>4 DEF ThreadEnds
  <2>2. \A e \in Device : DeviceInv(e)'
    BY <1>4, ThreadEndsKeeps
  <2> QED BY <1>t, <2>1, <2>2, StutterInv DEF vars
<1>5. ASSUME UpgradeVerdict \/ ActivateVerdict \/ AllReset \/ Summary
      PROVE  /\ IInv' /\ \A e \in Device : DeviceInv(e)'
             /\ UNCHANGED <<fw, intact, activeByte>>
  <2>1. UNCHANGED vars
    BY <1>5 DEF UpgradeVerdict, ActivateVerdict, AllReset, Summary, AllStopped
  <2>2. \A e \in Device : DeviceInv(e)'
    BY <1>5, VerdictKeeps
  <2> QED BY <1>t, <2>1, <2>2, StutterInv DEF vars
<1>6. ASSUME NEW d \in Device,
             \/ SendReset(d)
             \/ DeviceRestarts(d) /\ UNCHANGED managerVars
      PROVE  /\ IInv' /\ \A e \in Device : DeviceInv(e)'
             /\ UNCHANGED <<fw, intact, activeByte>>
  <2>1. /\ UNCHANGED <<callVars, stage, thread, running, exitCode, dm, runs>>
        /\ \/ todo' = todo
           \/ stage = "reset" /\ todo' \subseteq todo
    BY <1>6 DEF SendReset, DeviceRestarts, managerVars
  <2>2. CASE Reboot(d)
    <3>1. IInv' /\ UNCHANGED <<fw, intact, activeByte>>
      BY <1>t, <2>1, <2>2, RestartInv DEF DeviceRestarts, Reboot
    <3> QED BY <2>1, <2>2, <3>1, RestartKeeps
  <2>3. CASE UNCHANGED deviceVars
    <3>1. UNCHANGED vars
      BY <2>1, <2>3 DEF deviceVars, callVars, vars
    <3>2. ASSUME NEW e \in Device PROVE DeviceInv(e)'
      <4>1. SameCall(e) /\ SameDevice(e) /\ stat'[e] = stat[e] /\ mode'[e] = mode[e]
        BY <3>1 DEF vars, SameCall, SameDevice
      <4>2. CASE todo' = todo
        BY <1>t, <2>1, <4>1, <4>2, DeviceFrame
      <4>3. CASE stage = "reset" /\ todo' \subseteq todo
        <5>1. ThreadsOfPhase(e)'
          BY <1>t, <2>1, <4>1, <4>3 DEF DeviceInv, ThreadsOfPhase, SameCall
        <5>2. Running(e)' /\ AfterRounds(e)'
          BY <1>t, <2>1, <4>1, SameFlash DEF DeviceInv, AfterRounds
        <5> QED BY <2>1, <4>3, <5>1, <5>2 DEF DeviceInv, FirstRound, SecondRound
      <4> QED BY <2>1, <4>2, <4>3
    <3> QED BY <1>t, <3>1, <3>2, StutterInv DEF vars
  <2> QED BY <1>6, <2>2, <2>3 DEF SendReset, DeviceRestarts
<1>7. ASSUME ToolKilled
      PROVE  /\ IInv' /\ \A e \in Device : DeviceInv(e)'
             /\ UNCHANGED <<fw, intact, activeByte>>
  BY <1>t, <1>7, KilledInv, KilledKeeps DEF ToolKilled, deviceVars
<1>8. ASSUME UNCHANGED umVars
      PROVE  /\ IInv' /\ \A e \in Device : DeviceInv(e)'
             /\ UNCHANGED <<fw, intact, activeByte>>
  <2>1. UNCHANGED vars /\ UNCHANGED managerVars
    BY <1>8 DEF umVars
  <2>2. ASSUME NEW e \in Device PROVE DeviceInv(e)'
    <3>1. SameCall(e) /\ SameDevice(e) /\ stat'[e] = stat[e] /\ mode'[e] = mode[e]
      BY <2>1 DEF vars, SameCall, SameDevice
    <3> QED BY <1>t, <2>1, <3>1, DeviceFrame DEF managerVars
  <2> QED BY <1>t, <2>1, <2>2, StutterInv DEF vars
<1>9. /\ IInv' /\ \A d \in Device : DeviceInv(d)'
      /\ stage' = "killed" => UNCHANGED <<fw, intact, activeByte>>
  BY <1>t, <1>1, <1>2, <1>3, <1>4, <1>5, <1>6, <1>7, <1>8, UMSteps
<1>10. AllStagedBeforeAnySwitch'
  <2>1. CASE stage' = "killed"
    BY <1>t, <1>9, <2>1, StagedFrame
  <2>2. CASE stage' # "killed"
    BY <1>t, <1>9, <2>2, StagedFirst DEF IInv
  <2> QED BY <2>1, <2>2
<1> QED BY <1>t, <1>9, <1>10 DEF ManagerInv

\* The invariant holds in every state of the manager.
THEOREM ManagerInvariant ==
    ASSUME OneNetworkRun
    PROVE  CleanSpec => []ManagerInv
<1>1. CleanInit => ManagerInv
  BY InitManagerInv
<1>2. ManagerInv /\ [UMNext]_umVars => ManagerInv'
  BY UMNextInv
<1> QED BY <1>1, <1>2, PTL DEF CleanSpec

\* No device of the network can be started into the new firmware before every
\* device holds it completely.
THEOREM NothingSwitchedEarly ==
    ASSUME OneNetworkRun
    PROVE  CleanSpec => []AllStagedBeforeAnySwitch
<1>1. ManagerInv => AllStagedBeforeAnySwitch
  BY DEF ManagerInv
<1> QED BY <1>1, ManagerInvariant, PTL

\* Whatever the threads, the devices and the tool's end do, no device is left
\* without an image it can be started from.
THEOREM ManagerKeepsImages ==
    ASSUME OneNetworkRun
    PROVE  CleanSpec => []SomeActiveImage
<1>1. ManagerInv => SomeActiveImage
  BY DEF ManagerInv, IInv
<1> QED BY <1>1, ManagerInvariant, PTL

\* "Quiting without upgrade!" leaves every device with the firmware it had.
THEOREM QuitIsHarmless ==
    ASSUME OneNetworkRun
    PROVE  CleanSpec => []QuitMeansNoUpgrade
<1>1. ManagerInv => QuitMeansNoUpgrade
  <2> SUFFICES ASSUME ManagerInv, stage = "quit", NEW d \in Device
               PROVE  (\E s \in Slot : ActiveImage(d, s)) /\ ~RunsNewNext(d)
    BY DEF QuitMeansNoUpgrade
  <2>1. OldOnly(d) /\ launched[d] \in Slot
    BY DEF ManagerInv, DeviceInv, FirstRound, IInv, TypeOK
  <2> QED BY <2>1, OldDoesNotRun DEF OldOnly
<1> QED BY <1>1, ManagerInvariant, PTL

\* "finish successfully" is the truth: the device's only active image is the
\* complete new firmware.  A thread of the second round that is not created leaves
\* the exit code of the first, and the device is reported without being switched.
THEOREM FinishedIsSwitched ==
    ASSUME OneNetworkRun, EverySwitchStarts
    PROVE  CleanSpec => []FinishedMeansSwitched
<1>1. ManagerInv => FinishedMeansSwitched
  BY SucceededType DEF ManagerInv, DeviceInv, AfterRounds, FinishedMeansSwitched
<1> QED BY <1>1, ManagerInvariant, PTL

\* The manager calls Ghn_Upgrade_Firmware only the way it needs to be called:
\* what UpgradeFirmware's theorems assume of the callers is true of um.
THEOREM ManagerDisciplined ==
    ASSUME OneNetworkRun
    PROVE  CleanSpec => ManagerIsDisciplined
<1>1. ManagerInv /\ [UMNext]_umVars =>
        [\A d \in Device :
            pc[d] = "idle" /\ pc'[d] # "idle" /\ Updates(opts'[d])
                => MayStart(d, opts'[d])]_umVars
  <2> SUFFICES ASSUME ManagerInv, [UMNext]_umVars, NEW d \in Device,
                      pc[d] = "idle", pc'[d] # "idle", Updates(opts'[d])
               PROVE  MayStart(d, opts'[d])
    OBVIOUS
  <2>t. TypeOK /\ UMTypeOK
    BY DEF ManagerInv, IInv
  <2>1. ASSUME NEW e \in Device, ThreadStarts(e) PROVE MayStart(d, opts'[d])
    <3>1. CASE e = d
      BY <2>1, <3>1, ThreadStartsWell
    <3>2. CASE e # d
      BY <2>t, <2>1, <3>2, OtherThreads DEF ThreadStarts, SameCall
    <3> QED BY <3>1, <3>2
  <2>2. ASSUME NEW e \in Device, ThreadSteps(e) PROVE FALSE
    <3>1. CallStep(e) /\ e \in Call
      BY <2>2, OwnDevices DEF ThreadSteps
    <3>2. e # d
      BY <3>1, CallStepLive
    <3> QED BY <2>t, <3>1, <3>2, OtherThreads DEF SameCall
  <2>3. CASE ToolKilled
    BY <2>3, OwnDevices DEF ToolKilled
  <2>4. CASE UNCHANGED pc
    BY <2>4
  <2>5. \/ UNCHANGED pc \/ ToolKilled
        \/ \E e \in Device : ThreadStarts(e) \/ ThreadSteps(e)
    BY <2>t, UMSteps
       DEF StartThread, ThreadEnds, UpgradeVerdict, ActivateVerdict, AllReset,
           Summary, AllStopped, SendReset, DeviceRestarts, umVars, vars, callVars
  <2> QED BY <2>1, <2>2, <2>3, <2>4, <2>5
<1> QED BY <1>1, ManagerInvariant, PTL DEF CleanSpec, ManagerIsDisciplined

=============================================================================
