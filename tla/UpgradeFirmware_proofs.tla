---------------------- MODULE UpgradeFirmware_proofs ----------------------
(***************************************************************************)
(* Proofs about UpgradeFirmware, for every set of devices, firmwares and   *)
(* calls and any number of sections.                                       *)
(***************************************************************************)
EXTENDS UpgradeFirmware, TLAPS

-----------------------------------------------------------------------------
(* Type correctness. *)

\* The other slot of a slot is a slot.
LEMMA OtherType == \A s \in Slot : Other(s) \in Slot /\ Other(s) # s /\ Other(Other(s)) = s
BY DEF Slot, Other

\* What a command or a restart does to a device keeps the types of its state.
LEMMA DeviceTypes ==
    ASSUME TypeOK, NEW d \in Device, NEW s \in Slot
    PROVE  /\ EraseSlot(d, s) \/ TornErase(d, s) =>
                /\ intact' \in [Device -> [Slot -> SUBSET Section]]
                /\ activeByte' \in [Device -> [Slot -> Byte]]
           /\ \A b \in Byte : WriteActiveByte(d, s, b) =>
                activeByte' \in [Device -> [Slot -> Byte]]
           /\ \A i \in Section, f \in Firmware : WriteSection(d, s, i, f) =>
                /\ intact' \in [Device -> [Slot -> SUBSET Section]]
                /\ fw' \in [Device -> [Slot -> Firmware]]
           /\ Reboot(d) =>
                /\ mode' \in [Device -> {"FW", "B1", "BootCode"}]
                /\ launched' \in [Device -> Slot]
                /\ UNCHANGED <<fw, intact, activeByte, bootLoader>>
<1>1. ASSUME EraseSlot(d, s)
      PROVE  /\ intact' \in [Device -> [Slot -> SUBSET Section]]
             /\ activeByte' \in [Device -> [Slot -> Byte]]
  BY <1>1 DEF TypeOK, EraseSlot, Byte
<1>2. ASSUME TornErase(d, s)
      PROVE  /\ intact' \in [Device -> [Slot -> SUBSET Section]]
             /\ activeByte' \in [Device -> [Slot -> Byte]]
  <2>1. PICK kept \in SUBSET intact[d][s], b \in {activeByte[d][s], 255} :
            /\ intact' = [intact EXCEPT ![d][s] = kept]
            /\ activeByte' = [activeByte EXCEPT ![d][s] = b]
    BY <1>2 DEF TornErase
  <2>2. intact[d] \in [Slot -> SUBSET Section] /\ activeByte[d] \in [Slot -> Byte]
    BY DEF TypeOK
  <2>3. intact[d][s] \in SUBSET Section /\ activeByte[d][s] \in Byte
    BY <2>2
  <2>4. kept \in SUBSET Section /\ b \in Byte
    BY <2>1, <2>3 DEF Byte
  <2>5. intact' \in [Device -> [Slot -> SUBSET Section]]
    BY <2>1, <2>4 DEF TypeOK
  <2>6. activeByte' \in [Device -> [Slot -> Byte]]
    BY <2>1, <2>4 DEF TypeOK
  <2> QED BY <2>5, <2>6
<1>3. ASSUME NEW b \in Byte, WriteActiveByte(d, s, b)
      PROVE  activeByte' \in [Device -> [Slot -> Byte]]
  BY <1>3 DEF TypeOK, WriteActiveByte, Byte, Written
<1>4. ASSUME NEW i \in Section, NEW f \in Firmware, WriteSection(d, s, i, f)
      PROVE  /\ intact' \in [Device -> [Slot -> SUBSET Section]]
             /\ fw' \in [Device -> [Slot -> Firmware]]
  BY <1>4 DEF TypeOK, WriteSection
<1>5. ASSUME Reboot(d)
      PROVE  /\ mode' \in [Device -> {"FW", "B1", "BootCode"}]
             /\ launched' \in [Device -> Slot]
             /\ UNCHANGED <<fw, intact, activeByte, bootLoader>>
  BY <1>5 DEF TypeOK, Reboot
<1> QED BY <1>1, <1>2, <1>3, <1>4, <1>5

\* Ending a call, and going on with it, keep the types of the calls' state.
LEMMA CallTypes ==
    ASSUME TypeOK, NEW c \in Call
    PROVE  /\ \A st \in Status : Leave(c, st) =>
                /\ pc' \in [Call -> Step]
                /\ opts' \in [Call -> SUBSET Option]
                /\ bin' \in [Call -> Firmware]
                /\ seen' \in [Call -> Slot]
                /\ next' \in [Call -> Section]
                /\ stat' \in [Call -> Status]
           /\ \A l \in Step : Advance(c, l) =>
                /\ pc' \in [Call -> Step]
                /\ UNCHANGED Locals
<1>1. ASSUME NEW st \in Status, Leave(c, st)
      PROVE  /\ pc' \in [Call -> Step]
             /\ opts' \in [Call -> SUBSET Option]
             /\ bin' \in [Call -> Firmware]
             /\ seen' \in [Call -> Slot]
             /\ next' \in [Call -> Section]
             /\ stat' \in [Call -> Status]
  <2>1. 1 \in Section
    BY SectionAssumption DEF Section
  <2> QED
    BY <1>1, <2>1 DEF TypeOK, Leave, GoTo, Step, Slot
<1>2. ASSUME NEW l \in Step, Advance(c, l)
      PROVE  pc' \in [Call -> Step] /\ UNCHANGED Locals
  BY <1>2 DEF TypeOK, Advance, GoTo
<1> QED BY <1>1, <1>2

\* The steps a call can go on with are steps.
LEMMA Labels ==
    ASSUME NEW o
    PROVE  /\ AfterUpdate(o) \in {"query", "exit"}
           /\ AfterSetActive(o) \in {"eraseBoot", "clearActive", "query", "exit"}
           /\ AfterProgram(o) \in {"setActive", "eraseBoot", "query", "exit"}
           /\ AfterParseTable(o) \in {"erase", "setActive", "eraseBoot", "query", "exit"}
           /\ AfterEnter(o) \in {"parseTable", "query", "exit"}
           /\ AfterOpen(o) \in {"enter", "parseTable", "query", "exit"}
           /\ AfterChipType(o) \in {"readFlash", "open"}
           /\ FirstStep(o) \in {"checkBin", "chipType"}
BY DEF AfterUpdate, AfterSetActive, AfterProgram, AfterParseTable, AfterEnter,
       AfterOpen, AfterChipType, FirstStep, Upgrades, Activates, Updates,
       ReplacesBootLoader

\* The names of the steps a call can go on with.
LEMMA StepLabels == {"enter", "checkBin", "chipType", "readFlash", "open",
                     "parseTable", "erase", "updateBlocks", "program",
                     "setActive", "eraseBoot", "programEBL", "programB1",
                     "eraseActive", "clearActive", "query", "exit"} \subseteq Step
BY DEF Step

\* A step that leaves the devices alone and ends the call or goes on with it.
LEMMA HostStepTypes ==
    ASSUME TypeOK, NEW c \in Call, UNCHANGED deviceVars,
           \/ \E st \in Status : Leave(c, st)
           \/ \E l \in Step : Advance(c, l)
    PROVE  TypeOK'
<1>1. CASE \E st \in Status : Leave(c, st)
  BY <1>1, CallTypes DEF TypeOK, deviceVars
<1>2. CASE \E l \in Step : Advance(c, l)
  BY <1>2, CallTypes DEF TypeOK, deviceVars, Locals
<1> QED BY <1>1, <1>2

\* A step that changes a device as well.
LEMMA CommandTypes ==
    ASSUME TypeOK, NEW c \in Call,
           fw' \in [Device -> [Slot -> Firmware]],
           intact' \in [Device -> [Slot -> SUBSET Section]],
           activeByte' \in [Device -> [Slot -> Byte]],
           bootLoader' \in [Device -> BootLoader],
           UNCHANGED <<mode, launched>>,
           \/ \E st \in Status : Leave(c, st)
           \/ \E l \in Step : Advance(c, l)
           \/ UNCHANGED <<pc, Locals>>
    PROVE  TypeOK'
<1>1. CASE \E st \in Status : Leave(c, st)
  BY <1>1, CallTypes DEF TypeOK
<1>2. CASE \E l \in Step : Advance(c, l)
  BY <1>2, CallTypes DEF TypeOK, Locals
<1>3. CASE UNCHANGED <<pc, Locals>>
  BY <1>3 DEF TypeOK, Locals
<1> QED BY <1>1, <1>2, <1>3

\* The initial states have the right types.
LEMMA InitTypes == Init => TypeOK
<1> SUFFICES ASSUME Init PROVE TypeOK
  OBVIOUS
<1>1. {Section, {1}, {}} \subseteq SUBSET Section
  BY SectionAssumption DEF Section
<1>2. 1 \in Section
  BY SectionAssumption DEF Section
<1>3. intact \in [Device -> [Slot -> SUBSET Section]]
  <2>1. intact \in [Device -> [Slot -> {Section, {1}, {}}]]
    BY DEF Init
  <2>2. ASSUME NEW d \in Device PROVE intact[d] \in [Slot -> SUBSET Section]
    <3>1. intact[d] \in [Slot -> {Section, {1}, {}}]
      BY <2>1
    <3> QED BY <3>1, <1>1
  <2> QED BY <2>1, <2>2
<1> QED
  BY <1>2, <1>3 DEF Init, TypeOK, BootLoader, Step, Status, Slot

\* Every action keeps the types.
LEMMA NextTypes == TypeOK /\ [Next]_vars => TypeOK'
<1> SUFFICES ASSUME TypeOK, [Next]_vars PROVE TypeOK'
  OBVIOUS
<1> USE StepLabels
<1>st. {"SUCCESS", "FAILURE", "OLD_EBL_VERSION", "CHIP_TYPE_MISMATCH", "CRASHED",
        "NONE"} \subseteq Status
  BY DEF Status
<1>1. ASSUME NEW c \in Call, StartCall(c) PROVE TypeOK'
  <2>1. PICK o \in Requests, f \in Firmware :
            /\ opts' = [opts EXCEPT ![c] = o]
            /\ bin' = [bin EXCEPT ![c] = f]
            /\ GoTo(c, FirstStep(o))
    BY <1>1 DEF StartCall
  <2>2. o \in SUBSET Option
    BY RequestsAssumption
  <2>3. FirstStep(o) \in Step
    <3>1. FirstStep(o) \in {"checkBin", "chipType"}
      BY Labels
    <3> QED BY <3>1
  <2>4. stat' = [stat EXCEPT ![c] = "NONE"] /\ UNCHANGED <<seen, next, deviceVars>>
    BY <1>1 DEF StartCall
  <2> QED BY <2>1, <2>2, <2>3, <2>4, <1>st DEF TypeOK, GoTo, deviceVars
<1>2. ASSUME NEW c \in Call, CallStep(c) PROVE TypeOK'
  <2> DEFINE d == Target[c]
  <2>d. d \in Device /\ opts[c] \in SUBSET Option /\ bin[c] \in Firmware
        /\ seen[c] \in Slot /\ Other(seen[c]) \in Slot /\ next[c] \in Section
    BY TargetAssumption, OtherType DEF TypeOK
  <2>1. CASE CheckBinFile(c)
    BY <2>1, <1>st, HostStepTypes DEF CheckBinFile, Fail
  <2>2. CASE CheckChipType(c)
    BY <2>2, <1>st, Labels, HostStepTypes DEF CheckChipType, Fail
  <2>3. CASE ReadFlashInformation(c)
    <3>1. CASE \E st \in Status : Fail(c, st)
      BY <3>1, HostStepTypes DEF Fail
    <3>2. CASE /\ seen' = [seen EXCEPT ![c] = launched[d]]
               /\ GoTo(c, "open")
               /\ UNCHANGED <<opts, bin, next, stat, deviceVars>>
      BY <3>2, <2>d DEF TypeOK, GoTo, deviceVars
    <3> QED BY <2>3, <3>1, <3>2, <1>st DEF ReadFlashInformation
  <2>4. CASE OpenConnection(c)
    BY <2>4, <1>st, Labels, HostStepTypes DEF OpenConnection, Fail
  <2>5. CASE EnterRemoteUpgrade(c)
    BY <2>5, <1>st, Labels, HostStepTypes DEF EnterRemoteUpgrade, Fail
  <2>6. CASE ParseFWTable(c)
    <3>1. CASE \/ Advance(c, AfterParseTable(opts[c])) /\ UNCHANGED deviceVars
               \/ Fail(c, "FAILURE")
      BY <3>1, <1>st, Labels, HostStepTypes DEF Fail
    <3>2. CASE Reboot(d) /\ Leave(c, "FAILURE")
      BY <3>2, <2>d, <1>st, DeviceTypes, CallTypes, OtherType DEF TypeOK
    <3> QED BY <2>6, <3>1, <3>2 DEF ParseFWTable
  <2>7. CASE EraseInactive(c)
    BY <2>7, <2>d, <1>st, DeviceTypes, CommandTypes DEF EraseInactive, TypeOK
  <2>8. CASE UpdateBlocks(c)
    BY <2>8, <1>st, HostStepTypes DEF UpdateBlocks, Fail
  <2>9. CASE ProgramSection(c)
    <3>1. CASE /\ WriteSection(d, Other(seen[c]), next[c], bin[c])
               /\ IF next[c] < SectionCount
                    THEN next' = [next EXCEPT ![c] = @ + 1] /\ UNCHANGED pc
                    ELSE GoTo(c, AfterProgram(opts[c])) /\ UNCHANGED next
               /\ UNCHANGED <<opts, bin, seen, stat>>
      <4>1. next' \in [Call -> Section]
        <5>1. CASE next[c] < SectionCount
          <6>1. next[c] + 1 \in Section
            BY <5>1, <2>d, SectionAssumption DEF Section
          <6> QED BY <3>1, <5>1, <6>1 DEF TypeOK
        <5>2. CASE ~(next[c] < SectionCount)
          BY <3>1, <5>2 DEF TypeOK
        <5> QED BY <5>1, <5>2
      <4>2. pc' \in [Call -> Step]
        BY <3>1, Labels DEF TypeOK, GoTo
      <4>3. /\ intact' \in [Device -> [Slot -> SUBSET Section]]
            /\ fw' \in [Device -> [Slot -> Firmware]]
        BY <3>1, <2>d, DeviceTypes
      <4>4. UNCHANGED <<opts, bin, seen, stat, activeByte, bootLoader, mode, launched>>
        BY <3>1, <2>9 DEF ProgramSection
      <4> QED BY <4>1, <4>2, <4>3, <4>4 DEF TypeOK
    <3>2. CASE /\ \/ WriteSection(d, Other(seen[c]), next[c], bin[c])
                  \/ UNCHANGED <<intact, fw>>
               /\ Leave(c, "FAILURE")
      <4>1. /\ intact' \in [Device -> [Slot -> SUBSET Section]]
            /\ fw' \in [Device -> [Slot -> Firmware]]
        BY <3>2, <2>d, DeviceTypes DEF TypeOK
      <4>2. UNCHANGED <<activeByte, bootLoader, mode, launched>>
        BY <2>9 DEF ProgramSection
      <4> QED BY <3>2, <4>1, <4>2, <1>st, CommandTypes DEF TypeOK
    <3> QED BY <2>9, <3>1, <3>2 DEF ProgramSection
  <2>10. CASE SetActive(c)
    <3>1. activeByte' \in [Device -> [Slot -> Byte]]
      BY <2>10, <2>d, DeviceTypes DEF SetActive, TypeOK, Byte
    <3>2. UNCHANGED <<fw, intact, bootLoader, mode, launched>>
      BY <2>10 DEF SetActive
    <3>3. AfterSetActive(opts[c]) \in Step
      <4>1. AfterSetActive(opts[c]) \in {"eraseBoot", "clearActive", "query", "exit"}
        BY Labels
      <4> QED BY <4>1
    <3>4. \/ \E st \in Status : Leave(c, st)
          \/ \E l \in Step : Advance(c, l)
      BY <2>10, <3>3, <1>st DEF SetActive
    <3> QED BY <3>1, <3>2, <3>4, CommandTypes DEF TypeOK
  <2>11. CASE EraseBootLoader(c)
    <3>1. bootLoader' \in [Device -> BootLoader]
      BY <2>11, <2>d DEF EraseBootLoader, WriteBootLoader, TypeOK, BootLoader
    <3>2. UNCHANGED <<fw, intact, activeByte, mode, launched>>
      BY <2>11 DEF EraseBootLoader
    <3>3. \/ \E st \in Status : Leave(c, st)
          \/ \E l \in Step : Advance(c, l)
      BY <2>11, <1>st DEF EraseBootLoader
    <3> QED BY <3>1, <3>2, <3>3, CommandTypes DEF TypeOK
  <2>12. CASE ProgramEBL(c)
    <3>1. bootLoader' \in [Device -> BootLoader]
      BY <2>12, <2>d DEF ProgramEBL, WriteBootLoader, TypeOK, BootLoader
    <3>2. UNCHANGED <<fw, intact, activeByte, mode, launched>>
      BY <2>12 DEF ProgramEBL
    <3>3. \/ \E st \in Status : Leave(c, st)
          \/ \E l \in Step : Advance(c, l)
      BY <2>12, <1>st DEF ProgramEBL
    <3> QED BY <3>1, <3>2, <3>3, CommandTypes DEF TypeOK
  <2>13. CASE ProgramB1(c)
    <3>1. bootLoader' \in [Device -> BootLoader]
      BY <2>13, <2>d DEF ProgramB1, WriteBootLoader, TypeOK, BootLoader
    <3>2. UNCHANGED <<fw, intact, activeByte, mode, launched>>
      BY <2>13 DEF ProgramB1
    <3>3. \/ \E st \in Status : Leave(c, st)
          \/ \E l \in Step : Advance(c, l)
      BY <2>13, <1>st DEF ProgramB1
    <3> QED BY <3>1, <3>2, <3>3, CommandTypes DEF TypeOK
  <2>14. CASE EraseActive(c)
    <3>1. /\ intact' \in [Device -> [Slot -> SUBSET Section]]
          /\ activeByte' \in [Device -> [Slot -> Byte]]
      BY <2>14, <2>d, DeviceTypes DEF EraseActive
    <3>2. UNCHANGED <<fw, bootLoader, mode, launched>>
      BY <2>14 DEF EraseActive
    <3>3. AfterUpdate(opts[c]) \in Step
      <4>1. AfterUpdate(opts[c]) \in {"query", "exit"}
        BY Labels
      <4> QED BY <4>1
    <3>4. \/ \E st \in Status : Leave(c, st)
          \/ \E l \in Step : Advance(c, l)
          \/ UNCHANGED <<pc, Locals>>
      BY <2>14, <3>3, <1>st DEF EraseActive
    <3> QED BY <3>1, <3>2, <3>4, CommandTypes DEF TypeOK
  <2>15. CASE ClearActive(c)
    <3>1. activeByte' \in [Device -> [Slot -> Byte]]
      BY <2>15, <2>d, DeviceTypes DEF ClearActive, TypeOK, Byte
    <3>2. UNCHANGED <<fw, intact, bootLoader, mode, launched>>
      BY <2>15 DEF ClearActive
    <3>3. AfterUpdate(opts[c]) \in Step
      <4>1. AfterUpdate(opts[c]) \in {"query", "exit"}
        BY Labels
      <4> QED BY <4>1
    <3>4. \/ \E st \in Status : Leave(c, st)
          \/ \E l \in Step : Advance(c, l)
      BY <2>15, <3>3, <1>st DEF ClearActive
    <3> QED BY <3>1, <3>2, <3>4, CommandTypes DEF TypeOK
  <2>16. CASE QueryDevice(c)
    BY <2>16, <1>st, HostStepTypes DEF QueryDevice, Fail
  <2>17. CASE Return(c)
    BY <2>17, <1>st, HostStepTypes DEF Return
  <2> QED
    BY <1>2, <2>1, <2>2, <2>3, <2>4, <2>5, <2>6, <2>7, <2>8, <2>9, <2>10, <2>11,
       <2>12, <2>13, <2>14, <2>15, <2>16, <2>17 DEF CallStep
<1>3. ASSUME NEW c \in Call, ToolCrashes(c) PROVE TypeOK'
  BY <1>3, <1>st, HostStepTypes DEF ToolCrashes, Fail
<1>4. ASSUME NEW d \in Device, DeviceRestarts(d) PROVE TypeOK'
  <2>1. 1 \in Slot
    BY DEF Slot
  <2> QED BY <1>4, <2>1, DeviceTypes DEF DeviceRestarts, TypeOK, callVars
<1>5. CASE UNCHANGED vars
  BY <1>5 DEF TypeOK, vars
<1> QED BY <1>1, <1>2, <1>3, <1>4, <1>5 DEF Next

\* Every variable always holds values of its kind.
THEOREM TypeCorrect == Spec => []TypeOK
<1>1. Init => TypeOK
  BY InitTypes
<1>2. TypeOK /\ [Next]_vars => TypeOK'
  BY NextTypes
<1> QED BY <1>1, <1>2, PTL DEF Spec

-----------------------------------------------------------------------------
(* The inductive invariant, for disciplined callers. *)

USE DEF Upgrades, Activates, ReplacesBootLoader, Updates

\* What the invariant of a call says of the call's own registers, and of the
\* device.
SameCall(x) ==
    /\ pc'[x] = pc[x]     /\ opts'[x] = opts[x] /\ bin'[x] = bin[x]
    /\ seen'[x] = seen[x] /\ next'[x] = next[x]

SameDevice(d) ==
    /\ fw'[d] = fw[d] /\ intact'[d] = intact[d] /\ activeByte'[d] = activeByte[d]
    /\ bootLoader'[d] = bootLoader[d] /\ launched'[d] = launched[d]

\* The invariant of a call does not depend on other calls and devices.
LEMMA Frame ==
    ASSUME NEW x \in Call, CallInv(x), SameCall(x),
           SameDevice(Target[x]) \/ pc[x] = "idle"
    PROVE  CallInv(x)'
<1>1. CASE SameDevice(Target[x])
  BY <1>1 DEF CallInv, SameCall, SameDevice, StepsMatchOptions, OldImageKept,
     StagedImageKept, ProgramProgress, NewImageKept, BootLoaderProgress,
     ActiveImage, Complete
<1>2. CASE pc[x] = "idle"
  BY <1>2 DEF CallInv, SameCall, StepsMatchOptions, OldImageKept,
     StagedImageKept, ProgramProgress, NewImageKept, BootLoaderProgress,
     BeforeRead, Preparing, Programming, AfterSet
<1> QED BY <1>1, <1>2

\* An ended call satisfies its invariant.
LEMMA LeaveInv ==
    ASSUME TypeOK, NEW c \in Call, NEW st, Leave(c, st)
    PROVE  CallInv(c)' /\ pc'[c] = "idle"
<1>1. pc'[c] = "idle" /\ opts'[c] = {} /\ next'[c] = 1
  BY DEF TypeOK, Leave, GoTo
<1> QED
  BY <1>1 DEF CallInv, StepsMatchOptions, OldImageKept, StagedImageKept,
     ProgramProgress, NewImageKept, BootLoaderProgress,
     BeforeRead, Preparing, Programming, AfterSet

\* Going on to a next step changes nothing else of the call.
LEMMA AdvanceRegisters ==
    ASSUME TypeOK, NEW c \in Call, NEW l, Advance(c, l)
    PROVE  /\ pc'[c] = l /\ opts'[c] = opts[c] /\ bin'[c] = bin[c]
           /\ seen'[c] = seen[c] /\ next'[c] = next[c]
BY DEF TypeOK, Advance, GoTo, Locals

\* A step changes the registers of its own call only ...
LEMMA OnlyOwnCall ==
    ASSUME TypeOK, NEW c \in Call, CallStep(c) \/ StartCall(c) \/ ToolCrashes(c),
           NEW x \in Call, x # c
    PROVE  SameCall(x)
<1>1. CASE \E st : Leave(c, st)
  BY <1>1 DEF Leave, GoTo, SameCall, TypeOK
<1>2. CASE \E l : Advance(c, l)
  BY <1>2 DEF Advance, Locals, GoTo, SameCall, TypeOK
<1>3. CASE UNCHANGED <<pc, Locals>>
  BY <1>3 DEF Locals, SameCall
<1>4. CASE ReadFlashInformation(c)
  BY <1>4, <1>1 DEF ReadFlashInformation, Fail, GoTo, SameCall, TypeOK
<1>5. CASE ProgramSection(c)
  BY <1>5, <1>1 DEF ProgramSection, GoTo, SameCall, TypeOK
<1>6. CASE StartCall(c)
  BY <1>6 DEF StartCall, GoTo, SameCall, TypeOK
<1>7. CASE ToolCrashes(c)
  BY <1>7, <1>1 DEF ToolCrashes, Fail
<1>8. CASE CheckBinFile(c) \/ CheckChipType(c) \/ OpenConnection(c)
           \/ EnterRemoteUpgrade(c) \/ ParseFWTable(c) \/ EraseInactive(c)
           \/ UpdateBlocks(c)
  BY <1>8, <1>1, <1>2
     DEF CheckBinFile, CheckChipType, OpenConnection, EnterRemoteUpgrade,
         ParseFWTable, EraseInactive, UpdateBlocks, Fail
<1>9. CASE SetActive(c) \/ EraseBootLoader(c) \/ ProgramEBL(c) \/ ProgramB1(c)
           \/ EraseActive(c) \/ ClearActive(c) \/ QueryDevice(c) \/ Return(c)
  BY <1>9, <1>1, <1>2, <1>3
     DEF SetActive, EraseBootLoader, ProgramEBL, ProgramB1, EraseActive,
         ClearActive, QueryDevice, Return, Fail
<1> QED BY <1>4, <1>5, <1>6, <1>7, <1>8, <1>9 DEF CallStep

\* An erase, complete or not, of one device's slot leaves the others alone.
LEMMA EraseOthers ==
    ASSUME TypeOK, NEW e \in Device, NEW s \in Slot,
           EraseSlot(e, s) \/ TornErase(e, s)
    PROVE  /\ \A d \in Device : d # e =>
                  intact'[d] = intact[d] /\ activeByte'[d] = activeByte[d]
           /\ \A t \in Slot : t # s =>
                  intact'[e][t] = intact[e][t] /\ activeByte'[e][t] = activeByte[e][t]
<1>1. PICK kept, b : /\ intact' = [intact EXCEPT ![e][s] = kept]
                     /\ activeByte' = [activeByte EXCEPT ![e][s] = b]
  BY DEF EraseSlot, TornErase
<1>2. intact \in [Device -> [Slot -> SUBSET Section]]
      /\ activeByte \in [Device -> [Slot -> Byte]]
  BY DEF TypeOK
<1> QED BY <1>1, <1>2

\* ... and the state of its own device only.
LEMMA OnlyOwnDevice ==
    ASSUME TypeOK, NEW c \in Call, CallStep(c) \/ StartCall(c) \/ ToolCrashes(c),
           NEW d \in Device, d # Target[c]
    PROVE  SameDevice(d)
<1>1. CASE UNCHANGED deviceVars
  BY <1>1 DEF deviceVars, SameDevice
<1>2. CASE StartCall(c) \/ ToolCrashes(c) \/ CheckBinFile(c) \/ CheckChipType(c)
           \/ ReadFlashInformation(c) \/ OpenConnection(c)
           \/ EnterRemoteUpgrade(c) \/ UpdateBlocks(c) \/ QueryDevice(c) \/ Return(c)
  BY <1>1, <1>2
     DEF StartCall, ToolCrashes, CheckBinFile, CheckChipType,
         ReadFlashInformation, OpenConnection, EnterRemoteUpgrade, UpdateBlocks,
         QueryDevice, Return, Fail
<1>3. CASE ParseFWTable(c)
  BY <1>1, <1>3 DEF ParseFWTable, Fail, Reboot, SameDevice, TypeOK
<1>4. CASE EraseInactive(c)
  <2>1. Target[c] \in Device /\ seen[c] \in Slot /\ Other(seen[c]) \in Slot
    BY TargetAssumption, OtherType DEF TypeOK
  <2>2. intact'[d] = intact[d] /\ activeByte'[d] = activeByte[d]
    BY <1>4, <2>1, EraseOthers DEF EraseInactive
  <2> QED BY <1>4, <2>2 DEF EraseInactive, SameDevice
<1>5. CASE ProgramSection(c)
  BY <1>5 DEF ProgramSection, WriteSection, SameDevice, TypeOK
<1>6. CASE SetActive(c)
  BY <1>6 DEF SetActive, WriteActiveByte, SameDevice, TypeOK
<1>7. CASE EraseBootLoader(c) \/ ProgramEBL(c) \/ ProgramB1(c)
  BY <1>7 DEF EraseBootLoader, ProgramEBL, ProgramB1, WriteBootLoader,
              SameDevice, TypeOK
<1>8. CASE EraseActive(c)
  <2>1. Target[c] \in Device /\ seen[c] \in Slot /\ Other(seen[c]) \in Slot
    BY TargetAssumption, OtherType DEF TypeOK
  <2>2. intact'[d] = intact[d] /\ activeByte'[d] = activeByte[d]
    BY <1>8, <2>1, EraseOthers DEF EraseActive
  <2> QED BY <1>8, <2>2 DEF EraseActive, SameDevice
<1>9. CASE ClearActive(c)
  BY <1>9 DEF ClearActive, WriteActiveByte, SameDevice, TypeOK
<1> QED BY <1>2, <1>3, <1>4, <1>5, <1>6, <1>7, <1>8, <1>9 DEF CallStep

\* The invariant in the words the steps of a call need.
LEMMA Facts ==
    ASSUME IInv, NEW c \in Call
    PROVE  /\ TypeOK
           /\ CallInv(c)
           /\ Target[c] \in Device
           /\ seen[c] \in Slot /\ Other(seen[c]) \in Slot /\ Other(seen[c]) # seen[c]
           /\ next[c] \in Section
           /\ opts[c] \in SUBSET Option
           /\ \E s \in Slot : ActiveImage(Target[c], s)
BY TargetAssumption, OtherType DEF IInv, TypeOK, SomeActiveImage

\* The steps that leave the devices alone.
LEMMA HostSteps ==
    ASSUME IInv, NEW c \in Call,
           \/ CheckBinFile(c) \/ CheckChipType(c) \/ OpenConnection(c)
           \/ EnterRemoteUpgrade(c) \/ UpdateBlocks(c) \/ QueryDevice(c)
           \/ Return(c)
    PROVE  CallInv(c)' /\ \E s \in Slot : ActiveImage(Target[c], s)'
<1> USE DEF CallInv, StepsMatchOptions, OldImageKept, StagedImageKept,
            ProgramProgress, NewImageKept, BootLoaderProgress,
            BeforeRead, Preparing, Programming, AfterSet
<1>1. UNCHANGED deviceVars
  BY DEF CheckBinFile, CheckChipType, OpenConnection, EnterRemoteUpgrade,
         UpdateBlocks, QueryDevice, Return, Fail
<1>2. \E s \in Slot : ActiveImage(Target[c], s)'
  BY <1>1, Facts DEF deviceVars, ActiveImage, Complete
<1>3. ASSUME NEW st, Leave(c, st) PROVE CallInv(c)'
  BY <1>3, Facts, LeaveInv
<1>4. ASSUME pc[c] = "checkBin", Advance(c, "chipType") PROVE CallInv(c)'
  BY <1>1, <1>4, Facts, AdvanceRegisters DEF deviceVars, ActiveImage, Complete
<1>5. ASSUME pc[c] = "chipType", Advance(c, AfterChipType(opts[c])) PROVE CallInv(c)'
  BY <1>1, <1>5, Facts, AdvanceRegisters
     DEF AfterChipType, deviceVars, ActiveImage, Complete
<1>6. ASSUME pc[c] = "open", Advance(c, AfterOpen(opts[c])) PROVE CallInv(c)'
  BY <1>1, <1>6, Facts, AdvanceRegisters
     DEF AfterOpen, AfterEnter, AfterUpdate, deviceVars, ActiveImage, Complete
<1>7. ASSUME pc[c] = "enter", Advance(c, AfterEnter(opts[c])) PROVE CallInv(c)'
  BY <1>1, <1>7, Facts, AdvanceRegisters
     DEF AfterEnter, AfterUpdate, deviceVars, ActiveImage, Complete
<1>8. ASSUME pc[c] = "updateBlocks", Advance(c, "program") PROVE CallInv(c)'
  <2>1. 1..(1 - 1) = {}
    OBVIOUS
  <2>2. /\ pc'[c] = "program" /\ opts'[c] = opts[c] /\ bin'[c] = bin[c]
        /\ seen'[c] = seen[c] /\ next'[c] = next[c]
    BY <1>8, Facts, AdvanceRegisters
  <2>3. ProgramProgress(c)'
    <3>1. /\ next[c] = 1
          /\ intact[Target[c]][Other(seen[c])] = {}
          /\ activeByte[Target[c]][Other(seen[c])] = 255
      BY <1>8, Facts
    <3>2. intact'[Target[c]][Other(seen'[c])] = 1..(next'[c] - 1)
      BY <3>1, <2>1, <2>2, <1>1 DEF deviceVars
    <3>3. activeByte'[Target[c]][Other(seen'[c])] = 255 /\ ~(next'[c] > 1)
      BY <3>1, <2>2, <1>1 DEF deviceVars
    <3> QED BY <3>2, <3>3, <2>2
  <2>4. OldImageKept(c)'
    BY <2>2, <1>1, <1>8, Facts DEF deviceVars, ActiveImage, Complete
  <2> QED BY <2>2, <2>3, <2>4, <1>8, Facts
<1>9. ASSUME pc[c] = "query", Advance(c, "exit") PROVE CallInv(c)'
  BY <1>1, <1>9, Facts, AdvanceRegisters DEF deviceVars, ActiveImage, Complete
<1> QED
  BY <1>2, <1>3, <1>4, <1>5, <1>6, <1>7, <1>8, <1>9
     DEF CheckBinFile, CheckChipType, OpenConnection, EnterRemoteUpgrade,
         UpdateBlocks, QueryDevice, Return, Fail

\* A restart launches an active image, or leaves the device as it is.
LEMMA RebootLaunches ==
    ASSUME IInv, NEW d \in Device, Reboot(d)
    PROVE  /\ launched'[d] = launched[d] \/ ActiveImage(d, launched'[d])
           /\ \A e \in Device : e # d => launched'[e] = launched[e]
           /\ UNCHANGED <<fw, intact, activeByte, bootLoader>>
<1>1. \E s \in Slot : ActiveImage(d, s)
  BY DEF IInv, SomeActiveImage
<1>2. launched \in [Device -> Slot]
  BY DEF IInv, TypeOK
<1> QED BY <1>1, <1>2 DEF Reboot

\* The calls' invariants survive a restart of a device.
LEMMA RebootKeeps ==
    ASSUME IInv, NEW d \in Device, Reboot(d), NEW x \in Call, SameCall(x)
    PROVE  CallInv(x)'
<1>1. CallInv(x) /\ Target[x] \in Device
  BY TargetAssumption DEF IInv
<1>2. CASE Target[x] # d
  BY <1>1, <1>2, RebootLaunches, Frame DEF SameDevice
<1>3. CASE Target[x] = d
  <2>1. UNCHANGED <<fw, intact, activeByte, bootLoader>>
        /\ (launched'[d] = launched[d] \/ ActiveImage(d, launched'[d]))
    BY RebootLaunches
  <2>2. OldImageKept(x)'
    BY <1>1, <1>3, <2>1 DEF CallInv, OldImageKept, SameCall, ActiveImage, Complete
  <2> QED
    BY <1>1, <1>3, <2>1, <2>2 DEF CallInv, SameCall, StepsMatchOptions,
       StagedImageKept, ProgramProgress, NewImageKept, BootLoaderProgress,
       ActiveImage, Complete
<1> QED BY <1>2, <1>3

\* Reading the flash: the slot reported as launched holds the old image.
LEMMA ReadFlashKeeps ==
    ASSUME IInv, NEW c \in Call, ReadFlashInformation(c)
    PROVE  CallInv(c)' /\ \E s \in Slot : ActiveImage(Target[c], s)'
<1> USE DEF CallInv, StepsMatchOptions, OldImageKept, StagedImageKept,
            ProgramProgress, NewImageKept, BootLoaderProgress,
            BeforeRead, Preparing, Programming, AfterSet
<1>1. UNCHANGED deviceVars /\ pc[c] = "readFlash"
  BY DEF ReadFlashInformation, Fail
<1>2. \E s \in Slot : ActiveImage(Target[c], s)'
  BY <1>1, Facts DEF deviceVars, ActiveImage, Complete
<1>3. CASE \E st : Leave(c, st)
  BY <1>2, <1>3, Facts, LeaveInv
<1>4. CASE /\ seen' = [seen EXCEPT ![c] = launched[Target[c]]]
           /\ GoTo(c, "open")
           /\ UNCHANGED <<opts, bin, next, stat, deviceVars>>
  <2>1. /\ pc'[c] = "open" /\ opts'[c] = opts[c] /\ bin'[c] = bin[c]
        /\ seen'[c] = launched[Target[c]] /\ next'[c] = next[c]
    BY <1>4, Facts DEF GoTo, TypeOK
  <2> QED BY <1>1, <1>2, <2>1, Facts DEF deviceVars, ActiveImage, Complete
<1> QED BY <1>3, <1>4 DEF ReadFlashInformation, Fail

\* Parsing the table of the BIN file, with the reset of a failure.
LEMMA ParseTableKeeps ==
    ASSUME IInv, NEW c \in Call, ParseFWTable(c)
    PROVE  CallInv(c)' /\ \E s \in Slot : ActiveImage(Target[c], s)'
<1> USE DEF CallInv, StepsMatchOptions, OldImageKept, StagedImageKept,
            ProgramProgress, NewImageKept, BootLoaderProgress,
            BeforeRead, Preparing, Programming, AfterSet
<1>1. UNCHANGED <<fw, intact, activeByte, bootLoader>>
  BY Facts, RebootLaunches DEF ParseFWTable, Fail, deviceVars
<1>2. \E s \in Slot : ActiveImage(Target[c], s)'
  BY <1>1, Facts DEF ActiveImage, Complete
<1>3. CASE \E st : Leave(c, st)
  BY <1>2, <1>3, Facts, LeaveInv
<1>4. CASE Advance(c, AfterParseTable(opts[c]))
  <2>1. /\ pc'[c] = AfterParseTable(opts[c]) /\ opts'[c] = opts[c] /\ bin'[c] = bin[c]
        /\ seen'[c] = seen[c] /\ next'[c] = next[c] /\ pc[c] = "parseTable"
    BY <1>4, Facts, AdvanceRegisters DEF ParseFWTable
  <2> QED BY <1>1, <1>2, <2>1, Facts
          DEF AfterParseTable, AfterProgram, AfterSetActive, AfterUpdate,
              ActiveImage, Complete
<1> QED BY <1>3, <1>4 DEF ParseFWTable, Fail

\* Erasing the slot to program: the old image, in the other slot, stays.
LEMMA EraseInactiveKeeps ==
    ASSUME IInv, NEW c \in Call, EraseInactive(c)
    PROVE  CallInv(c)' /\ \E s \in Slot : ActiveImage(Target[c], s)'
<1> DEFINE d == Target[c]
<1>s. PICK s \in Slot : s = seen[c]
  BY Facts
<1>t. PICK t \in Slot : t = Other(s) /\ t # s
  BY OtherType
<1>1. pc[c] = "erase" /\ ActiveImage(d, s) /\ Upgrades(opts[c]) /\ next[c] = 1
  BY Facts, <1>s DEF EraseInactive, CallInv, StepsMatchOptions, OldImageKept,
     ProgramProgress, Programming
<1>2. intact'[d][s] = intact[d][s] /\ activeByte'[d][s] = activeByte[d][s]
  <2>1. EraseSlot(d, t) \/ TornErase(d, t)
    BY <1>s, <1>t DEF EraseInactive
  <2> QED BY <2>1, <1>t, Facts, EraseOthers
<1>3. ActiveImage(d, s)'
  BY <1>1, <1>2 DEF ActiveImage, Complete
<1>4. CASE Leave(c, "FAILURE")
  BY <1>3, <1>4, Facts, LeaveInv
<1>5. CASE EraseSlot(d, t) /\ Advance(c, "updateBlocks")
  <2>1. /\ pc'[c] = "updateBlocks" /\ opts'[c] = opts[c] /\ bin'[c] = bin[c]
        /\ seen'[c] = s /\ next'[c] = 1
    BY <1>5, <1>1, <1>s, Facts, AdvanceRegisters
  <2>2. intact'[d][t] = {} /\ activeByte'[d][t] = 255
    BY <1>5, <1>t, Facts DEF EraseSlot, TypeOK
  <2>3. OldImageKept(c)'
    BY <1>1, <2>1, <1>3 DEF OldImageKept, Programming, BeforeRead, Preparing
  <2>4. ProgramProgress(c)'
    BY <2>1, <2>2, <1>t DEF ProgramProgress
  <2> QED
    BY <1>1, <1>3, <2>1, <2>3, <2>4, Facts DEF CallInv, StepsMatchOptions,
       StagedImageKept, NewImageKept, BootLoaderProgress,
       BeforeRead, Preparing, Programming, AfterSet
<1> QED BY <1>4, <1>5, <1>s, <1>t DEF EraseInactive

\* Programming a section: the old image stays, the new one grows by a section.
LEMMA ProgramSectionKeeps ==
    ASSUME IInv, NEW c \in Call, ProgramSection(c)
    PROVE  CallInv(c)' /\ \E s \in Slot : ActiveImage(Target[c], s)'
<1> DEFINE d == Target[c]
<1>s. PICK s \in Slot : s = seen[c]
  BY Facts
<1>t. PICK t \in Slot : t = Other(s) /\ t # s
  BY OtherType
<1>n. PICK n \in Section : n = next[c]
  BY Facts
<1>1. /\ pc[c] = "program" /\ ActiveImage(d, s) /\ Upgrades(opts[c])
      /\ intact[d][t] = 1..(n - 1) /\ activeByte[d][t] = 255
      /\ ReplacesBootLoader(opts[c]) => Activates(opts[c])
  BY Facts, <1>s, <1>t, <1>n DEF ProgramSection, CallInv, StepsMatchOptions,
     OldImageKept, ProgramProgress, Programming
<1>2. /\ UNCHANGED <<activeByte, bootLoader, mode, launched>>
      /\ intact'[d][s] = intact[d][s]
  BY Facts, <1>s, <1>t DEF ProgramSection, WriteSection, TypeOK
<1>3. ActiveImage(d, s)'
  BY <1>1, <1>2 DEF ActiveImage, Complete
<1>4. CASE Leave(c, "FAILURE")
  BY <1>3, <1>4, Facts, LeaveInv
<1>5. CASE /\ WriteSection(d, t, n, bin[c])
           /\ IF n < SectionCount
                THEN next' = [next EXCEPT ![c] = n + 1] /\ UNCHANGED pc
                ELSE GoTo(c, AfterProgram(opts[c])) /\ UNCHANGED next
           /\ UNCHANGED <<opts, bin, seen, stat>>
  <2>1. intact'[d][t] = (1..(n - 1)) \cup {n} /\ fw'[d][t] = bin[c]
    BY <1>1, <1>5, <1>t, Facts DEF WriteSection, TypeOK
  <2>2. intact'[d][t] = 1..n
    BY <2>1, SectionAssumption DEF Section
  <2>3. CASE n < SectionCount
    <3>1. /\ pc'[c] = "program" /\ opts'[c] = opts[c] /\ bin'[c] = bin[c]
          /\ seen'[c] = s /\ next'[c] = n + 1
      BY <1>1, <1>5, <2>3, <1>s, Facts DEF TypeOK
    <3>2. intact'[d][t] = 1..(next'[c] - 1)
      BY <2>2, <3>1, SectionAssumption DEF Section
    <3>3. ProgramProgress(c)'
      BY <3>1, <3>2, <1>1, <1>2, <1>t, <2>1
         DEF ProgramProgress, BeforeRead, Preparing
    <3>4. OldImageKept(c)'
      BY <1>3, <3>1 DEF OldImageKept, BeforeRead
    <3>5. StepsMatchOptions(c)' /\ StagedImageKept(c)'
      BY <1>1, <3>1
         DEF StepsMatchOptions, StagedImageKept, BeforeRead, Preparing,
             Programming, AfterSet
    <3>6. NewImageKept(c)' /\ BootLoaderProgress(c)'
      BY <3>1 DEF NewImageKept, BootLoaderProgress, AfterSet
    <3> QED BY <1>3, <3>3, <3>4, <3>5, <3>6 DEF CallInv
  <2>4. CASE ~(n < SectionCount)
    <3>1. n = SectionCount
      BY <2>4, SectionAssumption DEF Section
    <3>2. Complete(d, t)' /\ (activeByte'[d][t] # 0)
      BY <2>2, <3>1, <1>1, <1>2 DEF Complete, Section
    <3>3. /\ pc'[c] = AfterProgram(opts[c]) /\ opts'[c] = opts[c]
          /\ bin'[c] = bin[c] /\ seen'[c] = s
      BY <1>5, <2>4, <1>s, Facts DEF TypeOK, GoTo
    <3>4. \/ pc'[c] = "setActive" /\ Activates(opts[c])
          \/ pc'[c] \in {"query", "exit"} /\ ~Activates(opts[c])
      BY <3>3, <1>1 DEF AfterProgram, AfterSetActive, AfterUpdate
    <3>5. OldImageKept(c)' /\ NewImageKept(c)'
      BY <3>2, <3>3, <3>4, <1>3, <1>t, <2>1
         DEF OldImageKept, NewImageKept, BeforeRead, Preparing, Programming, AfterSet
    <3>6. StepsMatchOptions(c)' /\ StagedImageKept(c)'
      BY <1>1, <3>3, <3>4
         DEF StepsMatchOptions, StagedImageKept, BeforeRead, Preparing,
             Programming, AfterSet
    <3>7. ProgramProgress(c)' /\ BootLoaderProgress(c)'
      BY <1>1, <3>3, <3>4
         DEF ProgramProgress, BootLoaderProgress, BeforeRead, Preparing
    <3> QED BY <1>3, <3>5, <3>6, <3>7 DEF CallInv
  <2> QED BY <2>3, <2>4
<1> QED BY <1>4, <1>5, <1>s, <1>t, <1>n DEF ProgramSection

\* Setting the active byte of the new image.
LEMMA SetActiveKeeps ==
    ASSUME IInv, NEW c \in Call, SetActive(c)
    PROVE  CallInv(c)' /\ \E s \in Slot : ActiveImage(Target[c], s)'
<1> DEFINE d == Target[c]
<1>s. PICK s \in Slot : s = seen[c]
  BY Facts
<1>t. PICK t \in Slot : t = Other(s) /\ t # s
  BY OtherType
<1>1. /\ pc[c] = "setActive" /\ Activates(opts[c]) /\ ActiveImage(d, s)
      /\ Complete(d, t) /\ activeByte[d][t] # 0 /\ activeByte[d][t] \in Byte
      /\ Upgrades(opts[c]) => fw[d][t] = bin[c]
      /\ ReplacesBootLoader(opts[c]) => Upgrades(opts[c])
  BY Facts, <1>s, <1>t DEF SetActive, CallInv, StepsMatchOptions,
     OldImageKept, NewImageKept, TypeOK
<1>2. /\ UNCHANGED <<fw, intact, bootLoader, mode, launched>>
      /\ activeByte'[d][s] = activeByte[d][s]
  BY Facts, <1>s, <1>t DEF SetActive, WriteActiveByte, TypeOK
<1>3. ActiveImage(d, s)'
  BY <1>1, <1>2 DEF ActiveImage, Complete
<1>4. CASE Leave(c, "FAILURE")
  BY <1>3, <1>4, Facts, LeaveInv
<1>5. CASE WriteActiveByte(d, t, 1) /\ Advance(c, AfterSetActive(opts[c]))
  <2>1. activeByte'[d][t] = 1
    BY <1>1, <1>5, <1>t, Facts DEF WriteActiveByte, Written, TypeOK, Byte
  <2>2. ActiveImage(d, t)'
    BY <1>1, <1>2, <2>1 DEF ActiveImage, Complete
  <2>3. /\ pc'[c] = AfterSetActive(opts[c]) /\ opts'[c] = opts[c]
        /\ bin'[c] = bin[c] /\ seen'[c] = s
    BY <1>5, <1>s, Facts, AdvanceRegisters
  <2>4. \/ pc'[c] = "eraseBoot" /\ ReplacesBootLoader(opts[c])
        \/ pc'[c] = "clearActive" /\ ~ReplacesBootLoader(opts[c])
    BY <2>3, <1>1 DEF AfterSetActive
  <2>5. NewImageKept(c)'
    BY <1>1, <1>2, <1>t, <2>2, <2>3, <2>4 DEF NewImageKept, AfterSet
  <2> QED
    BY <1>1, <1>3, <2>3, <2>4, <2>5, Facts DEF CallInv, StepsMatchOptions,
       OldImageKept, StagedImageKept, ProgramProgress, BootLoaderProgress,
       BeforeRead, Preparing, Programming, AfterSet
<1> QED BY <1>4, <1>5, <1>s, <1>t DEF SetActive

\* Replacing the boot loader: the new image is active all along.
LEMMA EraseBootLoaderKeeps ==
    ASSUME IInv, NEW c \in Call, EraseBootLoader(c)
    PROVE  CallInv(c)' /\ \E s \in Slot : ActiveImage(Target[c], s)'
<1> DEFINE d == Target[c]
<1>s. PICK s \in Slot : s = seen[c]
  BY Facts
<1>t. PICK t \in Slot : t = Other(s) /\ t # s
  BY OtherType
<1>1. /\ pc[c] = "eraseBoot" /\ Activates(opts[c]) /\ ReplacesBootLoader(opts[c])
      /\ Upgrades(opts[c]) /\ ActiveImage(d, t) /\ fw[d][t] = bin[c]
  BY Facts, <1>s, <1>t DEF EraseBootLoader, CallInv, StepsMatchOptions, NewImageKept,
     BootLoaderProgress, AfterSet
<1>2. UNCHANGED <<fw, intact, activeByte, mode, launched>>
  BY DEF EraseBootLoader
<1>3. ActiveImage(d, t)'
  BY <1>1, <1>2 DEF ActiveImage, Complete
<1>4. CASE Leave(c, "FAILURE")
  BY <1>3, <1>4, Facts, LeaveInv
<1>5. CASE bootLoader' = [bootLoader EXCEPT ![d] = "erased"] /\ Advance(c, "programEBL")
  <2>1. /\ pc'[c] = "programEBL" /\ opts'[c] = opts[c]
        /\ bin'[c] = bin[c] /\ seen'[c] = s
    BY <1>5, <1>s, Facts, AdvanceRegisters
  <2>2. bootLoader'[d] = "erased"
    BY <1>5, Facts DEF TypeOK
  <2>3. NewImageKept(c)'
    BY <1>1, <1>2, <1>3, <1>t, <2>1 DEF NewImageKept, AfterSet
  <2> QED
    BY <1>1, <1>3, <2>1, <2>2, <2>3 DEF CallInv, StepsMatchOptions,
       OldImageKept, StagedImageKept, ProgramProgress, BootLoaderProgress,
       BeforeRead, Preparing, Programming, AfterSet
<1> QED BY <1>1, <1>4, <1>5 DEF EraseBootLoader, WriteBootLoader

\* ... when its table is written ...
LEMMA ProgramEBLKeeps ==
    ASSUME IInv, NEW c \in Call, ProgramEBL(c)
    PROVE  CallInv(c)' /\ \E s \in Slot : ActiveImage(Target[c], s)'
<1> DEFINE d == Target[c]
<1>s. PICK s \in Slot : s = seen[c]
  BY Facts
<1>t. PICK t \in Slot : t = Other(s) /\ t # s
  BY OtherType
<1>1. /\ pc[c] = "programEBL" /\ Activates(opts[c]) /\ ReplacesBootLoader(opts[c])
      /\ Upgrades(opts[c]) /\ ActiveImage(d, t) /\ fw[d][t] = bin[c]
      /\ bootLoader[d] = "erased"
  BY Facts, <1>s, <1>t DEF ProgramEBL, CallInv, StepsMatchOptions, NewImageKept,
     BootLoaderProgress, AfterSet
<1>2. UNCHANGED <<fw, intact, activeByte, mode, launched>>
  BY DEF ProgramEBL
<1>3. ActiveImage(d, t)'
  BY <1>1, <1>2 DEF ActiveImage, Complete
<1>4. CASE Leave(c, "FAILURE")
  BY <1>3, <1>4, Facts, LeaveInv
<1>5. CASE bootLoader' = [bootLoader EXCEPT ![d] = "header"] /\ Advance(c, "programB1")
  <2>1. /\ pc'[c] = "programB1" /\ opts'[c] = opts[c]
        /\ bin'[c] = bin[c] /\ seen'[c] = s
    BY <1>5, <1>s, Facts, AdvanceRegisters
  <2>2. bootLoader'[d] = "header"
    BY <1>5, Facts DEF TypeOK
  <2>3. NewImageKept(c)'
    BY <1>1, <1>2, <1>3, <1>t, <2>1 DEF NewImageKept, AfterSet
  <2> QED
    BY <1>1, <1>3, <2>1, <2>2, <2>3 DEF CallInv, StepsMatchOptions,
       OldImageKept, StagedImageKept, ProgramProgress, BootLoaderProgress,
       BeforeRead, Preparing, Programming, AfterSet
<1> QED BY <1>1, <1>4, <1>5 DEF ProgramEBL, WriteBootLoader

\* ... and when its code is.
LEMMA ProgramB1Keeps ==
    ASSUME IInv, NEW c \in Call, ProgramB1(c)
    PROVE  CallInv(c)' /\ \E s \in Slot : ActiveImage(Target[c], s)'
<1> DEFINE d == Target[c]
<1>s. PICK s \in Slot : s = seen[c]
  BY Facts
<1>t. PICK t \in Slot : t = Other(s) /\ t # s
  BY OtherType
<1>1. /\ pc[c] = "programB1" /\ Activates(opts[c]) /\ ReplacesBootLoader(opts[c])
      /\ Upgrades(opts[c]) /\ ActiveImage(d, t) /\ fw[d][t] = bin[c]
      /\ bootLoader[d] = "header"
  BY Facts, <1>s, <1>t DEF ProgramB1, CallInv, StepsMatchOptions, NewImageKept,
     BootLoaderProgress, AfterSet
<1>2. UNCHANGED <<fw, intact, activeByte, mode, launched>>
  BY DEF ProgramB1
<1>3. ActiveImage(d, t)'
  BY <1>1, <1>2 DEF ActiveImage, Complete
<1>4. CASE Leave(c, "FAILURE")
  BY <1>3, <1>4, Facts, LeaveInv
<1>5. CASE bootLoader' = [bootLoader EXCEPT ![d] = "current"] /\ Advance(c, "eraseActive")
  <2>1. /\ pc'[c] = "eraseActive" /\ opts'[c] = opts[c]
        /\ bin'[c] = bin[c] /\ seen'[c] = s
    BY <1>5, <1>s, Facts, AdvanceRegisters
  <2>2. bootLoader'[d] = "current"
    BY <1>5, Facts DEF TypeOK
  <2>3. NewImageKept(c)'
    BY <1>1, <1>2, <1>3, <1>t, <2>1 DEF NewImageKept, AfterSet
  <2> QED
    BY <1>1, <1>3, <2>1, <2>2, <2>3 DEF CallInv, StepsMatchOptions,
       OldImageKept, StagedImageKept, ProgramProgress, BootLoaderProgress,
       BeforeRead, Preparing, Programming, AfterSet
<1> QED BY <1>1, <1>4, <1>5 DEF ProgramB1, WriteBootLoader

\* Erasing the old image, block by block: the new one is active.
LEMMA EraseActiveKeeps ==
    ASSUME IInv, NEW c \in Call, EraseActive(c)
    PROVE  CallInv(c)' /\ \E s \in Slot : ActiveImage(Target[c], s)'
<1> DEFINE d == Target[c]
<1>s. PICK s \in Slot : s = seen[c]
  BY Facts
<1>t. PICK t \in Slot : t = Other(s) /\ t # s
  BY OtherType
<1>1. /\ pc[c] = "eraseActive" /\ Activates(opts[c]) /\ ReplacesBootLoader(opts[c])
      /\ Upgrades(opts[c]) /\ ActiveImage(d, t) /\ fw[d][t] = bin[c]
      /\ bootLoader[d] = "current"
  BY Facts, <1>s, <1>t DEF EraseActive, CallInv, StepsMatchOptions, NewImageKept,
     BootLoaderProgress, AfterSet
<1>2. UNCHANGED <<fw, bootLoader, mode, launched>>
      /\ intact'[d][t] = intact[d][t] /\ activeByte'[d][t] = activeByte[d][t]
  <2>1. EraseSlot(d, s) \/ TornErase(d, s)
    BY <1>s DEF EraseActive
  <2> QED BY <2>1, <1>t, Facts, EraseOthers DEF EraseActive
<1>3. ActiveImage(d, t)'
  BY <1>1, <1>2 DEF ActiveImage, Complete
<1>4. CASE Leave(c, "FAILURE")
  BY <1>3, <1>4, Facts, LeaveInv
<1>5. CASE UNCHANGED <<pc, Locals>>
  <2>1. /\ pc'[c] = "eraseActive" /\ opts'[c] = opts[c]
        /\ bin'[c] = bin[c] /\ seen'[c] = s
    BY <1>1, <1>5, <1>s DEF Locals
  <2>2. NewImageKept(c)'
    BY <1>1, <1>2, <1>3, <1>t, <2>1 DEF NewImageKept, AfterSet
  <2> QED
    BY <1>1, <1>2, <1>3, <2>1, <2>2 DEF CallInv, StepsMatchOptions,
       OldImageKept, StagedImageKept, ProgramProgress, BootLoaderProgress,
       BeforeRead, Preparing, Programming, AfterSet
<1>6. CASE EraseSlot(d, s) /\ Advance(c, AfterUpdate(opts[c]))
  <2>1. /\ pc'[c] \in {"query", "exit"} /\ opts'[c] = opts[c]
        /\ bin'[c] = bin[c] /\ seen'[c] = s
    BY <1>6, <1>s, Facts, AdvanceRegisters DEF AfterUpdate
  <2>2. activeByte'[d][s] = 255
    BY <1>6, Facts DEF EraseSlot, TypeOK
  <2>3. ~ActiveImage(d, s)'
    BY <2>2 DEF ActiveImage
  <2>4. NewImageKept(c)'
    BY <1>1, <1>2, <1>3, <1>t, <2>1, <2>3 DEF NewImageKept, AfterSet
  <2> QED
    BY <1>1, <1>2, <1>3, <2>1, <2>4 DEF CallInv, StepsMatchOptions,
       OldImageKept, StagedImageKept, ProgramProgress, BootLoaderProgress,
       BeforeRead, Preparing, Programming, AfterSet
<1> QED BY <1>4, <1>5, <1>6, <1>s DEF EraseActive

\* Clearing the active byte of the old image: the new one is active.
LEMMA ClearActiveKeeps ==
    ASSUME IInv, NEW c \in Call, ClearActive(c)
    PROVE  CallInv(c)' /\ \E s \in Slot : ActiveImage(Target[c], s)'
<1> DEFINE d == Target[c]
<1>s. PICK s \in Slot : s = seen[c]
  BY Facts
<1>t. PICK t \in Slot : t = Other(s) /\ t # s
  BY OtherType
<1>1. /\ pc[c] = "clearActive" /\ Activates(opts[c]) /\ ~ReplacesBootLoader(opts[c])
      /\ ActiveImage(d, t)
      /\ Upgrades(opts[c]) => fw[d][t] = bin[c]
      /\ activeByte[d][s] \in Byte
  BY Facts, <1>s, <1>t DEF ClearActive, CallInv, StepsMatchOptions, NewImageKept,
     AfterSet, TypeOK
<1>2. UNCHANGED <<fw, intact, bootLoader, mode, launched>>
      /\ activeByte'[d][t] = activeByte[d][t]
  BY Facts, <1>s, <1>t DEF ClearActive, WriteActiveByte, TypeOK
<1>3. ActiveImage(d, t)'
  BY <1>1, <1>2 DEF ActiveImage, Complete
<1>4. CASE Leave(c, "FAILURE")
  BY <1>3, <1>4, Facts, LeaveInv
<1>5. CASE WriteActiveByte(d, s, 0) /\ Advance(c, AfterUpdate(opts[c]))
  <2>1. /\ pc'[c] \in {"query", "exit"} /\ opts'[c] = opts[c]
        /\ bin'[c] = bin[c] /\ seen'[c] = s
    BY <1>5, <1>s, Facts, AdvanceRegisters DEF AfterUpdate
  <2>2. activeByte'[d][s] = 0
    BY <1>1, <1>5, Facts DEF WriteActiveByte, Written, TypeOK, Byte
  <2>3. ~ActiveImage(d, s)'
    BY <2>2 DEF ActiveImage
  <2>4. NewImageKept(c)'
    BY <1>1, <1>2, <1>3, <1>t, <2>1, <2>3 DEF NewImageKept, AfterSet
  <2> QED
    BY <1>1, <1>2, <1>3, <2>1, <2>4 DEF CallInv, StepsMatchOptions,
       OldImageKept, StagedImageKept, ProgramProgress, BootLoaderProgress,
       BeforeRead, Preparing, Programming, AfterSet
<1> QED BY <1>4, <1>5, <1>s DEF ClearActive

\* What IInv needs of a call that starts with the options opts'[c]; MayStart
\* implies it.
WellStarted(c) ==
    LET d == Target[c]
        o == opts'[c] IN
    /\ \A x \in Call : Target[x] = d => pc[x] = "idle"
    /\ Updates(o) => ActiveImage(d, launched[d])
    /\ ReplacesBootLoader(o) => Upgrades(o) /\ Activates(o)
    /\ (Activates(o) /\ ~Upgrades(o)) => Staged(d)

\* A call that starts well satisfies its invariant.
LEMMA StartCallKeeps ==
    ASSUME IInv, NEW c \in Call, StartCall(c), WellStarted(c)
    PROVE  /\ CallInv(c)'
           /\ UNCHANGED deviceVars
           /\ \A x \in Call : Target[x] = Target[c] => pc[x] = "idle"
<1> DEFINE d == Target[c]
<1>1. PICK o \in Requests, f \in Firmware :
          /\ opts' = [opts EXCEPT ![c] = o]
          /\ bin' = [bin EXCEPT ![c] = f]
          /\ GoTo(c, FirstStep(o))
  BY DEF StartCall
<1>2. UNCHANGED <<seen, next, deviceVars>> /\ pc[c] = "idle"
  BY DEF StartCall
<1>3. /\ pc'[c] = FirstStep(o) /\ opts'[c] = o /\ next'[c] = 1
  BY <1>1, <1>2, Facts DEF GoTo, TypeOK, CallInv, ProgramProgress
<1>4. pc'[c] \in {"checkBin", "chipType"}
  BY <1>3, Labels
<1>5. /\ \A x \in Call : Target[x] = d => pc[x] = "idle"
      /\ Updates(o) => ActiveImage(d, launched[d])
      /\ ReplacesBootLoader(o) => Upgrades(o) /\ Activates(o)
      /\ (Activates(o) /\ ~Upgrades(o)) => Staged(d)
  BY <1>3 DEF WellStarted
<1>6. (Activates(o) /\ ~Upgrades(o)) =>
          \A s \in Slot : Complete(d, s) /\ activeByte[d][s] # 0
  <2>1. launched[d] \in Slot
    BY Facts DEF TypeOK
  <2> QED BY <1>5, <2>1 DEF Staged, ActiveImage, Slot, Other
<1>7. StepsMatchOptions(c)' /\ ProgramProgress(c)'
  BY <1>3, <1>4, <1>5 DEF StepsMatchOptions, ProgramProgress, Programming, AfterSet
<1>8. OldImageKept(c)' /\ StagedImageKept(c)'
  BY <1>2, <1>3, <1>4, <1>5, <1>6
     DEF OldImageKept, StagedImageKept, deviceVars, ActiveImage, Complete,
         BeforeRead, Preparing, Programming
<1>9. NewImageKept(c)' /\ BootLoaderProgress(c)'
  BY <1>4 DEF NewImageKept, BootLoaderProgress, AfterSet
<1> QED BY <1>2, <1>5, <1>7, <1>8, <1>9 DEF CallInv

\* The initial states satisfy the inductive invariant: no call is in progress.
LEMMA InitInv == Init => IInv
<1> SUFFICES ASSUME Init PROVE IInv
  OBVIOUS
<1>1. SomeActiveImage
  BY DEF Init, SomeActiveImage
<1>2. OneCallPerDevice
  BY DEF Init, OneCallPerDevice
<1>3. ASSUME NEW c \in Call PROVE CallInv(c)
  <2>1. pc[c] = "idle" /\ opts[c] = {} /\ next[c] = 1
    BY DEF Init
  <2> QED
    BY <2>1 DEF CallInv, StepsMatchOptions, OldImageKept, StagedImageKept,
       ProgramProgress, NewImageKept, BootLoaderProgress,
       BeforeRead, Preparing, Programming, AfterSet
<1> QED BY <1>1, <1>2, <1>3, InitTypes DEF IInv

\* A step of a call keeps the invariant of its own call and device.
LEMMA CallStepKeeps ==
    ASSUME IInv, NEW c \in Call, CallStep(c)
    PROVE  CallInv(c)' /\ \E s \in Slot : ActiveImage(Target[c], s)'
BY HostSteps, ReadFlashKeeps, ParseTableKeeps, EraseInactiveKeeps,
   ProgramSectionKeeps, SetActiveKeeps, EraseBootLoaderKeeps, ProgramEBLKeeps,
   ProgramB1Keeps, EraseActiveKeeps, ClearActiveKeeps
   DEF CallStep

\* No call works in an idle state.
LEMMA CallStepLive ==
    ASSUME NEW c \in Call, CallStep(c)
    PROVE  pc[c] # "idle"
BY DEF CallStep, CheckBinFile, CheckChipType, ReadFlashInformation,
       OpenConnection, EnterRemoteUpgrade, ParseFWTable, EraseInactive,
       UpdateBlocks, ProgramSection, SetActive, EraseBootLoader, ProgramEBL,
       ProgramB1, EraseActive, ClearActive, QueryDevice, Return

\* What the calls' invariants give when call c and its device have changed.
LEMMA OthersKeep ==
    ASSUME IInv, NEW c \in Call, CallInv(c)', TypeOK',
           \E s \in Slot : ActiveImage(Target[c], s)',
           \A x \in Call : x # c => SameCall(x),
           \A d \in Device : d # Target[c] => SameDevice(d),
           \A x \in Call : x # c /\ Target[x] = Target[c] => pc[x] = "idle"
    PROVE  IInv'
<1>1. ASSUME NEW x \in Call PROVE CallInv(x)'
  <2>1. CASE x = c
    BY <2>1
  <2>2. CASE x # c
    <3>1. SameDevice(Target[x]) \/ pc[x] = "idle"
      BY <2>2, TargetAssumption
    <3> QED BY <2>2, <3>1, Frame DEF IInv
  <2> QED BY <2>1, <2>2
<1>2. SomeActiveImage'
  <2>1. ASSUME NEW d \in Device, d # Target[c]
        PROVE  \E s \in Slot : ActiveImage(d, s)'
    BY <2>1 DEF IInv, SomeActiveImage, SameDevice, ActiveImage, Complete
  <2> QED BY <2>1 DEF SomeActiveImage
<1>3. OneCallPerDevice'
  BY DEF IInv, OneCallPerDevice, SameCall
<1> QED BY <1>1, <1>2, <1>3 DEF IInv

\* Disciplined callers start their calls well.
LEMMA DisciplinedStart ==
    ASSUME TypeOK, Disciplined, NEW c \in Call, StartCall(c)
    PROVE  WellStarted(c)
<1>1. PICK o \in Requests : MayStart(c, o) /\ opts' = [opts EXCEPT ![c] = o]
  BY DEF StartCall
<1>2. opts'[c] = o
  BY <1>1 DEF TypeOK
<1> QED BY <1>1, <1>2 DEF MayStart, WellStarted

\* Each kind of step keeps the inductive invariant: the start of a call, ...
LEMMA StartCallInv ==
    ASSUME IInv, NEW c \in Call, StartCall(c), WellStarted(c)
    PROVE  IInv'
<1>t. TypeOK /\ TypeOK'
  BY NextTypes DEF IInv, Next
<1>1. /\ CallInv(c)' /\ UNCHANGED deviceVars
      /\ \A x \in Call : Target[x] = Target[c] => pc[x] = "idle"
  BY StartCallKeeps
<1>2. \E s \in Slot : ActiveImage(Target[c], s)'
  BY <1>1, Facts DEF deviceVars, ActiveImage, Complete
<1>3. \A x \in Call : x # c => SameCall(x)
  BY <1>t, OnlyOwnCall
<1>4. \A d \in Device : d # Target[c] => SameDevice(d)
  BY <1>t, OnlyOwnDevice
<1> QED BY <1>t, <1>1, <1>2, <1>3, <1>4, OthersKeep

\* ... a step of a call, ...
LEMMA CallStepInv ==
    ASSUME IInv, NEW c \in Call, CallStep(c)
    PROVE  IInv'
<1>t. TypeOK /\ TypeOK'
  BY NextTypes DEF IInv, Next
<1>1. CallInv(c)' /\ \E s \in Slot : ActiveImage(Target[c], s)'
  BY CallStepKeeps
<1>2. \A x \in Call : x # c /\ Target[x] = Target[c] => pc[x] = "idle"
  BY CallStepLive DEF IInv, OneCallPerDevice
<1>3. \A x \in Call : x # c => SameCall(x)
  BY <1>t, OnlyOwnCall
<1>4. \A d \in Device : d # Target[c] => SameDevice(d)
  BY <1>t, OnlyOwnDevice
<1> QED BY <1>t, <1>1, <1>2, <1>3, <1>4, OthersKeep

\* ... the crash of a call, ...
LEMMA CrashInv ==
    ASSUME IInv, NEW c \in Call, ToolCrashes(c)
    PROVE  IInv'
<1>t. TypeOK /\ TypeOK'
  BY NextTypes DEF IInv, Next
<1>1. CallInv(c)' /\ UNCHANGED deviceVars /\ pc[c] # "idle"
  BY <1>t, LeaveInv DEF ToolCrashes, Fail
<1>2. \E s \in Slot : ActiveImage(Target[c], s)'
  BY <1>1, Facts DEF deviceVars, ActiveImage, Complete
<1>3. \A x \in Call : x # c /\ Target[x] = Target[c] => pc[x] = "idle"
  BY <1>1 DEF IInv, OneCallPerDevice
<1>4. \A x \in Call : x # c => SameCall(x)
  BY <1>t, OnlyOwnCall
<1>5. \A d \in Device : d # Target[c] => SameDevice(d)
  BY <1>t, OnlyOwnDevice
<1> QED BY <1>t, <1>1, <1>2, <1>3, <1>4, <1>5, OthersKeep

\* ... the restart of a device, ...
LEMMA RestartInv ==
    ASSUME IInv, NEW d \in Device, DeviceRestarts(d)
    PROVE  IInv'
<1>t. TypeOK /\ TypeOK'
  BY NextTypes DEF IInv, Next
<1>1. \A x \in Call : SameCall(x)
  BY DEF DeviceRestarts, callVars, SameCall
<1>2. \A x \in Call : CallInv(x)'
  BY <1>1, RebootKeeps DEF DeviceRestarts
<1>3. SomeActiveImage' /\ OneCallPerDevice'
  BY RebootLaunches DEF DeviceRestarts, callVars, IInv, SomeActiveImage,
     OneCallPerDevice, ActiveImage, Complete
<1> QED BY <1>t, <1>2, <1>3 DEF IInv

\* ... and a step of anything else.
LEMMA StutterInv ==
    ASSUME IInv, UNCHANGED vars
    PROVE  IInv'
<1>t. TypeOK /\ TypeOK'
  BY NextTypes DEF IInv
<1>1. SomeActiveImage' /\ OneCallPerDevice'
  BY DEF vars, IInv, SomeActiveImage, OneCallPerDevice, ActiveImage, Complete
<1>2. ASSUME NEW x \in Call PROVE CallInv(x)'
  <2>1. SameCall(x) /\ SameDevice(Target[x]) /\ CallInv(x)
    BY DEF vars, SameCall, SameDevice, IInv
  <2> QED BY <2>1, Frame
<1> QED BY <1>t, <1>1, <1>2 DEF IInv

-----------------------------------------------------------------------------
(* The safety theorems. *)

\* The inductive invariant holds throughout, for disciplined callers.
THEOREM InvariantHolds ==
    ASSUME Disciplined
    PROVE  Spec => []IInv
<1>1. Init => IInv
  BY InitInv
<1>2. IInv /\ [Next]_vars => IInv'
  BY StartCallInv, DisciplinedStart, CallStepInv, CrashInv, RestartInv, StutterInv
     DEF IInv, Next
<1> QED BY <1>1, <1>2, PTL DEF Spec

\* Whatever fails during the calls of disciplined callers, every device keeps
\* a complete and active image.
THEOREM NeverWithoutImage ==
    ASSUME Disciplined
    PROVE  Spec => []SomeActiveImage
<1>1. IInv => SomeActiveImage
  BY DEF IInv
<1> QED BY <1>1, InvariantHolds, PTL

\* Ghn_Upgrade_Firmware replaces the boot loader only while the image it has
\* just programmed is the active one.
THEOREM NewImageBeforeBootLoader ==
    ASSUME Disciplined
    PROVE  Spec => []BootLoaderWindow
<1>1. IInv => BootLoaderWindow
  <2> SUFFICES ASSUME IInv, NEW c \in Call,
                      pc[c] \in {"programEBL", "programB1", "eraseActive"}
               PROVE  /\ ActiveImage(Target[c], Other(seen[c]))
                      /\ fw[Target[c]][Other(seen[c])] = bin[c]
    BY DEF BootLoaderWindow
  <2>1. pc[c] \in AfterSet /\ pc[c] # "clearActive" /\ pc[c] # "idle"
    BY DEF AfterSet
  <2>2. StepsMatchOptions(c) /\ NewImageKept(c)
    BY DEF IInv, CallInv
  <2>3. Upgrades(opts[c])
    BY <2>1, <2>2 DEF StepsMatchOptions
  <2> QED BY <2>1, <2>2, <2>3 DEF NewImageKept
<1> QED BY <1>1, InvariantHolds, PTL

\* A call that returns success has switched the device to the new image.
THEOREM SuccessIsInstalled ==
    ASSUME Disciplined
    PROVE  Spec => []SuccessMeansInstalled
<1>1. IInv => SuccessMeansInstalled
  <2> SUFFICES ASSUME IInv, NEW c \in Call, pc[c] = "exit", Activates(opts[c])
               PROVE  /\ ActiveImage(Target[c], Other(seen[c]))
                      /\ ~ActiveImage(Target[c], seen[c])
                      /\ Upgrades(opts[c]) => fw[Target[c]][Other(seen[c])] = bin[c]
                      /\ ReplacesBootLoader(opts[c]) =>
                             bootLoader[Target[c]] = "current"
    BY DEF SuccessMeansInstalled
  <2>1. NewImageKept(c) /\ BootLoaderProgress(c)
    BY DEF IInv, CallInv
  <2> QED BY <2>1 DEF NewImageKept, BootLoaderProgress
<1> QED BY <1>1, InvariantHolds, PTL

\* Of all the steps, only one sets an active byte to 1.
LEMMA OnlySetActivates ==
    ASSUME TypeOK, [Next]_vars, NEW d \in Device, NEW s \in Slot,
           activeByte[d][s] # 1, activeByte'[d][s] = 1
    PROVE  \E c \in Call : /\ SetActive(c) /\ pc[c] = "setActive"
                           /\ d = Target[c] /\ s = Other(seen[c])
<1>1. ASSUME NEW e \in Device, NEW t \in Slot,
             EraseSlot(e, t) \/ TornErase(e, t) \/ WriteActiveByte(e, t, 0)
      PROVE  FALSE
  <2>1. CASE EraseSlot(e, t)
    BY <2>1 DEF EraseSlot, TypeOK
  <2>2. CASE TornErase(e, t)
    <3>1. PICK b \in {activeByte[e][t], 255} :
              activeByte' = [activeByte EXCEPT ![e][t] = b]
      BY <2>2 DEF TornErase
    <3> QED BY <3>1 DEF TypeOK
  <2>3. CASE WriteActiveByte(e, t, 0)
    BY <2>3 DEF WriteActiveByte, Written, TypeOK, Byte
  <2> QED BY <1>1, <2>1, <2>2, <2>3
<1>2. activeByte' # activeByte
  OBVIOUS
<1>3. ASSUME NEW c \in Call, CallStep(c)
      PROVE  /\ SetActive(c) /\ pc[c] = "setActive"
             /\ d = Target[c] /\ s = Other(seen[c])
  <2>1. Target[c] \in Device /\ seen[c] \in Slot /\ Other(seen[c]) \in Slot
    BY TargetAssumption, OtherType DEF TypeOK
  <2>2. ~EraseInactive(c) /\ ~EraseActive(c) /\ ~ClearActive(c)
    BY <1>1, <1>2, <2>1 DEF EraseInactive, EraseActive, ClearActive
  <2>3. ~ParseFWTable(c)
    BY <1>2 DEF ParseFWTable, Fail, deviceVars, Reboot
  <2>4. SetActive(c)
    BY <1>2, <1>3, <2>2, <2>3
       DEF CallStep, CheckBinFile, CheckChipType, ReadFlashInformation,
           OpenConnection, EnterRemoteUpgrade, UpdateBlocks, ProgramSection,
           EraseBootLoader, ProgramEBL, ProgramB1, QueryDevice, Return, Fail,
           deviceVars
  <2>5. pc[c] = "setActive" /\ WriteActiveByte(Target[c], Other(seen[c]), 1)
    BY <1>2, <2>4 DEF SetActive
  <2> QED BY <2>1, <2>4, <2>5 DEF WriteActiveByte, TypeOK
<1>4. ASSUME NEW c \in Call, StartCall(c) \/ ToolCrashes(c) PROVE FALSE
  BY <1>2, <1>4 DEF StartCall, ToolCrashes, Fail, deviceVars
<1>5. ASSUME NEW e \in Device, DeviceRestarts(e) PROVE FALSE
  BY <1>2, <1>5 DEF DeviceRestarts, Reboot
<1>6. ~UNCHANGED vars
  BY <1>2 DEF vars
<1> QED BY <1>3, <1>4, <1>5, <1>6 DEF Next

\* The active byte of an image is written only over a complete image.
THEOREM OnlyCompleteActivated ==
    ASSUME Disciplined
    PROVE  Spec => OnlyCompleteImagesActivated
<1>1. ASSUME IInv, [Next]_vars, NEW d \in Device, NEW s \in Slot,
             activeByte[d][s] # 1, activeByte'[d][s] = 1
      PROVE  Complete(d, s)
  <2>1. PICK c \in Call : pc[c] = "setActive" /\ d = Target[c] /\ s = Other(seen[c])
    BY <1>1, OnlySetActivates DEF IInv
  <2>2. NewImageKept(c)
    BY <1>1 DEF IInv, CallInv
  <2> QED BY <2>1, <2>2 DEF NewImageKept
<1>2. IInv /\ [Next]_vars =>
        [\A d \in Device, s \in Slot :
            activeByte[d][s] # 1 /\ activeByte'[d][s] = 1 => Complete(d, s)]_vars
  BY <1>1
<1> QED BY <1>2, InvariantHolds, PTL DEF Spec, OnlyCompleteImagesActivated

-----------------------------------------------------------------------------
(* Every behaviour of the calls is one of the abstract A/B update. *)

Bootable == [d \in Device |-> BootableImages(d)]

\* What a device can be started from are images of the abstract specification.
LEMMA BootableTypes ==
    ASSUME TypeOK
    PROVE  Bootable \in [Device -> SUBSET (Slot \X Firmware)]
BY DEF Bootable, BootableImages, TypeOK

\* Membership in BootableImages, now and after a step.
LEMMA BootableMembers ==
    ASSUME NEW d \in Device
    PROVE  /\ \A s \in Slot : \A f : <<s, f>> \in Bootable[d]
                                 <=> ActiveImage(d, s) /\ f = fw[d][s]
           /\ \A s \in Slot : \A f : <<s, f>> \in Bootable'[d]
                                 <=> ActiveImage(d, s)' /\ f = fw'[d][s]
           /\ \A i \in Bootable[d] : i = <<i[1], i[2]>> /\ i[1] \in Slot
           /\ \A i \in Bootable'[d] : i = <<i[1], i[2]>> /\ i[1] \in Slot
BY DEF Bootable, BootableImages

\* A step that changes at most one slot of one device, keeps the firmware of
\* an image that stays active, and ends an active image only while the other
\* slot holds one, is a step of the A/B update.
LEMMA OneSlotStep ==
    ASSUME TypeOK, TypeOK', NEW e \in Device, NEW s \in Slot,
           \A d \in Device : d # e => SameDevice(d),
           /\ fw'[e][Other(s)] = fw[e][Other(s)]
           /\ intact'[e][Other(s)] = intact[e][Other(s)]
           /\ activeByte'[e][Other(s)] = activeByte[e][Other(s)],
           ActiveImage(e, s) /\ ActiveImage(e, s)' => fw'[e][s] = fw[e][s],
           ActiveImage(e, s) /\ ~ActiveImage(e, s)' => ActiveImage(e, Other(s))
    PROVE  AB!Next \/ UNCHANGED Bootable
<1> DEFINE o == Other(s)
           i == <<s, fw[e][s]>>
           j == <<s, fw'[e][s]>>
<1>o. o \in Slot /\ o # s /\ \A t \in Slot : t = s \/ t = o
  BY DEF Slot, Other
<1>b. /\ Bootable \in [Device -> SUBSET (Slot \X Firmware)]
      /\ Bootable' \in [Device -> SUBSET (Slot \X Firmware)]
  <2>1. Bootable \in [Device -> SUBSET (Slot \X Firmware)]
    BY BootableTypes
  <2>2. Bootable' \in [Device -> SUBSET (Slot \X Firmware)]
    BY DEF Bootable, BootableImages, TypeOK
  <2> QED BY <2>1, <2>2
<1>1. ASSUME NEW d \in Device, d # e PROVE Bootable'[d] = Bootable[d]
  BY <1>1 DEF Bootable, BootableImages, SameDevice, ActiveImage, Complete
<1>2. ActiveImage(e, o)' <=> ActiveImage(e, o)
  BY DEF ActiveImage, Complete
<1>3. \A f : <<o, f>> \in Bootable'[e] <=> <<o, f>> \in Bootable[e]
  BY <1>2, <1>o, BootableMembers
<1>4. CASE ActiveImage(e, s)' <=> ActiveImage(e, s)
  <2>1. \A f : <<s, f>> \in Bootable'[e] <=> <<s, f>> \in Bootable[e]
    BY <1>4, BootableMembers
  <2>2. ASSUME NEW x \in Slot \X Firmware
        PROVE  x \in Bootable'[e] <=> x \in Bootable[e]
    <3>1. PICK t \in Slot, f \in Firmware : x = <<t, f>>
      OBVIOUS
    <3> QED BY <3>1, <1>3, <1>o, <2>1
  <2>3. Bootable'[e] = Bootable[e]
    BY <2>2, <1>b
  <2>4. \A d \in Device : Bootable'[d] = Bootable[d]
    BY <1>1, <2>3
  <2> QED BY <2>4, <1>b
<1>5. CASE ActiveImage(e, s)' /\ ~ActiveImage(e, s)
  <2>1. j \in Bootable'[e] /\ j \in Slot \X Firmware /\ j \notin Bootable[e]
    BY <1>5, BootableMembers DEF TypeOK
  <2>2. ASSUME NEW x \in Slot \X Firmware
        PROVE  x \in Bootable'[e] <=> x \in Bootable[e] \cup {j}
    <3>1. PICK t \in Slot, f \in Firmware : x = <<t, f>>
      OBVIOUS
    <3>2. CASE t = s
      BY <3>1, <3>2, <1>5, BootableMembers
    <3>3. CASE t = o
      BY <3>1, <3>3, <1>3, <1>o
    <3> QED BY <3>2, <3>3, <1>o
  <2>3. Bootable'[e] = Bootable[e] \cup {j}
    BY <2>1, <2>2, <1>b
  <2>4. Bootable' = [Bootable EXCEPT ![e] = @ \cup {j}]
    BY <2>3, <1>1, <1>b
  <2>5. AB!Promote(e)
    BY <2>1, <2>4 DEF AB!Promote, Bootable
  <2> QED BY <2>5 DEF AB!Next
<1>6. CASE ActiveImage(e, s) /\ ~ActiveImage(e, s)'
  <2>1. i \in Bootable[e] /\ <<o, fw[e][o]>> \in Bootable[e]
    BY <1>6, <1>o, BootableMembers
  <2>2. ASSUME NEW x \in Slot \X Firmware
        PROVE  x \in Bootable'[e] <=> x \in Bootable[e] \ {i}
    <3>1. PICK t \in Slot, f \in Firmware : x = <<t, f>>
      OBVIOUS
    <3>2. CASE t = s
      BY <3>1, <3>2, <1>6, BootableMembers
    <3>3. CASE t = o
      BY <3>1, <3>3, <1>3, <1>o
    <3> QED BY <3>2, <3>3, <1>o
  <2>3. Bootable'[e] = Bootable[e] \ {i}
    BY <2>2, <1>b
  <2>4. Bootable' = [Bootable EXCEPT ![e] = @ \ {i}]
    BY <2>3, <1>1, <1>b
  <2>5. Bootable[e] # {i}
    BY <2>1, <1>o
  <2>6. AB!Retire(e)
    BY <2>1, <2>4, <2>5 DEF AB!Retire, Bootable
  <2> QED BY <2>6 DEF AB!Next
<1> QED BY <1>4, <1>5, <1>6

\* A step that leaves the images of the devices alone stutters.
LEMMA SameImages ==
    ASSUME UNCHANGED <<fw, intact, activeByte>>
    PROVE  UNCHANGED Bootable
BY DEF Bootable, BootableImages, ActiveImage, Complete

\* Every step of a call is a step of the A/B update.
LEMMA CallStepMaps ==
    ASSUME IInv, TypeOK', NEW c \in Call, CallStep(c)
    PROVE  AB!Next \/ UNCHANGED Bootable
<1>r. PICK d \in Device, s \in Slot, o \in Slot :
          /\ d = Target[c] /\ s = seen[c] /\ o = Other(seen[c])
          /\ o # s /\ Other(o) = s /\ Other(s) = o
  BY TargetAssumption, OtherType DEF IInv, TypeOK
<1>t. TypeOK /\ CallInv(c) /\ \A e \in Device : e # d => SameDevice(e)
  BY <1>r, OnlyOwnDevice DEF IInv
<1>1. CASE EraseInactive(c)
  <2>1. ActiveImage(d, s)
    BY <1>1, <1>r, <1>t DEF EraseInactive, CallInv, StepsMatchOptions, OldImageKept,
       Programming
  <2>2. /\ UNCHANGED fw
        /\ intact'[d][s] = intact[d][s] /\ activeByte'[d][s] = activeByte[d][s]
    <3>1. CASE EraseSlot(d, o)
      BY <1>1, <1>r, <1>t, <3>1 DEF EraseInactive, EraseSlot, TypeOK
    <3>2. CASE TornErase(d, o)
      <4>1. PICK kept, b : /\ intact' = [intact EXCEPT ![d][o] = kept]
                           /\ activeByte' = [activeByte EXCEPT ![d][o] = b]
        BY <3>2 DEF TornErase
      <4>2. UNCHANGED fw
        BY <1>1 DEF EraseInactive
      <4> QED BY <1>r, <1>t, <4>1, <4>2 DEF TypeOK
    <3> QED BY <1>1, <1>r, <3>1, <3>2 DEF EraseInactive
  <2> QED BY <1>r, <1>t, <2>1, <2>2, OneSlotStep
<1>2. CASE ProgramSection(c)
  <2>1. activeByte[d][o] = 255 /\ UNCHANGED activeByte
    BY <1>2, <1>r, <1>t DEF ProgramSection, CallInv, ProgramProgress
  <2>2. fw'[d][s] = fw[d][s] /\ intact'[d][s] = intact[d][s]
    BY <1>2, <1>r, <1>t DEF ProgramSection, WriteSection, TypeOK
  <2>3. ~ActiveImage(d, o) /\ ~ActiveImage(d, o)'
    BY <2>1 DEF ActiveImage
  <2> QED BY <1>r, <1>t, <2>1, <2>2, <2>3, OneSlotStep
<1>3. CASE SetActive(c)
  <2>1. /\ UNCHANGED <<fw, intact>>
        /\ activeByte'[d][s] = activeByte[d][s]
        /\ activeByte[d][o] = 1 => activeByte'[d][o] = 1
    BY <1>3, <1>r, <1>t DEF SetActive, WriteActiveByte, Written, TypeOK
  <2>2. ActiveImage(d, o) => ActiveImage(d, o)'
    BY <2>1 DEF ActiveImage, Complete
  <2> QED BY <1>r, <1>t, <2>1, <2>2, OneSlotStep
<1>4. CASE EraseActive(c)
  <2>1. ActiveImage(d, o)
    BY <1>4, <1>r, <1>t DEF EraseActive, CallInv, NewImageKept, AfterSet
  <2>2. /\ UNCHANGED fw
        /\ intact'[d][o] = intact[d][o] /\ activeByte'[d][o] = activeByte[d][o]
    <3>1. CASE EraseSlot(d, s)
      BY <1>4, <1>r, <1>t, <3>1 DEF EraseActive, EraseSlot, TypeOK
    <3>2. CASE TornErase(d, s)
      <4>1. PICK kept, b : /\ intact' = [intact EXCEPT ![d][s] = kept]
                           /\ activeByte' = [activeByte EXCEPT ![d][s] = b]
        BY <3>2 DEF TornErase
      <4>2. UNCHANGED fw
        BY <1>4 DEF EraseActive
      <4> QED BY <1>r, <1>t, <4>1, <4>2 DEF TypeOK
    <3> QED BY <1>4, <1>r, <3>1, <3>2 DEF EraseActive
  <2> QED BY <1>r, <1>t, <2>1, <2>2, OneSlotStep
<1>5. CASE ClearActive(c)
  <2>1. ActiveImage(d, o)
    BY <1>5, <1>r, <1>t DEF ClearActive, CallInv, NewImageKept, AfterSet
  <2>2. UNCHANGED <<fw, intact>> /\ activeByte'[d][o] = activeByte[d][o]
    BY <1>5, <1>r, <1>t DEF ClearActive, WriteActiveByte, TypeOK
  <2> QED BY <1>r, <1>t, <2>1, <2>2, OneSlotStep
<1>6. CASE UNCHANGED <<fw, intact, activeByte>>
  BY <1>6, SameImages
<1>7. CASE ~(EraseInactive(c) \/ ProgramSection(c) \/ SetActive(c)
             \/ EraseActive(c) \/ ClearActive(c))
  BY <1>6, <1>7
     DEF CallStep, CheckBinFile, CheckChipType, ReadFlashInformation,
         OpenConnection, EnterRemoteUpgrade, ParseFWTable, UpdateBlocks,
         EraseBootLoader, ProgramEBL, ProgramB1, QueryDevice, Return, Fail,
         Reboot, deviceVars
<1> QED BY <1>1, <1>2, <1>3, <1>4, <1>5, <1>7

\* For disciplined callers, Ghn_Upgrade_Firmware implements the A/B update:
\* through every failure the images a device can be started from change one
\* at a time, and never the last one goes.
THEOREM Implementation ==
    ASSUME Disciplined
    PROVE  Spec => ImplementsABUpdate
<1>1. Init => AB!Init
  <2> SUFFICES ASSUME Init PROVE AB!Init
    OBVIOUS
  <2>1. TypeOK /\ SomeActiveImage
    BY InitInv DEF IInv
  <2>2. AB!TypeOK
    BY <2>1, BootableTypes DEF AB!TypeOK, Bootable
  <2>3. \A d \in Device : Bootable[d] # {}
    BY <2>1, BootableMembers DEF SomeActiveImage
  <2> QED BY <2>2, <2>3 DEF AB!Init, Bootable
<1>2. ASSUME IInv, [Next]_vars PROVE AB!Next \/ UNCHANGED Bootable
  <2>t. TypeOK'
    BY <1>2, NextTypes DEF IInv
  <2>1. ASSUME NEW c \in Call, CallStep(c) PROVE AB!Next \/ UNCHANGED Bootable
    BY <1>2, <2>t, <2>1, CallStepMaps
  <2>2. ASSUME NEW c \in Call, StartCall(c) \/ ToolCrashes(c)
        PROVE  UNCHANGED Bootable
    BY <2>2, SameImages DEF StartCall, ToolCrashes, Fail, deviceVars
  <2>3. ASSUME NEW d \in Device, DeviceRestarts(d) PROVE UNCHANGED Bootable
    BY <2>3, SameImages DEF DeviceRestarts, Reboot
  <2>4. CASE UNCHANGED vars
    BY <2>4, SameImages DEF vars
  <2> QED BY <1>2, <2>1, <2>2, <2>3, <2>4 DEF Next
<1>3. IInv /\ [Next]_vars => [AB!Next]_Bootable
  BY <1>2
<1> QED BY <1>1, <1>3, InvariantHolds, PTL
       DEF Spec, ImplementsABUpdate, AB!Spec, Bootable

-----------------------------------------------------------------------------
(* Without option -B the boot loader stays as it is. *)

BootSteps == {"eraseBoot", "programEBL", "programB1"}

NoBootLoaderCall(c) == ~ReplacesBootLoader(opts[c]) /\ pc[c] \notin BootSteps

BootLoaderUntouched ==
    /\ TypeOK
    /\ \A c \in Call : NoBootLoaderCall(c)
    /\ \A d \in Device : BootLoaderIntact(d)

\* A call without option -B is never sent to the steps of the boot loader.
LEMMA OrdinaryLabels ==
    ASSUME NEW o, ~ReplacesBootLoader(o)
    PROVE  {AfterUpdate(o), AfterSetActive(o), AfterProgram(o), AfterParseTable(o),
            AfterEnter(o), AfterOpen(o), AfterChipType(o), FirstStep(o)}
               \cap BootSteps = {}
BY DEF AfterUpdate, AfterSetActive, AfterProgram, AfterParseTable, AfterEnter,
       AfterOpen, AfterChipType, FirstStep, BootSteps

\* A step of a call without -B keeps the boot loader, and the call without -B.
LEMMA OrdinaryStep ==
    ASSUME BootLoaderUntouched, NEW c \in Call, CallStep(c)
    PROVE  UNCHANGED bootLoader /\ NoBootLoaderCall(c)'
<1>1. /\ TypeOK /\ pc \in [Call -> Step] /\ opts \in [Call -> SUBSET Option]
      /\ ~ReplacesBootLoader(opts[c]) /\ pc[c] \notin BootSteps
  BY DEF BootLoaderUntouched, NoBootLoaderCall, TypeOK
<1>2. ~EraseBootLoader(c) /\ ~ProgramEBL(c) /\ ~ProgramB1(c)
  BY <1>1 DEF BootSteps, EraseBootLoader, ProgramEBL, ProgramB1
<1>3. ASSUME NEW st, Leave(c, st) PROVE NoBootLoaderCall(c)'
  BY <1>1, <1>3 DEF Leave, GoTo, NoBootLoaderCall, BootSteps
<1>4. ASSUME NEW l, l \notin BootSteps, GoTo(c, l), UNCHANGED opts
      PROVE  NoBootLoaderCall(c)'
  BY <1>1, <1>4 DEF GoTo, NoBootLoaderCall
<1>5. ASSUME NEW l, l \notin BootSteps, Advance(c, l) PROVE NoBootLoaderCall(c)'
  BY <1>4, <1>5 DEF Advance, Locals
<1>6. ASSUME UNCHANGED <<pc, opts>> PROVE NoBootLoaderCall(c)'
  BY <1>1, <1>6 DEF NoBootLoaderCall
<1>7. {"checkBin", "chipType", "readFlash", "open", "updateBlocks", "program",
       "exit"} \cap BootSteps = {}
  BY DEF BootSteps
<1>8. CASE CheckBinFile(c) \/ CheckChipType(c) \/ ReadFlashInformation(c)
           \/ OpenConnection(c) \/ EnterRemoteUpgrade(c)
  <2>1. UNCHANGED bootLoader
    BY <1>8 DEF CheckBinFile, CheckChipType, ReadFlashInformation,
       OpenConnection, EnterRemoteUpgrade, Fail, deviceVars
  <2>2. \/ \E st : Leave(c, st)
        \/ \E l : l \notin BootSteps /\ Advance(c, l)
        \/ \E l : l \notin BootSteps /\ GoTo(c, l) /\ UNCHANGED opts
    BY <1>1, <1>7, <1>8, OrdinaryLabels
       DEF CheckBinFile, CheckChipType, ReadFlashInformation, OpenConnection,
           EnterRemoteUpgrade, Fail
  <2> QED BY <2>1, <2>2, <1>3, <1>4, <1>5
<1>9. CASE ParseFWTable(c) \/ EraseInactive(c) \/ UpdateBlocks(c) \/ ProgramSection(c)
  <2>1. UNCHANGED bootLoader
    BY <1>9 DEF ParseFWTable, EraseInactive, UpdateBlocks, ProgramSection, Fail,
       Reboot, deviceVars
  <2>2. \/ \E st : Leave(c, st)
        \/ \E l : l \notin BootSteps /\ Advance(c, l)
        \/ \E l : l \notin BootSteps /\ GoTo(c, l) /\ UNCHANGED opts
        \/ UNCHANGED <<pc, opts>>
    BY <1>1, <1>7, <1>9, OrdinaryLabels
       DEF ParseFWTable, EraseInactive, UpdateBlocks, ProgramSection, Fail
  <2> QED BY <2>1, <2>2, <1>3, <1>4, <1>5, <1>6
<1>10. CASE SetActive(c) \/ EraseActive(c) \/ ClearActive(c) \/ QueryDevice(c)
            \/ Return(c)
  <2>1. UNCHANGED bootLoader
    BY <1>10 DEF SetActive, EraseActive, ClearActive, QueryDevice, Return, Fail,
       deviceVars
  <2>2. \/ \E st : Leave(c, st)
        \/ \E l : l \notin BootSteps /\ Advance(c, l)
        \/ UNCHANGED <<pc, opts>>
    BY <1>1, <1>7, <1>10, OrdinaryLabels
       DEF SetActive, EraseActive, ClearActive, QueryDevice, Return, Fail, Locals
  <2> QED BY <2>1, <2>2, <1>3, <1>5, <1>6
<1> QED BY <1>2, <1>8, <1>9, <1>10 DEF CallStep

\* If no request replaces the boot loader, no boot loader is ever touched.
LEMMA BootLoaderStays ==
    ASSUME \A o \in Requests : ~ReplacesBootLoader(o),
           BootLoaderUntouched, [Next]_vars
    PROVE  BootLoaderUntouched'
<1>t. TypeOK /\ TypeOK'
  BY NextTypes DEF BootLoaderUntouched
<1>1. ASSUME NEW c \in Call, UNCHANGED bootLoader, NoBootLoaderCall(c)',
             \A x \in Call : x # c => SameCall(x)
      PROVE  BootLoaderUntouched'
  BY <1>t, <1>1 DEF BootLoaderUntouched, NoBootLoaderCall, SameCall,
     BootLoaderIntact
<1>2. ASSUME NEW c \in Call, StartCall(c) PROVE BootLoaderUntouched'
  <2>1. PICK o \in Requests : opts' = [opts EXCEPT ![c] = o]
                              /\ GoTo(c, FirstStep(o)) /\ UNCHANGED deviceVars
    BY <1>2 DEF StartCall
  <2>2. FirstStep(o) \notin BootSteps
    BY OrdinaryLabels
  <2>3. NoBootLoaderCall(c)' /\ UNCHANGED bootLoader
    BY <1>t, <2>1, <2>2 DEF NoBootLoaderCall, GoTo, TypeOK, deviceVars
  <2> QED BY <1>t, <1>1, <1>2, <2>3, OnlyOwnCall
<1>3. ASSUME NEW c \in Call, CallStep(c) PROVE BootLoaderUntouched'
  BY <1>t, <1>1, <1>3, OrdinaryStep, OnlyOwnCall
<1>4. ASSUME NEW c \in Call, ToolCrashes(c) PROVE BootLoaderUntouched'
  <2>1. NoBootLoaderCall(c)' /\ UNCHANGED bootLoader
    BY <1>t, <1>4 DEF ToolCrashes, Fail, Leave, GoTo, NoBootLoaderCall,
       BootSteps, TypeOK, deviceVars
  <2> QED BY <1>t, <1>1, <1>4, <2>1, OnlyOwnCall
<1>5. ASSUME NEW d \in Device, DeviceRestarts(d) PROVE BootLoaderUntouched'
  BY <1>t, <1>5 DEF DeviceRestarts, Reboot, callVars, BootLoaderUntouched,
     NoBootLoaderCall, BootLoaderIntact
<1>6. CASE UNCHANGED vars
  BY <1>t, <1>6 DEF vars, BootLoaderUntouched, NoBootLoaderCall, BootLoaderIntact
<1> QED BY <1>2, <1>3, <1>4, <1>5, <1>6 DEF Next

\* Disciplined callers that do not ask for a new boot loader leave every
\* device bootable, whatever fails: an intact boot loader and an active image.
THEOREM BootableThroughout ==
    ASSUME Disciplined, \A o \in Requests : ~ReplacesBootLoader(o)
    PROVE  Spec => []AlwaysBootable
<1>1. Init => BootLoaderUntouched
  <2> SUFFICES ASSUME Init PROVE BootLoaderUntouched
    OBVIOUS
  <2>1. \A c \in Call : NoBootLoaderCall(c)
    BY DEF Init, NoBootLoaderCall, BootSteps
  <2>2. \A d \in Device : BootLoaderIntact(d)
    BY DEF Init, BootLoaderIntact
  <2> QED BY <2>1, <2>2, InitTypes DEF BootLoaderUntouched
<1>2. BootLoaderUntouched /\ [Next]_vars => BootLoaderUntouched'
  BY BootLoaderStays
<1>3. BootLoaderUntouched /\ SomeActiveImage => AlwaysBootable
  BY DEF BootLoaderUntouched, SomeActiveImage, AlwaysBootable
<1> QED BY <1>1, <1>2, <1>3, NeverWithoutImage, PTL DEF Spec

=============================================================================
