--------------------------- MODULE OneDevice_proofs ---------------------------
(***************************************************************************)
(* um without -E, which upgrades and activates in one call.  Whatever the   *)
(* state of the devices, however often it is run and whichever threads      *)
(* cannot be created, its calls keep their own order: what is activated, or *)
(* found by the boot loader being replaced, has just been programmed; and   *)
(* what the tool reports is true.  A first run keeps the devices bootable   *)
(* as well.                                                                 *)
(***************************************************************************)
EXTENDS UpdateManager_proofs

USE DEF Upgrades, Activates, ReplacesBootLoader, Updates

-----------------------------------------------------------------------------
(* The steps of a call that upgrades and activates keep what it has done,   *)
(* without any assumption on the state the call found the device in.        *)

\* The registers of a call, in the words of its steps.
LEMMA Registers ==
    ASSUME TypeOK, NEW c \in Call
    PROVE  /\ Target[c] \in Device
           /\ seen[c] \in Slot /\ Other(seen[c]) \in Slot /\ Other(seen[c]) # seen[c]
           /\ next[c] \in Section
BY TargetAssumption, OtherType DEF TypeOK

\* What is known of a call does not depend on other calls and devices, nor on
\* the image a device was launched from.
LEMMA KeptFrame ==
    ASSUME NEW x \in Call, CallKept(x), SameCall(x),
           \/ pc[x] = "idle"
           \/ /\ fw'[Target[x]] = fw[Target[x]]
              /\ intact'[Target[x]] = intact[Target[x]]
              /\ activeByte'[Target[x]] = activeByte[Target[x]]
              /\ bootLoader'[Target[x]] = bootLoader[Target[x]]
    PROVE  CallKept(x)'
<1>1. CASE pc[x] = "idle"
  BY <1>1 DEF CallKept, SameCall, StepsMatchOptions, ProgramProgress, NewImageKept,
     BootLoaderProgress, BeforeRead, Preparing, Programming, AfterSet
<1>2. CASE /\ fw'[Target[x]] = fw[Target[x]]
           /\ intact'[Target[x]] = intact[Target[x]]
           /\ activeByte'[Target[x]] = activeByte[Target[x]]
           /\ bootLoader'[Target[x]] = bootLoader[Target[x]]
  BY <1>2 DEF CallKept, SameCall, StepsMatchOptions, ProgramProgress, NewImageKept,
     BootLoaderProgress, ActiveImage, Complete
<1> QED BY <1>1, <1>2

\* Outside a call nothing is required of it.
LEMMA KeptIdle ==
    ASSUME NEW c \in Call, pc'[c] = "idle", opts'[c] = {}, next'[c] = 1
    PROVE  CallKept(c)'
BY DEF CallKept, StepsMatchOptions, ProgramProgress, NewImageKept,
       BootLoaderProgress, BeforeRead, Preparing, Programming, AfterSet

LEMMA KeptLeave ==
    ASSUME TypeOK, NEW c \in Call, NEW st, Leave(c, st)
    PROVE  CallKept(c)'
<1>1. pc'[c] = "idle" /\ opts'[c] = {} /\ next'[c] = 1
  BY DEF TypeOK, Leave, GoTo
<1> QED BY <1>1, KeptIdle

\* The steps that leave the devices alone.
LEMMA KeptHostSteps ==
    ASSUME TypeOK, NEW c \in Call, CallKept(c),
           \/ CheckBinFile(c) \/ CheckChipType(c) \/ ReadFlashInformation(c)
           \/ OpenConnection(c) \/ EnterRemoteUpgrade(c) \/ UpdateBlocks(c)
           \/ QueryDevice(c) \/ Return(c)
    PROVE  CallKept(c)'
<1> USE DEF CallKept, StepsMatchOptions, ProgramProgress, NewImageKept,
            BootLoaderProgress, BeforeRead, Preparing, Programming, AfterSet
<1>1. UNCHANGED deviceVars
  BY DEF CheckBinFile, CheckChipType, ReadFlashInformation, OpenConnection,
         EnterRemoteUpgrade, UpdateBlocks, QueryDevice, Return, Fail
<1>2. ASSUME NEW st, Leave(c, st) PROVE CallKept(c)'
  BY <1>2, KeptLeave
<1>3. ASSUME pc[c] = "checkBin", Advance(c, "chipType") PROVE CallKept(c)'
  BY <1>3, AdvanceRegisters
<1>4. ASSUME pc[c] = "chipType", Advance(c, AfterChipType(opts[c])) PROVE CallKept(c)'
  BY <1>4, AdvanceRegisters DEF AfterChipType
<1>5. ASSUME pc[c] = "open", Advance(c, AfterOpen(opts[c])) PROVE CallKept(c)'
  BY <1>5, AdvanceRegisters DEF AfterOpen, AfterEnter, AfterUpdate
<1>6. ASSUME pc[c] = "enter", Advance(c, AfterEnter(opts[c])) PROVE CallKept(c)'
  BY <1>6, AdvanceRegisters DEF AfterEnter, AfterUpdate
<1>7. ASSUME pc[c] = "updateBlocks", Advance(c, "program") PROVE CallKept(c)'
  <2>1. 1..(1 - 1) = {}
    OBVIOUS
  <2>2. /\ pc'[c] = "program" /\ opts'[c] = opts[c] /\ bin'[c] = bin[c]
        /\ seen'[c] = seen[c] /\ next'[c] = next[c]
    BY <1>7, AdvanceRegisters
  <2>3. /\ next[c] = 1
        /\ intact[Target[c]][Other(seen[c])] = {}
        /\ activeByte[Target[c]][Other(seen[c])] = 255
    BY <1>7
  <2>4. intact'[Target[c]][Other(seen'[c])] = 1..(next'[c] - 1)
    BY <2>1, <2>2, <2>3, <1>1 DEF deviceVars
  <2>5. activeByte'[Target[c]][Other(seen'[c])] = 255 /\ ~(next'[c] > 1)
    BY <2>2, <2>3, <1>1 DEF deviceVars
  <2> QED BY <2>2, <2>4, <2>5, <1>7
<1>8. ASSUME pc[c] = "query", Advance(c, "exit") PROVE CallKept(c)'
  BY <1>1, <1>8, AdvanceRegisters DEF deviceVars, ActiveImage, Complete
<1>9. ASSUME pc[c] = "readFlash", seen' = [seen EXCEPT ![c] = launched[Target[c]]],
             GoTo(c, "open"), UNCHANGED <<opts, bin, next, stat, deviceVars>>
      PROVE  CallKept(c)'
  <2>1. pc'[c] = "open" /\ opts'[c] = opts[c] /\ next'[c] = next[c]
    BY <1>9 DEF GoTo, TypeOK
  <2> QED BY <1>9, <2>1
<1> QED
  BY <1>2, <1>3, <1>4, <1>5, <1>6, <1>7, <1>8, <1>9
     DEF CheckBinFile, CheckChipType, ReadFlashInformation, OpenConnection,
         EnterRemoteUpgrade, UpdateBlocks, QueryDevice, Return, Fail

LEMMA KeptParseTable ==
    ASSUME TypeOK, NEW c \in Call, CallKept(c), ParseFWTable(c)
    PROVE  CallKept(c)'
<1>1. CASE \E st : Leave(c, st)
  BY <1>1, KeptLeave
<1>2. CASE Advance(c, AfterParseTable(opts[c]))
  <2>1. /\ pc'[c] = AfterParseTable(opts[c]) /\ opts'[c] = opts[c]
        /\ seen'[c] = seen[c] /\ next'[c] = next[c] /\ pc[c] = "parseTable"
    BY <1>2, AdvanceRegisters DEF ParseFWTable
  <2>2. Upgrades(opts[c]) /\ pc'[c] = "erase" /\ next[c] = 1
    BY <2>1 DEF AfterParseTable, CallKept, StepsMatchOptions, ProgramProgress, Preparing
  <2> QED
    BY <2>1, <2>2 DEF CallKept, StepsMatchOptions, ProgramProgress, NewImageKept,
       BootLoaderProgress, BeforeRead, Preparing, Programming, AfterSet
<1> QED BY <1>1, <1>2 DEF ParseFWTable, Fail

LEMMA KeptEraseInactive ==
    ASSUME TypeOK, NEW c \in Call, CallKept(c), EraseInactive(c)
    PROVE  CallKept(c)'
<1> DEFINE d == Target[c]
<1>t. PICK t \in Slot : t = Other(seen[c])
  BY Registers
<1>1. pc[c] = "erase" /\ next[c] = 1
  BY DEF EraseInactive, CallKept, ProgramProgress
<1>2. CASE Leave(c, "FAILURE")
  BY <1>2, KeptLeave
<1>3. CASE EraseSlot(d, t) /\ Advance(c, "updateBlocks")
  <2>1. /\ pc'[c] = "updateBlocks" /\ opts'[c] = opts[c]
        /\ seen'[c] = seen[c] /\ next'[c] = 1
    BY <1>3, <1>1, AdvanceRegisters
  <2>2. intact'[d][t] = {} /\ activeByte'[d][t] = 255
    BY <1>3, <1>t, Registers DEF EraseSlot, TypeOK
  <2>3. ProgramProgress(c)'
    BY <2>1, <2>2, <1>t DEF ProgramProgress
  <2> QED
    BY <1>1, <2>1, <2>3 DEF CallKept, StepsMatchOptions, NewImageKept,
       BootLoaderProgress, Programming, AfterSet
<1> QED BY <1>2, <1>3, <1>t DEF EraseInactive

LEMMA KeptProgramSection ==
    ASSUME TypeOK, NEW c \in Call, CallKept(c), ProgramSection(c)
    PROVE  CallKept(c)'
<1> DEFINE d == Target[c]
<1>t. PICK t \in Slot : t = Other(seen[c])
  BY Registers
<1>n. PICK n \in Section : n = next[c]
  BY Registers
<1>1. /\ pc[c] = "program" /\ Upgrades(opts[c]) /\ Activates(opts[c])
      /\ intact[d][t] = 1..(n - 1) /\ activeByte[d][t] = 255
  BY <1>t, <1>n DEF ProgramSection, CallKept, StepsMatchOptions, ProgramProgress,
     Programming
<1>2. UNCHANGED <<activeByte, bootLoader, mode, launched>>
  BY DEF ProgramSection
<1>3. CASE Leave(c, "FAILURE")
  BY <1>3, KeptLeave
<1>4. CASE /\ WriteSection(d, t, n, bin[c])
           /\ IF n < SectionCount
                THEN next' = [next EXCEPT ![c] = n + 1] /\ UNCHANGED pc
                ELSE GoTo(c, AfterProgram(opts[c])) /\ UNCHANGED next
           /\ UNCHANGED <<opts, bin, seen, stat>>
  <2>1. intact'[d][t] = (1..(n - 1)) \cup {n} /\ fw'[d][t] = bin[c]
    BY <1>1, <1>4, <1>t, Registers DEF WriteSection, TypeOK
  <2>2. intact'[d][t] = 1..n
    BY <2>1, SectionAssumption DEF Section
  <2>3. CASE n < SectionCount
    <3>1. /\ pc'[c] = "program" /\ opts'[c] = opts[c] /\ bin'[c] = bin[c]
          /\ seen'[c] = seen[c] /\ next'[c] = n + 1
      BY <1>1, <1>4, <2>3 DEF TypeOK
    <3>2. intact'[d][t] = 1..(next'[c] - 1)
      BY <2>2, <3>1, SectionAssumption DEF Section
    <3>3. ProgramProgress(c)'
      BY <3>1, <3>2, <1>1, <1>2, <1>t, <2>1
         DEF ProgramProgress, BeforeRead, Preparing
    <3>4. StepsMatchOptions(c)' /\ NewImageKept(c)' /\ BootLoaderProgress(c)'
      BY <1>1, <3>1 DEF StepsMatchOptions, NewImageKept, BootLoaderProgress,
         Programming, AfterSet
    <3> QED BY <1>1, <3>1, <3>3, <3>4 DEF CallKept
  <2>4. CASE ~(n < SectionCount)
    <3>1. n = SectionCount
      BY <2>4, SectionAssumption DEF Section
    <3>2. Complete(d, t)' /\ activeByte'[d][t] # 0
      BY <2>2, <3>1, <1>1, <1>2 DEF Complete, Section
    <3>3. /\ pc'[c] = "setActive" /\ opts'[c] = opts[c]
          /\ bin'[c] = bin[c] /\ seen'[c] = seen[c]
      BY <1>1, <1>4, <2>4 DEF TypeOK, GoTo, AfterProgram
    <3>4. NewImageKept(c)'
      BY <3>2, <3>3, <1>t, <2>1 DEF NewImageKept, AfterSet
    <3>5. StepsMatchOptions(c)' /\ ProgramProgress(c)' /\ BootLoaderProgress(c)'
      BY <1>1, <3>3 DEF StepsMatchOptions, ProgramProgress, BootLoaderProgress,
         BeforeRead, Preparing, Programming, AfterSet
    <3> QED BY <1>1, <3>3, <3>4, <3>5 DEF CallKept
  <2> QED BY <2>3, <2>4
<1> QED BY <1>3, <1>4, <1>t, <1>n DEF ProgramSection

LEMMA KeptSetActive ==
    ASSUME TypeOK, NEW c \in Call, CallKept(c), SetActive(c)
    PROVE  CallKept(c)'
<1> DEFINE d == Target[c]
<1>t. PICK t \in Slot : t = Other(seen[c])
  BY Registers
<1>1. /\ pc[c] = "setActive" /\ Activates(opts[c]) /\ Upgrades(opts[c])
      /\ Complete(d, t) /\ activeByte[d][t] # 0 /\ activeByte[d][t] \in Byte
      /\ fw[d][t] = bin[c]
  BY <1>t, Registers DEF SetActive, CallKept, StepsMatchOptions, NewImageKept, TypeOK
<1>2. UNCHANGED <<fw, intact, bootLoader>>
  BY DEF SetActive
<1>3. CASE Leave(c, "FAILURE")
  BY <1>3, KeptLeave
<1>4. CASE WriteActiveByte(d, t, 1) /\ Advance(c, AfterSetActive(opts[c]))
  <2>1. activeByte'[d][t] = 1
    BY <1>1, <1>4, Registers DEF WriteActiveByte, Written, TypeOK, Byte
  <2>2. ActiveImage(d, t)'
    BY <1>1, <1>2, <2>1 DEF ActiveImage, Complete
  <2>3. /\ pc'[c] = AfterSetActive(opts[c]) /\ opts'[c] = opts[c]
        /\ bin'[c] = bin[c] /\ seen'[c] = seen[c]
    BY <1>4, AdvanceRegisters
  <2>4. \/ pc'[c] = "eraseBoot" /\ ReplacesBootLoader(opts[c])
        \/ pc'[c] = "clearActive" /\ ~ReplacesBootLoader(opts[c])
    BY <2>3, <1>1 DEF AfterSetActive
  <2>5. NewImageKept(c)'
    BY <1>1, <1>2, <1>t, <2>2, <2>3, <2>4 DEF NewImageKept, AfterSet
  <2> QED
    BY <1>1, <2>3, <2>4, <2>5 DEF CallKept, StepsMatchOptions, ProgramProgress,
       BootLoaderProgress, BeforeRead, Preparing, Programming, AfterSet
<1> QED BY <1>3, <1>4, <1>t DEF SetActive

\* The three steps that replace the boot loader.
LEMMA KeptBootLoader ==
    ASSUME TypeOK, NEW c \in Call, CallKept(c),
           EraseBootLoader(c) \/ ProgramEBL(c) \/ ProgramB1(c)
    PROVE  CallKept(c)'
<1> DEFINE d == Target[c]
<1>t. PICK t \in Slot : t = Other(seen[c])
  BY Registers
<1>1. /\ pc[c] \in {"eraseBoot", "programEBL", "programB1"}
      /\ Upgrades(opts[c]) /\ Activates(opts[c]) /\ ReplacesBootLoader(opts[c])
      /\ ActiveImage(d, t) /\ fw[d][t] = bin[c]
      /\ pc[c] = "programEBL" => bootLoader[d] = "erased"
      /\ pc[c] = "programB1" => bootLoader[d] = "header"
  BY <1>t DEF EraseBootLoader, ProgramEBL, ProgramB1, CallKept, StepsMatchOptions,
     NewImageKept, BootLoaderProgress, AfterSet
<1>2. UNCHANGED <<fw, intact, activeByte>>
  BY DEF EraseBootLoader, ProgramEBL, ProgramB1
<1>3. CASE Leave(c, "FAILURE")
  BY <1>3, KeptLeave
<1>4. ASSUME NEW l, NEW b, Advance(c, l), WriteBootLoader(d, b),
             <<l, b>> \in {<<"programEBL", "erased">>, <<"programB1", "header">>,
                           <<"eraseActive", "current">>}
      PROVE  CallKept(c)'
  <2>1. /\ pc'[c] = l /\ opts'[c] = opts[c] /\ bin'[c] = bin[c] /\ seen'[c] = seen[c]
    BY <1>4, AdvanceRegisters
  <2>2. bootLoader'[d] = b
    BY <1>4, Registers DEF WriteBootLoader, TypeOK
  <2>3. \/ l = "programEBL" /\ b = "erased"
        \/ l = "programB1" /\ b = "header"
        \/ l = "eraseActive" /\ b = "current"
    BY <1>4
  <2>4. NewImageKept(c)'
    BY <1>1, <1>2, <1>t, <2>1, <2>3 DEF NewImageKept, AfterSet, ActiveImage, Complete
  <2>5. BootLoaderProgress(c)'
    BY <2>1, <2>2, <2>3 DEF BootLoaderProgress
  <2>6. StepsMatchOptions(c)' /\ ProgramProgress(c)'
    BY <1>1, <2>1, <2>3 DEF StepsMatchOptions, ProgramProgress,
       BeforeRead, Preparing, Programming, AfterSet
  <2> QED BY <1>1, <2>1, <2>4, <2>5, <2>6 DEF CallKept
<1>5. CASE EraseBootLoader(c)
  BY <1>3, <1>4, <1>5 DEF EraseBootLoader
<1>6. CASE ProgramEBL(c)
  BY <1>1, <1>3, <1>4, <1>6 DEF ProgramEBL
<1>7. CASE ProgramB1(c)
  BY <1>1, <1>3, <1>4, <1>7 DEF ProgramB1
<1> QED BY <1>5, <1>6, <1>7

\* The two ways to retire the old image.
LEMMA KeptRetireOld ==
    ASSUME TypeOK, NEW c \in Call, CallKept(c), EraseActive(c) \/ ClearActive(c)
    PROVE  CallKept(c)'
<1> DEFINE d == Target[c]
<1>s. PICK s \in Slot : s = seen[c]
  BY Registers
<1>t. PICK t \in Slot : t = Other(s) /\ t # s
  BY OtherType
<1>1. /\ pc[c] \in {"eraseActive", "clearActive"}
      /\ Upgrades(opts[c]) /\ Activates(opts[c])
      /\ ReplacesBootLoader(opts[c]) <=> pc[c] = "eraseActive"
      /\ pc[c] = "eraseActive" => bootLoader[d] = "current"
      /\ ActiveImage(d, t) /\ fw[d][t] = bin[c]
  BY <1>s, <1>t DEF EraseActive, ClearActive, CallKept, StepsMatchOptions,
     NewImageKept, BootLoaderProgress, AfterSet
<1>2. UNCHANGED <<fw, bootLoader>>
      /\ intact'[d][t] = intact[d][t] /\ activeByte'[d][t] = activeByte[d][t]
  <2>1. CASE EraseActive(c)
    <3>1. EraseSlot(d, s) \/ TornErase(d, s)
      BY <1>s, <2>1 DEF EraseActive
    <3> QED BY <2>1, <3>1, <1>t, Registers, EraseOthers DEF EraseActive
  <2>2. CASE ClearActive(c)
    BY <1>s, <1>t, <2>2, Registers DEF ClearActive, WriteActiveByte, TypeOK
  <2> QED BY <2>1, <2>2
<1>3. ActiveImage(d, t)'
  BY <1>1, <1>2 DEF ActiveImage, Complete
<1>4. CASE \E st : Leave(c, st)
  BY <1>4, KeptLeave
<1>5. CASE pc[c] = "eraseActive" /\ UNCHANGED <<pc, Locals>>
  <2>1. /\ pc'[c] = "eraseActive" /\ opts'[c] = opts[c]
        /\ bin'[c] = bin[c] /\ seen'[c] = s
    BY <1>s, <1>5 DEF Locals
  <2>2. NewImageKept(c)'
    BY <1>1, <1>2, <1>3, <1>t, <2>1 DEF NewImageKept, AfterSet
  <2> QED
    BY <1>1, <1>2, <1>5, <2>1, <2>2 DEF CallKept, StepsMatchOptions,
       ProgramProgress, BootLoaderProgress, BeforeRead, Preparing, Programming, AfterSet
<1>6. CASE /\ EraseSlot(d, s) \/ WriteActiveByte(d, s, 0)
           /\ Advance(c, AfterUpdate(opts[c]))
  <2>1. /\ pc'[c] \in {"query", "exit"} /\ opts'[c] = opts[c]
        /\ bin'[c] = bin[c] /\ seen'[c] = s
    BY <1>6, <1>s, AdvanceRegisters DEF AfterUpdate
  <2>2. activeByte'[d][s] \in {255, 0}
    <3>1. CASE EraseSlot(d, s)
      BY <3>1, Registers DEF EraseSlot, TypeOK
    <3>2. CASE WriteActiveByte(d, s, 0)
      BY <3>2, Registers DEF WriteActiveByte, Written, TypeOK, Byte
    <3> QED BY <1>6, <3>1, <3>2
  <2>3. ~ActiveImage(d, s)'
    BY <2>2 DEF ActiveImage
  <2>4. NewImageKept(c)'
    BY <1>1, <1>2, <1>3, <1>t, <2>1, <2>3 DEF NewImageKept, AfterSet
  <2> QED
    BY <1>1, <1>2, <2>1, <2>4 DEF CallKept, StepsMatchOptions, ProgramProgress,
       BootLoaderProgress, BeforeRead, Preparing, Programming, AfterSet
<1> QED BY <1>4, <1>5, <1>6, <1>s DEF EraseActive, ClearActive

\* A step of a call keeps what is known of it.
LEMMA KeptCallStep ==
    ASSUME TypeOK, NEW c \in Call, CallKept(c), CallStep(c)
    PROVE  CallKept(c)'
BY KeptHostSteps, KeptParseTable, KeptEraseInactive, KeptProgramSection,
   KeptSetActive, KeptBootLoader, KeptRetireOld DEF CallStep

\* A call starts without anything done.
LEMMA KeptStartCall ==
    ASSUME TypeOK, NEW c \in Call, CallKept(c), StartCall(c),
           Upgrades(opts'[c]) <=> Activates(opts'[c]),
           ReplacesBootLoader(opts'[c]) => Upgrades(opts'[c])
    PROVE  CallKept(c)'
<1>1. PICK o : opts' = [opts EXCEPT ![c] = o] /\ GoTo(c, FirstStep(o))
  BY DEF StartCall
<1>2. pc[c] = "idle" /\ UNCHANGED next
  BY DEF StartCall
<1>3. pc'[c] = FirstStep(o) /\ next'[c] = 1
  BY <1>1, <1>2 DEF GoTo, TypeOK, CallKept, ProgramProgress
<1>4. pc'[c] \in {"checkBin", "chipType"}
  BY <1>3, Labels
<1> QED
  BY <1>3, <1>4 DEF CallKept, StepsMatchOptions, ProgramProgress, NewImageKept,
     BootLoaderProgress, Programming, AfterSet

-----------------------------------------------------------------------------
(* The calls of the threads of um without -E. *)

\* The options of the threads without -E.
LEMMA DirectRequests ==
    ASSUME ~EntireNetwork
    PROVE  /\ RequestOf("upgrade") \in {{"upgrade", "activate"},
                                        {"upgrade", "activate", "bootloader"}}
           /\ RequestOf("query") = {"query"}
BY DEF RequestOf


\* A call reports SUCCESS only from its last step, which changes no device.
LEMMA SuccessAtExit ==
    ASSUME TypeOK, NEW d \in Device, CallStep(d), pc'[d] = "idle", stat'[d] = "SUCCESS"
    PROVE  pc[d] = "exit" /\ UNCHANGED deviceVars
<1>1. ASSUME NEW st \in Status \ {"SUCCESS"}, Leave(d, st) PROVE FALSE
  BY <1>1, FailedCall
<1>2. {"FAILURE", "OLD_EBL_VERSION", "CHIP_TYPE_MISMATCH"} \subseteq Status \ {"SUCCESS"}
  BY DEF Status
<1>3. ASSUME NEW l, Advance(d, l), l # "idle" PROVE FALSE
  BY <1>3, OwnDevices, AdvanceRegisters
<1>4. ASSUME NEW l, GoTo(d, l), l # "idle" PROVE FALSE
  BY <1>4, OwnDevices DEF GoTo, TypeOK
<1>5. /\ AfterUpdate(opts[d]) # "idle" /\ AfterSetActive(opts[d]) # "idle"
      /\ AfterProgram(opts[d]) # "idle" /\ AfterParseTable(opts[d]) # "idle"
      /\ AfterEnter(opts[d]) # "idle" /\ AfterOpen(opts[d]) # "idle"
      /\ AfterChipType(opts[d]) # "idle"
  BY Labels
<1>6. CASE CheckBinFile(d) \/ CheckChipType(d) \/ ReadFlashInformation(d)
           \/ OpenConnection(d) \/ EnterRemoteUpgrade(d) \/ ParseFWTable(d)
           \/ UpdateBlocks(d) \/ QueryDevice(d)
  BY <1>1, <1>2, <1>3, <1>4, <1>5, <1>6
     DEF CheckBinFile, CheckChipType, ReadFlashInformation, OpenConnection,
         EnterRemoteUpgrade, ParseFWTable, UpdateBlocks, QueryDevice, Fail
<1>7. CASE EraseInactive(d) \/ SetActive(d) \/ EraseBootLoader(d) \/ ProgramEBL(d)
           \/ ProgramB1(d) \/ ClearActive(d)
  BY <1>1, <1>2, <1>3, <1>5, <1>7
     DEF EraseInactive, SetActive, EraseBootLoader, ProgramEBL, ProgramB1, ClearActive
<1>8. CASE EraseActive(d) \/ ProgramSection(d)
  <2>1. pc[d] # "idle"
    BY <1>8 DEF EraseActive, ProgramSection
  <2> QED BY <1>1, <1>2, <1>3, <1>4, <1>5, <1>8, <2>1 DEF EraseActive, ProgramSection
<1>9. CASE Return(d)
  BY <1>9 DEF Return
<1> QED BY <1>6, <1>7, <1>8, <1>9 DEF CallStep


\* At the end of a call that upgrades and activates, the device is switched.
LEMMA SwitchedAtExit ==
    ASSUME TypeOK, NEW d \in Device, CallKept(d), pc[d] = "exit", bin[d] = BinFile,
           Upgrades(opts[d])
    PROVE  Switched(d)
<1>1. PICK s \in Slot, t \in Slot : s = seen[d] /\ t = Other(s) /\ t # s
  BY Registers, OwnDevices
<1>2. ActiveImage(d, t) /\ ~ActiveImage(d, s) /\ fw[d][t] = BinFile
  BY <1>1, OwnDevices DEF CallKept, NewImageKept
<1>3. \A u \in Slot : u = s \/ u = t
  BY <1>1 DEF Slot, Other
<1> QED BY <1>2, <1>3 DEF Switched, RunsNewNext

\* The final query changes nothing on the device.
LEMMA QueryChangesNothing ==
    ASSUME TypeOK, NEW d \in Device, CallKept(d), CallStep(d), opts[d] = {"query"}
    PROVE  UNCHANGED deviceVars
<1>1. pc[d] \notin Programming \cup AfterSet \cup {"setActive"}
  BY OwnDevices DEF CallKept, StepsMatchOptions
<1>2. \/ CheckBinFile(d) \/ CheckChipType(d) \/ ReadFlashInformation(d)
      \/ OpenConnection(d) \/ EnterRemoteUpgrade(d) \/ ParseFWTable(d)
      \/ UpdateBlocks(d) \/ QueryDevice(d) \/ Return(d)
  BY <1>1 DEF CallStep, EraseInactive, ProgramSection, SetActive,
     EraseBootLoader, ProgramEBL, ProgramB1, EraseActive, ClearActive,
     Programming, AfterSet
<1> QED BY <1>2, HostStepOutcome

-----------------------------------------------------------------------------
(* Any number of runs: the steps of the manager keep what is known of the    *)
(* calls, whatever fails.                                                    *)

\* For the devices and the calls every step but the death of the process is one
\* of UpgradeFirmware.
LEMMA StepsOfCalls ==
    ASSUME [UMNext]_umVars
    PROVE  ToolKilled \/ [Next]_vars
<1>1. ASSUME NEW d \in Device, ThreadStarts(d) \/ ThreadSteps(d) PROVE Next
  BY <1>1, OwnDevices DEF ThreadStarts, ThreadSteps, Next
<1>2. ASSUME NEW d \in Device,
             SendReset(d) \/ (DeviceRestarts(d) /\ UNCHANGED managerVars)
      PROVE  [Next]_vars
  BY <1>2 DEF SendReset, DeviceRestarts, Next, vars, callVars, deviceVars
<1>3. ASSUME NEW d \in Device, StartThread(d) \/ ThreadEnds(d) PROVE UNCHANGED vars
  BY <1>3 DEF StartThread, ThreadEnds
<1>4. ASSUME UpgradeVerdict \/ ActivateVerdict \/ AllReset \/ Summary \/ RunAgain
      PROVE  UNCHANGED vars
  BY <1>4 DEF UpgradeVerdict, ActivateVerdict, AllReset, Summary, AllStopped, RunAgain
<1>5. ASSUME UNCHANGED umVars PROVE UNCHANGED vars
  BY <1>5 DEF umVars
<1> QED BY <1>1, <1>2, <1>3, <1>4, <1>5 DEF UMNext, MainStep

LEMMA KilledTypes ==
    ASSUME TypeOK, ToolKilled
    PROVE  TypeOK'
<1>1. 1 \in Section /\ 1 \in Slot /\ "idle" \in Step
  BY SectionAssumption DEF Section, Slot, Step
<1> QED BY <1>1 DEF ToolKilled, TypeOK, deviceVars

\* The stages of um without -E.
LEMMA DirectStages ==
    ASSUME ~EntireNetwork, stage \notin {"activate", "quit", "unstable"},
           [UMNext]_umVars
    PROVE  stage' \notin {"activate", "quit", "unstable"} /\ ~ActivateVerdict
<1>1. ~ActivateVerdict
  BY DEF ActivateVerdict, AllStopped
<1>2. CASE UNCHANGED stage
  BY <1>1, <1>2
<1>3. CASE UpgradeVerdict \/ AllReset \/ Summary \/ ToolKilled \/ RunAgain
  BY <1>1, <1>3 DEF UpgradeVerdict, AllReset, Summary, ToolKilled, RunAgain, GoOn
<1> QED
  BY <1>1, <1>2, <1>3 DEF UMNext, MainStep, StartThread, SendReset, ThreadStarts,
     ThreadSteps, ThreadEnds, managerVars, umVars

LEMMA KeptNext ==
    ASSUME AnyRunInv, ~EntireNetwork, [UMNext]_umVars, NEW e \in Device
    PROVE  CallKept(e)'
<1>t. TypeOK /\ CallKept(e) /\ stage \notin {"activate", "quit", "unstable"}
      /\ e \in Call /\ Target[e] = e
  BY OwnDevices DEF AnyRunInv
<1>1. ASSUME NEW d \in Device, ThreadStarts(d) PROVE CallKept(e)'
  <2>1. StartCall(d) /\ opts'[d] = RequestOf(stage)
    BY <1>1 DEF ThreadStarts
  <2>2. CASE e # d
    <3>1. SameCall(e) /\ SameDevice(e)
      BY <1>t, <2>1, <2>2, OtherThreads
    <3> QED BY <1>t, <3>1, KeptFrame DEF SameDevice
  <2>3. CASE e = d
    <3>1. \/ opts'[d] = {"query"}
          \/ opts'[d] \in {{"upgrade", "activate"}, {"upgrade", "activate", "bootloader"}}
      BY <1>t, <2>1, DirectRequests DEF RequestOf
    <3>2. /\ Upgrades(opts'[d]) <=> Activates(opts'[d])
          /\ ReplacesBootLoader(opts'[d]) => Upgrades(opts'[d])
      BY <3>1
    <3> QED BY <1>t, <2>1, <2>3, <3>2, KeptStartCall
  <2> QED BY <2>2, <2>3
<1>2. ASSUME NEW d \in Device, ThreadSteps(d) PROVE CallKept(e)'
  <2>1. CallStep(d)
    BY <1>2 DEF ThreadSteps
  <2>2. CASE e # d
    <3>1. SameCall(e) /\ SameDevice(e)
      BY <1>t, <2>1, <2>2, OtherThreads
    <3> QED BY <1>t, <3>1, KeptFrame DEF SameDevice
  <2>3. CASE e = d
    BY <1>t, <2>1, <2>3, KeptCallStep
  <2> QED BY <2>2, <2>3
<1>3. CASE UNCHANGED <<callVars, fw, intact, activeByte, bootLoader>>
  BY <1>t, <1>3, KeptFrame DEF callVars, SameCall
<1>4. ASSUME NEW d \in Device,
             SendReset(d) \/ (DeviceRestarts(d) /\ UNCHANGED managerVars)
      PROVE  UNCHANGED <<callVars, fw, intact, activeByte, bootLoader>>
  BY <1>4 DEF SendReset, DeviceRestarts, Reboot, deviceVars
<1>5. ASSUME UNCHANGED vars
      PROVE  UNCHANGED <<callVars, fw, intact, activeByte, bootLoader>>
  BY <1>5 DEF vars, callVars
<1>6. ASSUME NEW d \in Device, StartThread(d) \/ ThreadEnds(d) PROVE UNCHANGED vars
  BY <1>6 DEF StartThread, ThreadEnds
<1>7. ASSUME UpgradeVerdict \/ ActivateVerdict \/ AllReset \/ Summary \/ RunAgain
             \/ UNCHANGED umVars
      PROVE  UNCHANGED vars
  BY <1>7 DEF UpgradeVerdict, ActivateVerdict, AllReset, Summary, AllStopped, RunAgain,
     umVars
<1>8. ASSUME ToolKilled PROVE CallKept(e)'
  BY <1>t, <1>8, KeptIdle DEF ToolKilled
<1> QED
  BY <1>1, <1>2, <1>3, <1>4, <1>5, <1>6, <1>7, <1>8 DEF UMNext, MainStep

-----------------------------------------------------------------------------
(* ... and what is reported of the devices is true.                          *)

\* A step that does not concern a device, its thread or the stage of main().
LEMMA DirectFrame ==
    ASSUME NEW d \in Device, DirectInv(d), SameCall(d), stat'[d] = stat[d],
           fw'[d] = fw[d], intact'[d] = intact[d], activeByte'[d] = activeByte[d],
           stage' = stage, thread'[d] = thread[d], running'[d] = running[d],
           exitCode'[d] = exitCode[d], d \in todo' => d \in todo
    PROVE  DirectInv(d)'
<1>1. ThreadsOfPhase(d)'
  BY DEF DirectInv, ThreadsOfPhase, SameCall
<1>2. Reported(d)' => Reported(d)
  BY DEF Reported, SameCall
<1>3. Switched(d)' <=> Switched(d)
  BY DEF Switched, RunsNewNext, ActiveImage, Complete
<1> QED BY <1>1, <1>2, <1>3 DEF DirectInv

\* main() creates a thread.
LEMMA DirectStartThread ==
    ASSUME AnyRunInv, NEW d \in Device, StartThread(d),
           NEW e \in Device
    PROVE  DirectInv(e)'
<1>1. /\ stage \in {"upgrade", "activate", "query"} /\ d \in todo
      /\ todo' = todo \ {d}
      /\ thread' = [thread EXCEPT ![d] = "created"] \/ UNCHANGED thread
      /\ UNCHANGED <<running, exitCode, vars, stage, dm, runs>>
  BY DEF StartThread
<1>2. SameCall(e) /\ SameDevice(e) /\ stat'[e] = stat[e] /\ mode'[e] = mode[e]
  BY <1>1 DEF vars, SameCall, SameDevice
<1>3. DirectInv(e) /\ thread \in [Device -> {"none", "created", "calling"}]
  BY DEF AnyRunInv, UMTypeOK
<1>4. CASE e # d
  BY <1>1, <1>2, <1>3, <1>4, DirectFrame DEF SameDevice
<1>5. CASE e = d
  <2>1. thread[d] = "none" /\ pc[d] = "idle" /\ ~running[d]
    BY <1>1, <1>3, <1>5 DEF DirectInv, ThreadsOfPhase, Ended
  <2>2. /\ thread'[d] \in {"created", "none"} /\ pc'[d] = "idle" /\ ~running'[d]
        /\ bin'[d] = bin[d] /\ d \notin todo'
    BY <1>1, <1>2, <1>3, <1>5, <2>1 DEF SameCall
  <2>3. ThreadsOfPhase(d)'
    BY <1>1, <1>3, <1>5, <2>2 DEF DirectInv, ThreadsOfPhase, Ended
  <2>4. Reported(d)' => Reported(d)
    BY <1>1, <1>5, <2>2 DEF Reported
  <2> QED BY <1>1, <1>2, <1>3, <1>5, <2>3, <2>4, SameFlash DEF DirectInv
<1> QED BY <1>4, <1>5

LEMMA DirectThreadStarts ==
    ASSUME AnyRunInv, NEW d \in Device, ThreadStarts(d),
           NEW e \in Device
    PROVE  DirectInv(e)'
<1>t. TypeOK /\ UMTypeOK /\ DirectInv(e)
  BY DEF AnyRunInv
<1>1. /\ thread[d] = "created" /\ thread' = [thread EXCEPT ![d] = "calling"]
      /\ running' = [running EXCEPT ![d] = TRUE] /\ StartCall(d)
      /\ opts'[d] = RequestOf(stage) /\ bin'[d] = BinFile
      /\ UNCHANGED <<stage, todo, exitCode, dm, runs>>
  BY DEF ThreadStarts
<1>2. CASE e # d
  <2>1. SameCall(e) /\ SameDevice(e) /\ stat'[e] = stat[e]
    BY <1>t, <1>1, <1>2, OtherThreads
  <2> QED BY <1>t, <1>1, <1>2, <2>1, DirectFrame DEF UMTypeOK, SameDevice
<1>3. CASE e = d
  <2>1. SameDevice(d) /\ mode'[d] = mode[d]
    BY <1>1 DEF StartCall, deviceVars, SameDevice
  <2>2. stat'[d] = "NONE"
    BY <1>t, <1>1, OwnDevices DEF StartCall, TypeOK
  <2>3. thread'[d] = "calling" /\ running'[d]
    BY <1>t, <1>1 DEF UMTypeOK
  <2>4. stage \in {"upgrade", "activate", "query"} /\ d \notin todo
    BY <1>t, <1>1, <1>3 DEF DirectInv, ThreadsOfPhase
  <2>5. ThreadsOfPhase(d)'
    BY <1>1, <2>3, <2>4 DEF ThreadsOfPhase, RequestOf
  <2>6. Reported(d)' => Reported(d)
    BY <1>1, <2>2, <2>4 DEF Reported
  <2> QED BY <1>t, <1>1, <1>3, <2>1, <2>3, <2>4, <2>5, <2>6, SameFlash DEF DirectInv
<1> QED BY <1>2, <1>3

\* A step of a call.
LEMMA DirectThreadSteps ==
    ASSUME AnyRunInv, ~EntireNetwork, NEW d \in Device,
           ThreadSteps(d), NEW e \in Device
    PROVE  DirectInv(e)'
<1>t. /\ TypeOK /\ CallKept(d) /\ DirectInv(e) /\ CallStep(d)
      /\ stage \notin {"activate", "quit", "unstable"}
  BY DEF AnyRunInv, ThreadSteps
<1>m. UNCHANGED <<stage, todo, thread, running, exitCode, dm, runs>>
  BY DEF ThreadSteps, managerVars
<1>1. CASE e # d
  <2>1. SameCall(e) /\ SameDevice(e) /\ stat'[e] = stat[e]
    BY <1>t, <1>1, OtherThreads
  <2> QED BY <1>t, <1>m, <2>1, DirectFrame DEF SameDevice
<1>2. CASE e = d
  <2>1. /\ pc[d] # "idle" /\ thread[d] = "calling" /\ opts[d] = RequestOf(stage)
        /\ bin[d] = BinFile /\ d \notin todo
        /\ stage \in {"upgrade", "query"}
    BY <1>t, <1>2, OwnDevices, CallStepLive DEF DirectInv, ThreadsOfPhase
  <2>2. bin'[d] = bin[d] /\ (pc'[d] # "idle" => opts'[d] = opts[d])
    BY <1>t, CallRegisters
  <2>3. ThreadsOfPhase(d)'
    BY <1>t, <1>m, <1>2, <2>1, <2>2 DEF DirectInv, ThreadsOfPhase, RequestOf
  <2>4. CASE stage = "upgrade"
    <3>1. Upgrades(opts[d])
      BY <2>1, <2>4, DirectRequests
    <3>2. ~exitCode[d]
      BY <1>t, <1>2, <2>1, <2>4 DEF DirectInv
    <3>3. ASSUME Reported(d)' PROVE Switched(d)'
      <4>1. pc'[d] = "idle" /\ stat'[d] = "SUCCESS"
        BY <1>m, <2>4, <3>2, <3>3 DEF Reported
      <4>2. pc[d] = "exit" /\ UNCHANGED deviceVars
        BY <1>t, <4>1, SuccessAtExit
      <4>3. Switched(d)
        BY <1>t, <2>1, <3>1, <4>2, SwitchedAtExit
      <4> QED BY <4>2, <4>3, SameFlash DEF deviceVars, SameDevice
    <3> QED BY <1>m, <1>2, <2>3, <2>4, <3>2, <3>3 DEF DirectInv
  <2>5. CASE stage = "query"
    <3>1. UNCHANGED deviceVars
      BY <1>t, <2>1, <2>5, DirectRequests, QueryChangesNothing
    <3>2. Switched(d)
      BY <1>t, <1>2, <2>1, <2>5 DEF DirectInv, Reported
    <3>3. Switched(d)'
      BY <3>1, <3>2, SameFlash DEF deviceVars, SameDevice
    <3> QED BY <1>m, <1>2, <2>3, <2>5, <3>3 DEF DirectInv
  <2> QED BY <2>1, <2>4, <2>5
<1> QED BY <1>1, <1>2

\* A thread reports how its call ended.
LEMMA DirectThreadEnds ==
    ASSUME AnyRunInv, NEW d \in Device, ThreadEnds(d),
           NEW e \in Device
    PROVE  DirectInv(e)'
<1>t. UMTypeOK /\ DirectInv(e)
  BY DEF AnyRunInv
<1>1. /\ thread[d] = "calling" /\ pc[d] = "idle"
      /\ exitCode' = [exitCode EXCEPT ![d] = (stat[d] = "SUCCESS")]
      /\ running' = [running EXCEPT ![d] = FALSE]
      /\ thread' = [thread EXCEPT ![d] = "none"]
      /\ UNCHANGED <<vars, stage, todo, dm, runs>>
  BY DEF ThreadEnds
<1>2. SameCall(e) /\ SameDevice(e) /\ stat'[e] = stat[e] /\ mode'[e] = mode[e]
  BY <1>1 DEF vars, SameCall, SameDevice
<1>3. CASE e # d
  BY <1>t, <1>1, <1>2, <1>3, DirectFrame DEF UMTypeOK, SameDevice
<1>4. CASE e = d
  <2>1. /\ thread'[d] = "none" /\ running'[d] = FALSE
        /\ exitCode'[d] = (stat[d] = "SUCCESS")
    BY <1>t, <1>1 DEF UMTypeOK
  <2>2. d \notin todo /\ pc'[d] = "idle" /\ bin'[d] = bin[d]
    BY <1>t, <1>1, <1>2, <1>4 DEF DirectInv, ThreadsOfPhase, SameCall
  <2>3. ThreadsOfPhase(d)'
    BY <1>t, <1>4, <2>1, <2>2 DEF DirectInv, ThreadsOfPhase
  <2>4. Reported(d)' => Reported(d)
    BY <1>1, <2>1, <2>2 DEF Reported
  <2> QED BY <1>t, <1>1, <1>2, <1>4, <2>1, <2>2, <2>3, <2>4, SameFlash DEF DirectInv
<1> QED BY <1>3, <1>4

\* The verdict, and the passage to the last phases: only devices counted as
\* upgraded are reset and queried.
LEMMA DirectVerdict ==
    ASSUME AnyRunInv, ~EntireNetwork,
           UpgradeVerdict \/ AllReset \/ Summary, NEW d \in Device
    PROVE  DirectInv(d)'
<1>t. DirectInv(d) /\ thread[d] \in {"none", "created", "calling"}
  BY DEF AnyRunInv, UMTypeOK
<1>1. /\ stage \in {"upgrade", "reset", "query"}
      /\ UNCHANGED <<vars, thread, running, exitCode>>
      /\ stage # "reset" => thread[d] # "created" /\ ~running[d]
  BY DEF UpgradeVerdict, AllReset, Summary, AllStopped
<1>2. /\ stage' \in {"reset", "query", "done"}
      /\ d \in todo' => exitCode[d]
  BY DEF UpgradeVerdict, AllReset, Summary, AllStopped, GoOn, Succeeded
<1>3. thread[d] = "none" /\ pc[d] = "idle" /\ ~running[d]
  BY <1>t, <1>1 DEF DirectInv, ThreadsOfPhase, Ended
<1>4. SameDevice(d) /\ SameCall(d) /\ mode'[d] = mode[d]
  BY <1>1 DEF vars, SameDevice, SameCall
<1>5. ThreadsOfPhase(d)'
  BY <1>t, <1>1, <1>3, <1>4 DEF DirectInv, ThreadsOfPhase, SameCall
<1>6. Reported(d)' => exitCode[d]
  BY <1>1, <1>2, <1>3 DEF Reported
<1>7. Reported(d)' => Switched(d)'
  BY <1>t, <1>4, <1>6, SameFlash DEF DirectInv, Reported
<1> QED BY <1>2, <1>5, <1>7 DEF DirectInv

\* The death of the process.
LEMMA DirectKilled ==
    ASSUME NEW d \in Device, DirectInv(d), ToolKilled
    PROVE  DirectInv(d)'
<1>1. /\ stage' = "killed" /\ thread' = [e \in Device |-> "none"]
      /\ pc' = [c \in Call |-> "idle"] /\ UNCHANGED <<deviceVars, bin, exitCode>>
  BY DEF ToolKilled, GoOn
<1>2. ThreadsOfPhase(d)'
  BY <1>1, OwnDevices DEF DirectInv, ThreadsOfPhase, Ended
<1>3. Reported(d)' => Reported(d)
  BY <1>1 DEF Reported
<1>4. Switched(d)' <=> Switched(d)
  BY <1>1 DEF deviceVars, Switched, RunsNewNext, ActiveImage, Complete
<1> QED BY <1>1, <1>2, <1>3, <1>4 DEF DirectInv

\* A new run starts from what the last has left, with nothing reported.
LEMMA DirectRunAgain ==
    ASSUME NEW d \in Device, DirectInv(d), RunAgain
    PROVE  DirectInv(d)'
<1>1. /\ stage \in Ended /\ stage' = "upgrade" /\ UNCHANGED <<vars, thread>>
      /\ running' = [e \in Device |-> FALSE] /\ exitCode' = [e \in Device |-> FALSE]
  BY DEF RunAgain, GoOn
<1>2. thread[d] = "none" /\ pc[d] = "idle" /\ bin[d] = BinFile
  BY <1>1 DEF DirectInv, ThreadsOfPhase, Ended
<1>3. ~running'[d] /\ ~exitCode'[d]
  BY <1>1
<1>4. thread'[d] = "none" /\ pc'[d] = "idle" /\ bin'[d] = BinFile
  BY <1>1, <1>2 DEF vars
<1>5. ThreadsOfPhase(d)' /\ ~Reported(d)'
  BY <1>1, <1>3, <1>4 DEF ThreadsOfPhase, Reported
<1> QED BY <1>3, <1>5 DEF DirectInv

LEMMA DirectNext ==
    ASSUME AnyRunInv, ~EntireNetwork, [UMNext]_umVars,
           NEW e \in Device
    PROVE  DirectInv(e)'
<1>t. UMTypeOK /\ DirectInv(e) /\ stage \notin {"activate", "quit", "unstable"}
  BY DEF AnyRunInv
<1>1. ASSUME NEW d \in Device, StartThread(d) \/ ThreadStarts(d) \/ ThreadSteps(d)
                               \/ ThreadEnds(d)
      PROVE  DirectInv(e)'
  BY <1>1, DirectStartThread, DirectThreadStarts, DirectThreadSteps, DirectThreadEnds
<1>2. CASE UpgradeVerdict \/ AllReset \/ Summary
  BY <1>2, DirectVerdict
<1>3. ASSUME NEW d \in Device,
             SendReset(d) \/ (DeviceRestarts(d) /\ UNCHANGED managerVars)
      PROVE  DirectInv(e)'
  <2>1. /\ UNCHANGED <<callVars, stage, thread, running, exitCode>>
        /\ todo' \subseteq todo
        /\ UNCHANGED <<fw, intact, activeByte>>
    BY <1>3 DEF SendReset, DeviceRestarts, managerVars, Reboot, deviceVars
  <2> QED BY <1>t, <2>1, DirectFrame DEF callVars, SameCall
<1>4. CASE ToolKilled \/ RunAgain
  BY <1>t, <1>4, DirectKilled, DirectRunAgain
<1>5. CASE UNCHANGED umVars
  BY <1>t, <1>5, DirectFrame DEF umVars, managerVars, vars, SameCall
<1>6. ~ActivateVerdict
  BY <1>t, DirectStages
<1> QED BY <1>1, <1>2, <1>3, <1>4, <1>5, <1>6 DEF UMNext, MainStep

LEMMA InitAnyRunInv == UMInit => AnyRunInv
<1> SUFFICES ASSUME UMInit PROVE AnyRunInv
  OBVIOUS
<1>1. UMTypeOK /\ TypeOK /\ stage = "upgrade"
  BY UMInitTypes, InitTypes DEF UMInit
<1>2. ASSUME NEW d \in Device PROVE CallKept(d) /\ DirectInv(d)
  <2>1. /\ stage = "upgrade" /\ thread[d] = "none" /\ ~running[d] /\ ~exitCode[d]
        /\ pc[d] = "idle" /\ bin[d] = BinFile /\ opts[d] = {} /\ next[d] = 1
    BY OwnDevices DEF UMInit, Init
  <2>2. CallKept(d)
    BY <2>1 DEF CallKept, StepsMatchOptions, ProgramProgress, NewImageKept,
       BootLoaderProgress, BeforeRead, Preparing, Programming, AfterSet
  <2> QED BY <2>1, <2>2 DEF DirectInv, ThreadsOfPhase, Reported
<1> QED BY <1>1, <1>2 DEF AnyRunInv

LEMMA AnyRunNext ==
    ASSUME AnyRunInv, ~EntireNetwork, [UMNext]_umVars
    PROVE  AnyRunInv'
<1>1. UMTypeOK /\ TypeOK /\ stage \notin {"activate", "quit", "unstable"}
  BY DEF AnyRunInv
<1>2. UMTypeOK' /\ TypeOK' /\ stage' \notin {"activate", "quit", "unstable"}
  BY <1>1, UMNextTypes, StepsOfCalls, KilledTypes, NextTypes, DirectStages
<1>3. \A d \in Device : CallKept(d)' /\ DirectInv(d)'
  BY KeptNext, DirectNext
<1> QED BY <1>2, <1>3 DEF AnyRunInv

\* The invariant of um without -E: any number of runs, with -B or without,
\* whatever of the calls, of the devices and of the threads fails.
THEOREM DirectInvariant ==
    ASSUME ~EntireNetwork
    PROVE  UMSpec => []AnyRunInv
<1>1. UMInit => AnyRunInv
  BY InitAnyRunInv
<1>2. AnyRunInv /\ [UMNext]_umVars => AnyRunInv'
  BY AnyRunNext
<1> QED BY <1>1, <1>2, PTL DEF UMSpec

\* The boot loader is replaced only while the image the call has programmed is
\* active, even on devices an earlier run has left half updated.
THEOREM DirectBootLoaderWindow ==
    ASSUME ~EntireNetwork
    PROVE  UMSpec => []BootLoaderWindow
<1>1. AnyRunInv => BootLoaderWindow
  <2> SUFFICES ASSUME AnyRunInv, NEW c \in Call,
                      pc[c] \in {"programEBL", "programB1", "eraseActive"}
               PROVE  /\ ActiveImage(Target[c], Other(seen[c]))
                      /\ fw[Target[c]][Other(seen[c])] = bin[c]
    BY DEF BootLoaderWindow
  <2>1. pc[c] \in AfterSet /\ CallKept(c)
    BY OwnDevices DEF AfterSet, AnyRunInv
  <2> QED BY <2>1 DEF CallKept, StepsMatchOptions, NewImageKept
<1> QED BY <1>1, DirectInvariant, PTL

\* A call that returns SUCCESS has switched its device over, in every run.
THEOREM DirectSuccessIsInstalled ==
    ASSUME ~EntireNetwork
    PROVE  UMSpec => []SuccessMeansInstalled
<1>1. AnyRunInv => SuccessMeansInstalled
  <2> SUFFICES ASSUME AnyRunInv, NEW c \in Call, pc[c] = "exit", Activates(opts[c])
               PROVE  /\ ActiveImage(Target[c], Other(seen[c]))
                      /\ ~ActiveImage(Target[c], seen[c])
                      /\ Upgrades(opts[c]) => fw[Target[c]][Other(seen[c])] = bin[c]
                      /\ ReplacesBootLoader(opts[c]) =>
                             bootLoader[Target[c]] = "current"
    BY DEF SuccessMeansInstalled
  <2>1. CallKept(c)
    BY OwnDevices DEF AnyRunInv
  <2> QED BY <2>1 DEF CallKept, NewImageKept, BootLoaderProgress
<1> QED BY <1>1, DirectInvariant, PTL

\* No step of any run activates an image that is not complete.
THEOREM DirectOnlyCompleteActivated ==
    ASSUME ~EntireNetwork
    PROVE  UMSpec => OnlyCompleteImagesActivated
<1>1. ASSUME AnyRunInv, [UMNext]_umVars, NEW d \in Device, NEW s \in Slot,
             activeByte[d][s] # 1, activeByte'[d][s] = 1
      PROVE  Complete(d, s)
  <2>1. ~ToolKilled
    BY <1>1 DEF ToolKilled, deviceVars
  <2>2. TypeOK /\ [Next]_vars
    BY <1>1, <2>1, StepsOfCalls DEF AnyRunInv
  <2>3. PICK c \in Call : pc[c] = "setActive" /\ d = Target[c] /\ s = Other(seen[c])
    BY <1>1, <2>2, OnlySetActivates
  <2>4. NewImageKept(c)
    BY <1>1, OwnDevices DEF AnyRunInv, CallKept
  <2> QED BY <2>3, <2>4 DEF NewImageKept
<1>2. AnyRunInv /\ [UMNext]_umVars =>
        [\A d \in Device, s \in Slot :
            activeByte[d][s] # 1 /\ activeByte'[d][s] = 1 => Complete(d, s)]_vars
  BY <1>1
<1> QED BY <1>2, DirectInvariant, PTL DEF UMSpec, OnlyCompleteImagesActivated

\* "finish successfully" is the truth in every run, whatever fails of it: the
\* device's only active image is the complete new firmware.
THEOREM DirectFinishedIsSwitched ==
    ASSUME ~EntireNetwork
    PROVE  UMSpec => []FinishedMeansSwitched
<1>1. AnyRunInv => FinishedMeansSwitched
  BY DEF AnyRunInv, DirectInv, Reported, FinishedMeansSwitched, Succeeded
<1> QED BY <1>1, DirectInvariant, PTL

-----------------------------------------------------------------------------
(* The first run calls Ghn_Upgrade_Firmware the way it needs to be called,   *)
(* whatever fails of it.                                                     *)

\* A device that the first run has not treated yet.
Ready(d) == stage = "upgrade" /\ (d \in todo \/ thread[d] = "created") =>
                Running(d) /\ ActiveImage(d, launched[d])

LEMMA ReadyFrame ==
    ASSUME NEW d \in Device, Ready(d), SameDevice(d), mode'[d] = mode[d],
           stage' = stage,
           d \in todo' \/ thread'[d] = "created" => d \in todo \/ thread[d] = "created"
    PROVE  Ready(d)'
BY SameFlash DEF Ready, SameDevice, ActiveImage, Complete

\* A thread starts its call the way Ghn_Upgrade_Firmware needs it.
LEMMA DirectStartsWell ==
    ASSUME FirstRunInv, ~EntireNetwork, runs = 1, NEW d \in Device, ThreadStarts(d)
    PROVE  /\ WellStarted(d)
           /\ Updates(opts'[d]) => MayStart(d, opts'[d])
<1>1. /\ thread[d] = "created" /\ pc[d] = "idle" /\ DirectInv(d)
      /\ opts'[d] = RequestOf(stage)
      /\ stage \notin {"activate", "quit", "unstable"}
  BY DEF ThreadStarts, StartCall, FirstRunInv, AnyRunInv
<1>2. stage \in {"upgrade", "query"}
  BY <1>1 DEF DirectInv, ThreadsOfPhase
<1>3. \A x \in Call : Target[x] = d => pc[x] = "idle"
  BY <1>1, OwnDevices
<1>4. CASE stage = "upgrade"
  <2>1. /\ opts'[d] \in {{"upgrade", "activate"}, {"upgrade", "activate", "bootloader"}}
        /\ mode[d] = "FW" /\ ActiveImage(d, launched[d])
    BY <1>1, <1>4, DirectRequests DEF FirstRunInv, Running
  <2>2. Upgrades(opts'[d]) /\ Activates(opts'[d])
    BY <2>1
  <2> QED BY <1>1, <1>3, <2>1, <2>2, OwnDevices DEF WellStarted, MayStart
<1>5. CASE stage = "query"
  <2>1. opts'[d] = {"query"}
    BY <1>1, <1>5, DirectRequests
  <2> QED BY <1>1, <1>3, <2>1, OwnDevices DEF WellStarted
<1> QED BY <1>2, <1>4, <1>5

\* The kinds of steps of um without -E.
LEMMA DirectSteps ==
    ASSUME FirstRunInv, ~EntireNetwork, [UMNext]_umVars
    PROVE  \/ \E d \in Device : StartThread(d)
           \/ \E d \in Device : ThreadStarts(d)
           \/ \E d \in Device : ThreadSteps(d)
           \/ \E d \in Device : ThreadEnds(d)
           \/ UpgradeVerdict \/ AllReset \/ Summary
           \/ \E d \in Device : SendReset(d)
           \/ \E d \in Device : DeviceRestarts(d) /\ UNCHANGED managerVars
           \/ ToolKilled
           \/ RunAgain
           \/ UNCHANGED umVars
<1>1. ~ActivateVerdict
  BY DirectStages DEF FirstRunInv, AnyRunInv
<1> QED BY <1>1 DEF UMNext, MainStep

\* The first run is not entered again.
LEMMA RunsNext ==
    ASSUME UMTypeOK, [UMNext]_umVars, runs' = 1
    PROVE  runs = 1 /\ ~RunAgain
<1>1. runs' = runs \/ runs' = runs + 1
  BY DEF UMNext, MainStep, StartThread, ThreadStarts, ThreadSteps, ThreadEnds,
     UpgradeVerdict, ActivateVerdict, AllStopped, SendReset, AllReset, Summary,
     ToolKilled, RunAgain, managerVars, umVars
<1>2. runs \in Nat /\ runs >= 1
  BY DEF UMTypeOK
<1> QED BY <1>1, <1>2 DEF RunAgain

LEMMA FirstRunNext ==
    ASSUME FirstRunInv, ~EntireNetwork, [UMNext]_umVars, runs' = 1
    PROVE  IInv' /\ \A d \in Device : Ready(d)'
<1>r. runs = 1 /\ ~RunAgain
  BY RunsNext DEF FirstRunInv, AnyRunInv
<1>t. /\ AnyRunInv /\ UMTypeOK /\ IInv /\ TypeOK
      /\ \A d \in Device : Ready(d) /\ DirectInv(d)
  BY <1>r DEF FirstRunInv, AnyRunInv, Ready
<1> DEFINE Kept == IInv' /\ \A e \in Device : Ready(e)'
<1>1. ASSUME NEW d \in Device, StartThread(d) PROVE Kept
  <2>1. /\ UNCHANGED <<vars, stage>> /\ d \in todo /\ todo' = todo \ {d}
        /\ thread' = [thread EXCEPT ![d] = "created"] \/ UNCHANGED thread
    BY <1>1 DEF StartThread
  <2>2. ASSUME NEW e \in Device PROVE Ready(e)'
    <3>1. SameDevice(e) /\ mode'[e] = mode[e]
      BY <2>1 DEF vars, SameDevice
    <3> QED BY <1>t, <2>1, <3>1, ReadyFrame DEF UMTypeOK
  <2> QED BY <1>t, <2>1, <2>2, StutterInv
<1>2. ASSUME NEW d \in Device, ThreadStarts(d) PROVE Kept
  <2>1. StartCall(d) /\ WellStarted(d) /\ UNCHANGED <<stage, todo>>
        /\ thread' = [thread EXCEPT ![d] = "calling"]
    BY <1>2, <1>r, DirectStartsWell DEF ThreadStarts
  <2>2. ASSUME NEW e \in Device PROVE Ready(e)'
    <3>1. SameDevice(e) /\ mode'[e] = mode[e]
      BY <2>1 DEF StartCall, deviceVars, SameDevice
    <3> QED BY <1>t, <2>1, <3>1, ReadyFrame DEF UMTypeOK
  <2> QED BY <1>t, <2>1, <2>2, OwnDevices, StartCallInv
<1>3. ASSUME NEW d \in Device, ThreadSteps(d) PROVE Kept
  <2>1. CallStep(d) /\ UNCHANGED <<stage, todo, thread>>
    BY <1>3 DEF ThreadSteps, managerVars
  <2>2. ASSUME NEW e \in Device PROVE Ready(e)'
    <3>1. CASE e = d
      <4>1. thread[d] = "calling" /\ d \notin todo
        BY <1>t, <2>1, OwnDevices, CallStepLive DEF DirectInv, ThreadsOfPhase
      <4> QED BY <2>1, <3>1, <4>1 DEF Ready
    <3>2. CASE e # d
      BY <1>t, <2>1, <3>2, OtherThreads, ReadyFrame
    <3> QED BY <3>1, <3>2
  <2> QED BY <1>t, <2>1, <2>2, OwnDevices, CallStepInv
<1>4. ASSUME NEW d \in Device, ThreadEnds(d) PROVE Kept
  <2>1. UNCHANGED <<vars, stage, todo>> /\ thread' = [thread EXCEPT ![d] = "none"]
    BY <1>4 DEF ThreadEnds
  <2>2. ASSUME NEW e \in Device PROVE Ready(e)'
    <3>1. SameDevice(e) /\ mode'[e] = mode[e]
      BY <2>1 DEF vars, SameDevice
    <3> QED BY <1>t, <2>1, <3>1, ReadyFrame DEF UMTypeOK
  <2> QED BY <1>t, <2>1, <2>2, StutterInv
<1>5. ASSUME UpgradeVerdict \/ AllReset \/ Summary PROVE Kept
  <2>1. UNCHANGED vars /\ stage' # "upgrade"
    BY <1>5 DEF UpgradeVerdict, AllReset, Summary, AllStopped, GoOn
  <2> QED BY <1>t, <2>1, StutterInv DEF Ready
<1>6. ASSUME NEW d \in Device, DeviceRestarts(d), UNCHANGED <<stage, thread>>,
             todo' \subseteq todo
      PROVE  Kept
  <2>1. Reboot(d)
    BY <1>6 DEF DeviceRestarts
  <2>2. ASSUME NEW e \in Device PROVE Ready(e)'
    <3>1. CASE e # d
      <4>1. SameDevice(e) /\ mode'[e] = mode[e]
        BY <1>t, <2>1, <3>1 DEF Reboot, SameDevice, TypeOK
      <4> QED BY <1>t, <1>6, <4>1, ReadyFrame
    <3>2. CASE e = d
      <4>1. ASSUME Running(d) PROVE Running(d)' /\ ActiveImage(d, launched[d])'
        <5>1. \E s \in Slot : ActiveImage(d, s)
          BY <1>t DEF IInv, SomeActiveImage
        <5>2. mode'[d] = "FW" /\ ActiveImage(d, launched'[d])
              /\ UNCHANGED <<intact, activeByte, bootLoader>>
          BY <1>t, <2>1, <4>1, <5>1 DEF Reboot, Running, TypeOK
        <5> QED BY <4>1, <5>2 DEF Running, BootLoaderIntact, ActiveImage, Complete
      <4> QED BY <1>t, <1>6, <3>2, <4>1 DEF Ready
    <3> QED BY <3>1, <3>2
  <2> QED BY <1>t, <1>6, <2>2, RestartInv
<1>7. ASSUME UNCHANGED <<vars, stage, thread>>, todo' \subseteq todo PROVE Kept
  <2>1. ASSUME NEW e \in Device PROVE Ready(e)'
    <3>1. SameDevice(e) /\ mode'[e] = mode[e]
      BY <1>7 DEF vars, SameDevice
    <3> QED BY <1>t, <1>7, <3>1, ReadyFrame
  <2> QED BY <1>t, <1>7, <2>1, StutterInv
<1>8. ASSUME NEW d \in Device, SendReset(d) PROVE Kept
  <2>1. UNCHANGED <<callVars, stage, thread>> /\ todo' \subseteq todo
        /\ (Reboot(d) \/ UNCHANGED deviceVars)
    BY <1>8 DEF SendReset
  <2>2. DeviceRestarts(d) \/ UNCHANGED vars
    BY <2>1 DEF DeviceRestarts, vars, callVars, deviceVars
  <2> QED BY <1>6, <1>7, <2>1, <2>2
<1>9. ASSUME ToolKilled PROVE Kept
  <2>1. stage' = "killed"
    BY <1>9 DEF ToolKilled, GoOn
  <2> QED BY <1>t, <1>9, <2>1, KilledInv DEF Ready
<1>10. ASSUME \E d \in Device : DeviceRestarts(d) /\ UNCHANGED managerVars PROVE Kept
  BY <1>6, <1>10 DEF managerVars
<1>11. ASSUME UNCHANGED umVars PROVE Kept
  BY <1>7, <1>11 DEF umVars, managerVars
<1> QED
  BY <1>r, <1>1, <1>2, <1>3, <1>4, <1>5, <1>8, <1>9, <1>10, <1>11, DirectSteps

\* The invariant of the first run, with -B or without, from any state in which
\* the devices are up, two active images included, and also when threads cannot be
\* created.
THEOREM FirstRunInvariant ==
    ASSUME ~EntireNetwork
    PROVE  UMSpec => []FirstRunInv
<1>1. UMInit => FirstRunInv
  <2> SUFFICES ASSUME UMInit PROVE FirstRunInv
    OBVIOUS
  <2>1. AnyRunInv /\ IInv
    BY InitAnyRunInv, InitInv DEF UMInit
  <2>2. ASSUME NEW d \in Device PROVE Running(d) /\ ActiveImage(d, launched[d])
    BY DEF UMInit, Init, Running, BootLoaderIntact
  <2> QED BY <2>1, <2>2 DEF FirstRunInv
<1>2. FirstRunInv /\ [UMNext]_umVars => FirstRunInv'
  <2> SUFFICES ASSUME FirstRunInv, [UMNext]_umVars PROVE FirstRunInv'
    OBVIOUS
  <2>1. AnyRunInv'
    BY AnyRunNext DEF FirstRunInv
  <2>2. runs' = 1 => IInv' /\ \A d \in Device : Ready(d)'
    BY FirstRunNext
  <2> QED BY <2>1, <2>2 DEF FirstRunInv, Ready
<1> QED BY <1>1, <1>2, PTL DEF UMSpec

\* A tool that is run once is in its first run.
LEMMA RunOnce ==
    ASSUME FirstRunInv, MaxRuns = 1
    PROVE  runs = 1 /\ TypeOK /\ UMTypeOK /\ IInv
<1>1. UMTypeOK
  BY DEF FirstRunInv, AnyRunInv
<1>2. runs \in 1..1
  BY <1>1 DEF UMTypeOK
<1>3. runs = 1
  BY <1>2
<1> QED BY <1>1, <1>3 DEF FirstRunInv, AnyRunInv

\* Even when the boot loader is replaced, and whatever fails of it, no device is
\* left without an image that is complete and active.
THEOREM FirstRunKeepsImages ==
    ASSUME ~EntireNetwork, MaxRuns = 1
    PROVE  UMSpec => []SomeActiveImage
<1>1. FirstRunInv => SomeActiveImage
  BY RunOnce DEF IInv
<1> QED BY <1>1, FirstRunInvariant, PTL

\* A first run calls Ghn_Upgrade_Firmware only the way it needs to be called.
THEOREM FirstRunDisciplined ==
    ASSUME ~EntireNetwork, MaxRuns = 1
    PROVE  UMSpec => ManagerIsDisciplined
<1>1. FirstRunInv /\ [UMNext]_umVars =>
        [\A d \in Device :
            pc[d] = "idle" /\ pc'[d] # "idle" /\ Updates(opts'[d])
                => MayStart(d, opts'[d])]_umVars
  <2> SUFFICES ASSUME FirstRunInv, [UMNext]_umVars, NEW d \in Device,
                      pc[d] = "idle", pc'[d] # "idle", Updates(opts'[d])
               PROVE  MayStart(d, opts'[d])
    OBVIOUS
  <2>t. TypeOK /\ UMTypeOK /\ runs = 1
    BY RunOnce
  <2>1. ASSUME NEW e \in Device, ThreadStarts(e) PROVE MayStart(d, opts'[d])
    <3>1. CASE e = d
      BY <2>t, <2>1, <3>1, DirectStartsWell
    <3>2. CASE e # d
      BY <2>t, <2>1, <3>2, OtherThreads DEF ThreadStarts, SameCall
    <3> QED BY <3>1, <3>2
  <2>2. ASSUME NEW e \in Device, ThreadSteps(e) PROVE FALSE
    <3>1. CallStep(e) /\ e \in Call
      BY <2>2, OwnDevices DEF ThreadSteps
    <3>2. e # d
      BY <3>1, CallStepLive
    <3> QED BY <2>t, <3>1, <3>2, OtherThreads DEF SameCall
  <2>3. CASE ToolKilled
    BY <2>3, OwnDevices DEF ToolKilled
  <2>4. CASE UNCHANGED pc
    BY <2>4
  <2>5. \/ UNCHANGED pc \/ ToolKilled
        \/ \E e \in Device : ThreadStarts(e) \/ ThreadSteps(e)
    BY DirectSteps
       DEF StartThread, ThreadEnds, UpgradeVerdict, AllReset,
           Summary, AllStopped, SendReset, DeviceRestarts, RunAgain, umVars, vars,
           callVars
  <2> QED BY <2>1, <2>2, <2>3, <2>4, <2>5
<1> QED BY <1>1, FirstRunInvariant, PTL DEF UMSpec, ManagerIsDisciplined

\* A first run implements the A/B update, also while it replaces the boot loader:
\* the images the device can be started from change one at a time, and never the
\* last one goes.
THEOREM FirstRunImplementsABUpdate ==
    ASSUME ~EntireNetwork, MaxRuns = 1
    PROVE  UMSpec => ImplementsABUpdate
<1>1. UMInit => AB!Init
  <2> SUFFICES ASSUME UMInit PROVE AB!Init
    OBVIOUS
  <2>1. TypeOK /\ SomeActiveImage
    BY InitInv DEF UMInit, IInv
  <2>2. AB!TypeOK
    BY <2>1, BootableTypes DEF AB!TypeOK, Bootable
  <2>3. \A d \in Device : Bootable[d] # {}
    BY <2>1, BootableMembers DEF SomeActiveImage
  <2> QED BY <2>2, <2>3 DEF AB!Init, Bootable
<1>2. ASSUME FirstRunInv, FirstRunInv', [UMNext]_umVars
      PROVE  AB!Next \/ UNCHANGED Bootable
  <2>t. IInv /\ TypeOK'
    BY <1>2, RunOnce DEF FirstRunInv, AnyRunInv
  <2>1. ASSUME NEW d \in Device, ThreadSteps(d) PROVE AB!Next \/ UNCHANGED Bootable
    BY <2>t, <2>1, OwnDevices, CallStepMaps DEF ThreadSteps
  <2>2. \/ \E d \in Device : ThreadSteps(d)
        \/ UNCHANGED <<fw, intact, activeByte>>
    BY <1>2, DirectSteps
       DEF StartThread, ThreadStarts, StartCall, ThreadEnds, UpgradeVerdict,
           AllReset, Summary, AllStopped, SendReset,
           DeviceRestarts, Reboot, ToolKilled, RunAgain, umVars, vars, deviceVars
  <2> QED BY <2>1, <2>2, SameImages
<1>3. FirstRunInv /\ FirstRunInv' /\ [UMNext]_umVars => [AB!Next]_Bootable
  BY <1>2
<1> QED BY <1>1, <1>3, FirstRunInvariant, PTL
       DEF UMSpec, ImplementsABUpdate, AB!Spec, Bootable

=============================================================================
