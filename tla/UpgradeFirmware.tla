-------------------------- MODULE UpgradeFirmware --------------------------
(***************************************************************************)
(* Ghn_Upgrade_Firmware() of GHN_LIB/src/GHN_LIB_UpgradeFW.c: one call     *)
(* upgrades one G.hn device over the network.  A device holds two firmware *)
(* images (FW1 and FW2, here slots 1 and 2) and a boot loader that starts  *)
(* an image whose "active byte" is 1.  The call reads which image the      *)
(* device was launched from, writes the new firmware into the other slot,  *)
(* sets that slot's active byte and then clears the old one's, or, when it *)
(* also replaces the boot loader, erases the old image.                    *)
(*                                                                         *)
(* Several calls may run at once, one per thread of the update manager;    *)
(* every command of a call may fail before it reaches the device, after it *)
(* took effect (the reply is lost), or half-way (an erase), the device may *)
(* restart and the tool may die between any two commands.                  *)
(*                                                                         *)
(* The flash and the restart of the device are not in the repository: they *)
(* are modelled from how this code uses them.                              *)
(***************************************************************************)
EXTENDS Integers, FiniteSets

CONSTANTS
    Device,         \* the devices of the network
    Firmware,       \* the contents a firmware image can have
    SectionCount,   \* sections Ghn_Program_Flash_Sections writes per image
    Call,           \* the calls (threads) that may be in progress
    Target,         \* the device each call works on
    Requests,       \* the sets of options a call may be made with
    Disciplined     \* TRUE: callers respect MayStart below

Option == {"upgrade", "activate", "bootloader", "detail", "query", "resetOnError"}

ASSUME SectionAssumption == SectionCount \in Nat \ {0}
ASSUME TargetAssumption == Target \in [Call -> Device]
ASSUME RequestsAssumption == Requests \subseteq SUBSET Option
ASSUME DisciplinedAssumption == Disciplined \in BOOLEAN
ASSUME FirmwareAssumption == Firmware # {}

Slot == {1, 2}
Section == 1..SectionCount      \* 1 is FW SPI, the image's table of contents
Other(s) == 3 - s

VARIABLES
    \* the devices
    fw,             \* fw[d][s]: the firmware last written to slot s
    intact,         \* intact[d][s]: the sections of that firmware on the flash
    activeByte,     \* activeByte[d][s]: 255 (erased), 1 (active) or 0
    bootLoader,     \* "older" (version < 18), "current", "erased" or "header"
    mode,           \* what the device runs: "FW", "B1" or "BootCode"
    launched,       \* the slot GetFwState reports
    \* the calls
    pc,             \* the next step of the call, "idle" outside a call
    opts, bin,      \* the options and the BIN file of the call
    seen,           \* readFlashInformation.sGhnGetActiveFWState.launched
    next,           \* the next section to program
    stat            \* the status the last call returned

deviceVars == <<fw, intact, activeByte, bootLoader, mode, launched>>
callVars == <<pc, opts, bin, seen, next, stat>>
vars == <<fw, intact, activeByte, bootLoader, mode, launched,
          pc, opts, bin, seen, next, stat>>

Byte == {255, 1, 0}
BootLoader == {"older", "current", "erased", "header"}
Step == {"idle", "checkBin", "chipType", "readFlash", "open", "enter",
         "parseTable", "erase", "updateBlocks", "program", "setActive",
         "eraseBoot", "programEBL", "programB1", "eraseActive", "clearActive",
         "query", "exit"}
Status == {"NONE", "SUCCESS", "FAILURE", "OLD_EBL_VERSION",
           "CHIP_TYPE_MISMATCH", "CRASHED"}

-----------------------------------------------------------------------------
(* The device's flash. *)

Complete(d, s) == intact[d][s] = Section
ActiveImage(d, s) == Complete(d, s) /\ activeByte[d][s] = 1
BootLoaderIntact(d) == bootLoader[d] \in {"older", "current"}

\* Flash bits can only be cleared by a write: 255 -> 1 -> 0, and 1 over 0 is 0.
Written(old, new) == IF new < old THEN new ELSE old

\* The whole slot is erased.
EraseSlot(d, s) ==
    /\ intact' = [intact EXCEPT ![d][s] = {}]
    /\ activeByte' = [activeByte EXCEPT ![d][s] = 255]

\* An erase that failed: what remains of the image is any part of it.
TornErase(d, s) ==
    \E kept \in SUBSET intact[d][s], b \in {activeByte[d][s], 255} :
        /\ intact' = [intact EXCEPT ![d][s] = kept]
        /\ activeByte' = [activeByte EXCEPT ![d][s] = b]

WriteSection(d, s, i, f) ==
    /\ intact' = [intact EXCEPT ![d][s] = @ \cup {i}]
    /\ fw' = [fw EXCEPT ![d][s] = f]

WriteActiveByte(d, s, b) ==
    activeByte' = [activeByte EXCEPT ![d][s] = Written(@, b)]

\* The device restarts (power cycle or reset command): an intact boot loader
\* launches an active image when there is one and stays in B1 otherwise.
Reboot(d) ==
    /\ \/ /\ ~BootLoaderIntact(d)
          /\ mode' = [mode EXCEPT ![d] = "BootCode"]
          /\ UNCHANGED launched
       \/ /\ BootLoaderIntact(d)
          /\ \E s \in Slot :
                /\ ActiveImage(d, s)
                /\ launched' = [launched EXCEPT ![d] = s]
          /\ mode' = [mode EXCEPT ![d] = "FW"]
       \/ /\ BootLoaderIntact(d)
          /\ \A s \in Slot : ~ActiveImage(d, s)
          /\ \E s \in Slot : launched' = [launched EXCEPT ![d] = s]
          /\ mode' = [mode EXCEPT ![d] = "B1"]
    /\ UNCHANGED <<fw, intact, activeByte, bootLoader>>

-----------------------------------------------------------------------------
(* Control flow of a call. *)

Upgrades(o) == "upgrade" \in o
Activates(o) == "activate" \in o
ReplacesBootLoader(o) == "bootloader" \in o
Updates(o) == Upgrades(o) \/ Activates(o)

AfterUpdate(o) == IF "query" \in o THEN "query" ELSE "exit"
\* Mutant: the old image is left active.
BothLeftActive(o) == AfterUpdate(o)
AfterSetActive(o) == IF ReplacesBootLoader(o) THEN "eraseBoot"
                     ELSE IF Activates(o) THEN "clearActive"
                     ELSE AfterUpdate(o)
\* Mutant: the old image is cleared before the new one is set.
ClearsFirst(o) == IF Activates(o) THEN "clearActive" ELSE AfterSetActive(o)
\* Mutant: the active byte is not set when the boot loader is replaced.
BootLoaderFirst(o) == IF ReplacesBootLoader(o) THEN "eraseBoot"
                      ELSE IF Activates(o) THEN "setActive" ELSE AfterSetActive(o)
AfterProgram(o) == IF Activates(o) THEN "setActive" ELSE AfterSetActive(o)
\* Mutant: the slot is programmed without being erased.
SkipsErase(o) == IF Upgrades(o) THEN "updateBlocks" ELSE AfterProgram(o)
AfterParseTable(o) == IF Upgrades(o) THEN "erase" ELSE AfterProgram(o)
AfterEnter(o) == IF Updates(o) THEN "parseTable" ELSE AfterUpdate(o)
AfterOpen(o) == IF Upgrades(o) THEN "enter" ELSE AfterEnter(o)
AfterChipType(o) == IF Updates(o) \/ "detail" \in o THEN "readFlash" ELSE "open"
FirstStep(o) == IF Updates(o) THEN "checkBin" ELSE "chipType"

GoTo(c, label) == pc' = [pc EXCEPT ![c] = label]

\* "goto exit" with GHN_LIB_STAT = st; the call's locals are gone afterwards.
Leave(c, st) ==
    /\ GoTo(c, "idle")
    /\ stat' = [stat EXCEPT ![c] = st]
    /\ opts' = [opts EXCEPT ![c] = {}]
    /\ seen' = [seen EXCEPT ![c] = 1]
    /\ next' = [next EXCEPT ![c] = 1]
    /\ UNCHANGED bin

Locals == <<opts, bin, seen, next, stat>>

\* The call goes on to its next step; only pc changes in the tool.
Advance(c, label) == GoTo(c, label) /\ UNCHANGED Locals

Fail(c, st) == Leave(c, st) /\ UNCHANGED deviceVars

-----------------------------------------------------------------------------
(* What the callers must respect for a device to stay bootable.  The code  *)
(* of Ghn_Upgrade_Firmware checks none of it.                              *)

\* The other image is the complete new firmware, not activated before.
Staged(d) == /\ Complete(d, Other(launched[d]))
             /\ activeByte[d][Other(launched[d])] # 0

MayStart(c, o) ==
    LET d == Target[c] IN
    /\ \A x \in Call : Target[x] = d => pc[x] = "idle"
    /\ mode[d] = "FW"
    /\ ActiveImage(d, launched[d])          \* restarted since the last update
    /\ ReplacesBootLoader(o) => Upgrades(o) /\ Activates(o)
    /\ (Activates(o) /\ ~Upgrades(o)) => Staged(d)

-----------------------------------------------------------------------------
(* The steps of one call.  The device is d == Target[c], its old image is  *)
(* in slot seen[c] and the image the call works on in Other(seen[c]).      *)

\* ThreadProc calls Ghn_Upgrade_Firmware with options o and BIN file f.
StartCall(c) ==
    /\ pc[c] = "idle"
    /\ \E o \in Requests, f \in Firmware :
          /\ Disciplined => MayStart(c, o)
          /\ opts' = [opts EXCEPT ![c] = o]
          /\ bin' = [bin EXCEPT ![c] = f]
          /\ GoTo(c, FirstStep(o))
    /\ stat' = [stat EXCEPT ![c] = "NONE"]
    /\ UNCHANGED <<seen, next, deviceVars>>

\* Load_BIN_file, Validate_BIN_file.
CheckBinFile(c) ==
    /\ pc[c] = "checkBin"
    /\ \/ Advance(c, "chipType") /\ UNCHANGED deviceVars
       \/ Fail(c, "FAILURE")

\* Ghn_Get_Chip_Type_Information, Validate_Chip_Type.
CheckChipType(c) ==
    /\ pc[c] = "chipType"
    /\ \/ Advance(c, AfterChipType(opts[c])) /\ UNCHANGED deviceVars
       \/ Fail(c, "FAILURE")
       \/ Updates(opts[c]) /\ Fail(c, "CHIP_TYPE_MISMATCH")

\* What Ghn_Read_Flash_Information must be able to read: the boot loader's
\* table, and of the launched image its table and its parameter blocks.
Readable(d, s) ==
    /\ mode[d] # "BootCode"
    /\ BootLoaderIntact(d)
    /\ {1, SectionCount} \subseteq intact[d][s]

\* Ghn_Read_Flash_Information, the tests of EBL_Version, the choice of slots.
\* An older boot loader is refused while the flash is read (version < 15) or
\* after it (version < 18, unless the call replaces the boot loader).
ReadFlashInformation(c) ==
    LET d == Target[c] IN
    /\ pc[c] = "readFlash"
    /\ \/ /\ Readable(d, launched[d])
          /\ bootLoader[d] = "current" \/ ReplacesBootLoader(opts[c])
          /\ seen' = [seen EXCEPT ![c] = launched[d]]
          /\ GoTo(c, "open")
          /\ UNCHANGED <<opts, bin, next, stat, deviceVars>>
       \/ bootLoader[d] = "older" /\ Fail(c, "OLD_EBL_VERSION")
       \/ Fail(c, "FAILURE")

\* Open_Layer2_Connection.
OpenConnection(c) ==
    /\ pc[c] = "open"
    /\ \/ Advance(c, AfterOpen(opts[c])) /\ UNCHANGED deviceVars
       \/ Fail(c, "FAILURE")

\* Enter_Remote_FW_UpgradeCommandFunction.
EnterRemoteUpgrade(c) ==
    /\ pc[c] = "enter"
    /\ \/ Advance(c, AfterEnter(opts[c])) /\ UNCHANGED deviceVars
       \/ Fail(c, "FAILURE")

\* Parse_FW_Table of the BIN file; on a failure the device may be reset.
ParseFWTable(c) ==
    /\ pc[c] = "parseTable"
    /\ \/ Advance(c, AfterParseTable(opts[c])) /\ UNCHANGED deviceVars
       \/ Fail(c, "FAILURE")
       \/ /\ "resetOnError" \in opts[c]
          /\ Reboot(Target[c])
          /\ Leave(c, "FAILURE")

\* Mutant: the launched slot is erased.
ErasesLaunched(c) ==
    /\ pc[c] = "erase"
    /\ EraseSlot(Target[c], seen[c])
    /\ Advance(c, "updateBlocks")
    /\ UNCHANGED <<fw, bootLoader, mode, launched>>

\* Ghn_Erase_Flash_FW of the slot to program, in one erase command.
EraseInactive(c) ==
    LET d == Target[c]
        s == Other(seen[c]) IN
    /\ pc[c] = "erase"
    /\ \/ EraseSlot(d, s) /\ Advance(c, "updateBlocks")
       \/ TornErase(d, s) /\ Leave(c, "FAILURE")
    /\ UNCHANGED <<fw, bootLoader, mode, launched>>

\* The device's own parameters are copied into the image in memory.
UpdateBlocks(c) ==
    /\ pc[c] = "updateBlocks"
    /\ \/ Advance(c, "program") /\ UNCHANGED deviceVars
       \/ Fail(c, "FAILURE")

\* Programs a section, after which the call is done with the image if last
\* holds and else goes on to section following (for the mutants below).
Programs(c, last, following) ==
    /\ pc[c] = "program"
    /\ WriteSection(Target[c], Other(seen[c]), next[c], bin[c])
    /\ IF last THEN GoTo(c, AfterProgram(opts[c])) /\ UNCHANGED next
               ELSE next' = [next EXCEPT ![c] = following] /\ UNCHANGED pc
    /\ UNCHANGED <<opts, bin, seen, stat>>
    /\ UNCHANGED <<activeByte, bootLoader, mode, launched>>

\* Mutants: the loop stops one section early, one too late, or starts again.
StopsEarly(c) == Programs(c, next[c] >= SectionCount - 1, next[c] + 1)
StopsLate(c) == Programs(c, next[c] > SectionCount, next[c] + 1)
StartsAgain(c) == Programs(c, FALSE, IF next[c] < SectionCount THEN next[c] + 1 ELSE 1)

\* One Ghn_Program_Flash_Section of Ghn_Program_Flash_Sections.
ProgramSection(c) ==
    LET d == Target[c]
        s == Other(seen[c]) IN
    /\ pc[c] = "program"
    /\ \/ /\ WriteSection(d, s, next[c], bin[c])
          /\ IF next[c] < SectionCount
               THEN /\ next' = [next EXCEPT ![c] = @ + 1]
                    /\ UNCHANGED pc
               ELSE /\ GoTo(c, AfterProgram(opts[c]))
                    /\ UNCHANGED next
          /\ UNCHANGED <<opts, bin, seen, stat>>
       \/ /\ WriteSection(d, s, next[c], bin[c])     \* the reply is lost
          /\ Leave(c, "FAILURE")
       \/ /\ UNCHANGED <<intact, fw>>
          /\ Leave(c, "FAILURE")
    /\ UNCHANGED <<activeByte, bootLoader, mode, launched>>

\* Mutant: the status of the command is not tested.
SetUntested(c) ==
    /\ pc[c] = "setActive"
    /\ \/ WriteActiveByte(Target[c], Other(seen[c]), 1)
       \/ UNCHANGED activeByte
    /\ Advance(c, AfterSetActive(opts[c]))
    /\ UNCHANGED <<fw, intact, bootLoader, mode, launched>>

\* Ghn_Update_Active_Bit with ActiveBit = 0x01 on the slot just programmed.
SetActive(c) ==
    LET d == Target[c]
        s == Other(seen[c]) IN
    /\ pc[c] = "setActive"
    /\ \/ WriteActiveByte(d, s, 1) /\ Advance(c, AfterSetActive(opts[c]))
       \/ WriteActiveByte(d, s, 1) /\ Leave(c, "FAILURE")
       \/ UNCHANGED activeByte /\ Leave(c, "FAILURE")
    /\ UNCHANGED <<fw, intact, bootLoader, mode, launched>>

WriteBootLoader(d, b) == bootLoader' = [bootLoader EXCEPT ![d] = b]

\* Ghn_Erase_Flash_BootLoader.
EraseBootLoader(c) ==
    LET d == Target[c] IN
    /\ pc[c] = "eraseBoot"
    /\ \/ WriteBootLoader(d, "erased") /\ Advance(c, "programEBL")
       \/ /\ \E b \in {bootLoader[d], "header", "erased"} : WriteBootLoader(d, b)
          /\ Leave(c, "FAILURE")
    /\ UNCHANGED <<fw, intact, activeByte, mode, launched>>

\* Ghn_Program_Flash_Sections with bUpdate_EBL, first part: the EBL SPI table.
ProgramEBL(c) ==
    LET d == Target[c]
        with == IF bootLoader[d] = "erased" THEN "header" ELSE bootLoader[d] IN
    /\ pc[c] = "programEBL"
    /\ \/ WriteBootLoader(d, with) /\ Advance(c, "programB1")
       \/ /\ \E b \in {bootLoader[d], with} : WriteBootLoader(d, b)
          /\ Leave(c, "FAILURE")
    /\ UNCHANGED <<fw, intact, activeByte, mode, launched>>

\* ... second part: the code of the boot loader, EBL B1.
ProgramB1(c) ==
    LET d == Target[c]
        with == IF bootLoader[d] = "header" THEN "current" ELSE bootLoader[d] IN
    /\ pc[c] = "programB1"
    /\ \/ WriteBootLoader(d, with) /\ Advance(c, "eraseActive")
       \/ /\ \E b \in {bootLoader[d], with} : WriteBootLoader(d, b)
          /\ Leave(c, "FAILURE")
    /\ UNCHANGED <<fw, intact, activeByte, mode, launched>>

\* Ghn_Erase_Flash_FW of the old image, one 4KB block per command.
EraseActive(c) ==
    LET d == Target[c]
        s == seen[c] IN
    /\ pc[c] = "eraseActive"
    /\ \/ EraseSlot(d, s) /\ Advance(c, AfterUpdate(opts[c]))
       \/ /\ TornErase(d, s)
          /\ intact'[d][s] # intact[d][s]
          /\ UNCHANGED <<pc, Locals>>
       \/ TornErase(d, s) /\ Leave(c, "FAILURE")
    /\ UNCHANGED <<fw, bootLoader, mode, launched>>

\* Ghn_Update_Active_Bit with ActiveBit = 0x00 on the old image.
ClearActive(c) ==
    LET d == Target[c]
        s == seen[c] IN
    /\ pc[c] = "clearActive"
    /\ \/ WriteActiveByte(d, s, 0) /\ Advance(c, AfterUpdate(opts[c]))
       \/ WriteActiveByte(d, s, 0) /\ Leave(c, "FAILURE")
       \/ UNCHANGED activeByte /\ Leave(c, "FAILURE")
    /\ UNCHANGED <<fw, intact, bootLoader, mode, launched>>

\* Ghn_QueryDeviceAfter_Upgrade_FW: the device must answer that it runs FW.
QueryDevice(c) ==
    /\ pc[c] = "query"
    /\ \/ mode[Target[c]] = "FW" /\ Advance(c, "exit") /\ UNCHANGED deviceVars
       \/ Fail(c, "FAILURE")

\* The end of the function: Close_Layer2_Connection and the status.
Return(c) ==
    /\ pc[c] = "exit"
    /\ Leave(c, "SUCCESS")
    /\ UNCHANGED deviceVars

CallStep(c) ==
    \/ CheckBinFile(c) \/ CheckChipType(c) \/ ReadFlashInformation(c)
    \/ OpenConnection(c) \/ EnterRemoteUpgrade(c) \/ ParseFWTable(c)
    \/ EraseInactive(c) \/ UpdateBlocks(c) \/ ProgramSection(c)
    \/ SetActive(c)
    \/ EraseBootLoader(c) \/ ProgramEBL(c) \/ ProgramB1(c) \/ EraseActive(c)
    \/ ClearActive(c)
    \/ QueryDevice(c) \/ Return(c)

-----------------------------------------------------------------------------
(* The environment. *)

\* The power of the device is cycled, or another tool resets it.
DeviceRestarts(d) == Reboot(d) /\ UNCHANGED callVars

\* The process of the tool is killed during a call.
ToolCrashes(c) == pc[c] # "idle" /\ Fail(c, "CRASHED")

\* A device runs one of its images; the other slot is as an earlier update,
\* complete or not, left it.
Init ==
    /\ fw \in [Device -> [Slot -> Firmware]]
    /\ launched \in [Device -> Slot]
    /\ intact \in [Device -> [Slot -> {Section, {1}, {}}]]
    /\ activeByte \in [Device -> [Slot -> Byte]]
    /\ \A d \in Device :
          /\ ActiveImage(d, launched[d])
          /\ LET s == Other(launched[d]) IN
                /\ intact[d][s] = {} => activeByte[d][s] = 255
                /\ intact[d][s] = {1} => activeByte[d][s] = 255
    /\ bootLoader \in [Device -> {"older", "current"}]
    /\ mode = [d \in Device |-> "FW"]
    /\ pc = [c \in Call |-> "idle"]
    /\ opts = [c \in Call |-> {}]
    /\ bin \in [Call -> Firmware]
    /\ seen = [c \in Call |-> 1]
    /\ next = [c \in Call |-> 1]
    /\ stat = [c \in Call |-> "NONE"]

Next ==
    \/ \E c \in Call : StartCall(c) \/ CallStep(c) \/ ToolCrashes(c)
    \/ \E d \in Device : DeviceRestarts(d)

\* Every command of the console returns: it is answered or it times out.
Fairness == \A c \in Call : WF_vars(CallStep(c))

Spec == Init /\ [][Next]_vars
FairSpec == Spec /\ Fairness

-----------------------------------------------------------------------------
(* Properties. *)

\* Every variable holds values of its kind.
TypeOK ==
    /\ fw \in [Device -> [Slot -> Firmware]]
    /\ intact \in [Device -> [Slot -> SUBSET Section]]
    /\ activeByte \in [Device -> [Slot -> Byte]]
    /\ bootLoader \in [Device -> BootLoader]
    /\ mode \in [Device -> {"FW", "B1", "BootCode"}]
    /\ launched \in [Device -> Slot]
    /\ pc \in [Call -> Step]
    /\ opts \in [Call -> SUBSET Option]
    /\ bin \in [Call -> Firmware]
    /\ seen \in [Call -> Slot]
    /\ next \in [Call -> Section]
    /\ stat \in [Call -> Status]

\* Whatever command of an update fails, and wherever the tool dies or the
\* device restarts, the device keeps a complete image whose active byte is 1:
\* the order "program, set the new byte, only then clear (or erase) the old".
SomeActiveImage == \A d \in Device : \E s \in Slot : ActiveImage(d, s)

\* Without option -B the boot loader is never touched, so a device can always
\* be restarted into a firmware.
AlwaysBootable ==
    \A d \in Device : BootLoaderIntact(d) /\ \E s \in Slot : ActiveImage(d, s)

\* The boot loader is replaced only once the new image is the one it will
\* find: while the boot loader is not intact, the slot the call programmed is
\* active and holds the BIN file of the call.
BootLoaderWindow ==
    \A c \in Call :
        pc[c] \in {"programEBL", "programB1", "eraseActive"} =>
            LET d == Target[c] IN
            /\ ActiveImage(d, Other(seen[c]))
            /\ fw[d][Other(seen[c])] = bin[c]

\* A call that is about to return SUCCESS after an activation has switched the
\* device over: the image it worked on is complete and active (and holds the
\* BIN file, if the call programmed it), the old image is not active any more.
SuccessMeansInstalled ==
    \A c \in Call :
        pc[c] = "exit" /\ Activates(opts[c]) =>
            LET d == Target[c] IN
            /\ ActiveImage(d, Other(seen[c]))
            /\ ~ActiveImage(d, seen[c])
            /\ Upgrades(opts[c]) => fw[d][Other(seen[c])] = bin[c]
            /\ ReplacesBootLoader(opts[c]) => bootLoader[d] = "current"

\* No step activates an image that is not complete: a section whose
\* programming failed must stop the call before it writes the active byte.
OnlyCompleteImagesActivated ==
    [][\A d \in Device, s \in Slot :
          activeByte[d][s] # 1 /\ activeByte'[d][s] = 1 => Complete(d, s)]_vars

\* Every call returns: each of its commands is answered or times out.
CallsReturn == \A c \in Call : pc[c] # "idle" ~> pc[c] = "idle"

-----------------------------------------------------------------------------
(* The inductive invariant behind SomeActiveImage, for disciplined callers. *)

BeforeRead == {"checkBin", "chipType", "readFlash"}
Preparing == {"open", "enter", "parseTable"}
Programming == {"erase", "updateBlocks", "program"}
AfterSet == {"eraseBoot", "programEBL", "programB1", "eraseActive", "clearActive"}

\* A device is never worked on by two calls.
OneCallPerDevice ==
    \A x, y \in Call :
        Target[x] = Target[y] /\ pc[x] # "idle" /\ pc[y] # "idle" => x = y

\* The steps a call takes are those its options ask for.
StepsMatchOptions(c) ==
    /\ pc[c] # "idle" => (ReplacesBootLoader(opts[c]) =>
                            Upgrades(opts[c]) /\ Activates(opts[c]))
    /\ pc[c] \in Programming \cup {"enter"} => Upgrades(opts[c])
    /\ pc[c] = "parseTable" => Updates(opts[c])
    /\ pc[c] \in AfterSet \cup {"setActive"} => Activates(opts[c])
    /\ pc[c] \in AfterSet => (ReplacesBootLoader(opts[c]) <=> pc[c] # "clearActive")

\* Until the new image is active, the old one is.
OldImageKept(c) ==
    LET d == Target[c] IN
    Updates(opts[c]) =>
        /\ pc[c] \in BeforeRead => ActiveImage(d, launched[d])
        /\ pc[c] \in Preparing \cup Programming \cup {"setActive"} =>
               ActiveImage(d, seen[c])

\* A call that only activates finds both images complete and neither retired.
StagedImageKept(c) ==
    /\ Activates(opts[c]) /\ ~Upgrades(opts[c])
    /\ pc[c] \in BeforeRead \cup Preparing
    => \A s \in Slot : Complete(Target[c], s) /\ activeByte[Target[c]][s] # 0

\* The sections before next, and no other, are programmed; the image's active
\* byte is as the erase left it.
ProgramProgress(c) ==
    LET d == Target[c]
        s == Other(seen[c]) IN
    /\ pc[c] \in BeforeRead \cup Preparing \cup {"idle", "erase", "updateBlocks"} =>
           next[c] = 1
    /\ pc[c] = "updateBlocks" => intact[d][s] = {} /\ activeByte[d][s] = 255
    /\ pc[c] = "program" => /\ intact[d][s] = 1..(next[c] - 1)
                            /\ activeByte[d][s] = 255
                            /\ next[c] > 1 => fw[d][s] = bin[c]

\* From the end of the programming on, the new image is complete, from the
\* set command on it is active, and at the end the old one is not.
NewImageKept(c) ==
    LET d == Target[c]
        s == Other(seen[c]) IN
    /\ pc[c] = "setActive" => Complete(d, s) /\ activeByte[d][s] # 0
    /\ pc[c] \in AfterSet => ActiveImage(d, s)
    /\ pc[c] \in AfterSet \cup {"setActive"} => (Upgrades(opts[c]) => fw[d][s] = bin[c])
    /\ pc[c] \in {"query", "exit"} /\ Activates(opts[c]) =>
           /\ ActiveImage(d, s)
           /\ ~ActiveImage(d, seen[c])
           /\ Upgrades(opts[c]) => fw[d][s] = bin[c]

\* The boot loader is programmed part by part.
BootLoaderProgress(c) ==
    LET b == bootLoader[Target[c]] IN
    /\ pc[c] = "programEBL" => b = "erased"
    /\ pc[c] = "programB1" => b = "header"
    /\ pc[c] = "eraseActive" => b = "current"
    /\ pc[c] \in {"query", "exit"} /\ ReplacesBootLoader(opts[c]) => b = "current"

CallInv(c) ==
    /\ StepsMatchOptions(c)
    /\ OldImageKept(c)
    /\ StagedImageKept(c)
    /\ ProgramProgress(c)
    /\ NewImageKept(c)
    /\ BootLoaderProgress(c)

\* The inductive invariant.
IInv ==
    /\ TypeOK
    /\ SomeActiveImage
    /\ OneCallPerDevice
    /\ \A c \in Call : CallInv(c)

-----------------------------------------------------------------------------
\* The abstract A/B update: the images a device can be started from.
BootableImages(d) == {<<s, fw[d][s]>> : s \in {t \in Slot : ActiveImage(d, t)}}

AB == INSTANCE ABUpdate
        WITH Image <- Slot \X Firmware,
             bootable <- [d \in Device |-> BootableImages(d)]

\* Every step of the calls, and of the faults, is a step of the A/B update:
\* it adds one image to those the device can be started from, or removes one
\* while another remains.
ImplementsABUpdate == AB!Spec

============================================================================
