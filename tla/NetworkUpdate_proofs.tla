------------------------- MODULE NetworkUpdate_proofs -------------------------
(***************************************************************************)
(* um -E, run once on devices with one active image and without -B, is an  *)
(* atomic commitment of the network (NetworkUpdate), and one A/B update of *)
(* each of its devices (ABUpdate), for any devices and any sections.       *)
(***************************************************************************)
EXTENDS UpdateManager_proofs

USE DEF Upgrades, Activates, ReplacesBootLoader, Updates

-----------------------------------------------------------------------------
(* What a device's flash says of it. *)

\* What a device is in the commitment depends on its flash only.
LEMMA ImageFrame ==
    ASSUME NEW d \in Device, fw'[d] = fw[d], intact'[d] = intact[d],
           activeByte'[d] = activeByte[d]
    PROVE  ImageOf(d)' = ImageOf(d)
<1>1. HoldsNew(d)' <=> HoldsNew(d)
  BY DEF HoldsNew, Complete
<1>2. RunsNewNext(d)' <=> RunsNewNext(d)
  BY DEF RunsNewNext, ActiveImage, Complete
<1>3. Switched(d)' <=> Switched(d)
  BY <1>2 DEF Switched, ActiveImage, Complete
<1> QED BY <1>1, <1>2, <1>3 DEF ImageOf

LEMMA ImagesFrame ==
    ASSUME UNCHANGED <<fw, intact, activeByte>>
    PROVE  UNCHANGED Images
BY ImageFrame DEF Images

\* What the images of the commitment stand for, now and after a step.
LEMMA ImageMeans ==
    ASSUME NEW d \in Device
    PROVE  /\ ImageOf(d) \in {"old", "staged", "both", "new"}
           /\ ImageOf(d) # "old" <=> HoldsNew(d)
           /\ ImageOf(d) \in {"both", "new"} <=> RunsNewNext(d)
           /\ ImageOf(d) = "new" <=> Switched(d)
           /\ ImageOf(d)' \in {"old", "staged", "both", "new"}
           /\ ImageOf(d)' # "old" <=> HoldsNew(d)'
           /\ ImageOf(d)' \in {"both", "new"} <=> RunsNewNext(d)'
           /\ ImageOf(d)' = "new" <=> Switched(d)'
<1>1. (RunsNewNext(d) => HoldsNew(d)) /\ (RunsNewNext(d)' => HoldsNew(d)')
  BY DEF RunsNewNext, HoldsNew, ActiveImage
<1>2. (Switched(d) => RunsNewNext(d)) /\ (Switched(d)' => RunsNewNext(d)')
  BY DEF Switched
<1> QED BY <1>1, <1>2 DEF ImageOf

\* A device that runs its old firmware is not switched, nor half switched.
LEMMA OldImages ==
    ASSUME NEW d \in Device
    PROVE  /\ launched[d] \in Slot /\ OldOnly(d) => ~RunsNewNext(d)
           /\ launched'[d] \in Slot /\ OldOnly(d)' => ~RunsNewNext(d)'
BY DEF OldOnly, RunsNewNext, Slot, Other

\* A step on one device.
LEMMA OneImage ==
    ASSUME NEW d \in Device, NEW to, ImageOf(d)' = to,
           \A e \in Device : e # d => ImageOf(e)' = ImageOf(e)
    PROVE  Images' = [Images EXCEPT ![d] = to]
BY DEF Images

-----------------------------------------------------------------------------
(* The first sections of the new firmware. *)

\* Before its call programs, nothing of the new firmware is on the device.
LEMMA UntouchedFrame ==
    ASSUME NEW d \in Device, Untouched(d), fw'[d] = fw[d],
           stage' = "upgrade" => stage = "upgrade",
           \/ d \in todo' \/ thread'[d] = "created"
           \/ pc'[d] \in BeforeRead \cup Preparing \cup {"erase", "updateBlocks"}
           => \/ d \in todo \/ thread[d] = "created"
              \/ pc[d] \in BeforeRead \cup Preparing \cup {"erase", "updateBlocks"}
    PROVE  Untouched(d)'
BY DEF Untouched

\* A step of a call writes the new firmware only when it has left that part.
LEMMA UntouchedStep ==
    ASSUME IInv, NEW d \in Device, CallStep(d), Untouched(d),
           opts[d] = RequestOf(stage), OneNetworkRun,
           stage \in {"upgrade", "activate", "query"},
           UNCHANGED <<stage, todo, thread>>, thread[d] = "calling", d \notin todo
    PROVE  Untouched(d)'
<1>t. TypeOK /\ d \in Call /\ Target[d] = d
  BY OwnDevices DEF IInv
<1> SUFFICES ASSUME stage = "upgrade",
                    pc'[d] \in BeforeRead \cup Preparing \cup {"erase", "updateBlocks"}
             PROVE  \A s \in Slot : fw'[d][s] # BinFile
  BY DEF Untouched
<1>o. /\ Upgrades(opts[d]) /\ Updates(opts[d])
      /\ ~Activates(opts[d]) /\ ~ReplacesBootLoader(opts[d])
      /\ "resetOnError" \notin opts[d] /\ "query" \notin opts[d]
  BY PhaseRequests
<1>1. ASSUME \/ CheckBinFile(d) \/ CheckChipType(d) \/ ReadFlashInformation(d)
             \/ OpenConnection(d) \/ EnterRemoteUpgrade(d) \/ ParseFWTable(d)
             \/ UpdateBlocks(d) \/ QueryDevice(d) \/ Return(d)
      PROVE  /\ UNCHANGED deviceVars
             /\ pc[d] \in BeforeRead \cup Preparing \cup {"erase", "updateBlocks"}
  <2>1. UNCHANGED deviceVars /\ HostOutcome(d)
    BY <1>1, <1>t, <1>o, HostStepOutcome
  <2> QED BY <2>1 DEF HostOutcome, BeforeRead, Preparing
<1>2. ASSUME EraseInactive(d) PROVE UNCHANGED fw /\ pc[d] = "erase"
  BY <1>2 DEF EraseInactive
<1>3. ASSUME ProgramSection(d) PROVE FALSE
  <2>1. pc[d] = "program"
    BY <1>3 DEF ProgramSection
  <2>2. pc'[d] \in {"idle", "program", AfterProgram(opts[d])}
    BY <1>3, <1>t, <2>1 DEF ProgramSection, Leave, GoTo, TypeOK
  <2> QED BY <2>2, Labels DEF BeforeRead, Preparing
<1>4. \/ CheckBinFile(d) \/ CheckChipType(d) \/ ReadFlashInformation(d)
      \/ OpenConnection(d) \/ EnterRemoteUpgrade(d) \/ ParseFWTable(d)
      \/ UpdateBlocks(d) \/ QueryDevice(d) \/ Return(d)
      \/ EraseInactive(d) \/ ProgramSection(d)
  BY <1>o, StepsOfOptions DEF CallStep, SetActive, EraseBootLoader, ProgramEBL,
     ProgramB1, EraseActive, ClearActive, AfterSet
<1>5. /\ UNCHANGED fw
      /\ pc[d] \in BeforeRead \cup Preparing \cup {"erase", "updateBlocks"}
  BY <1>1, <1>2, <1>3, <1>4 DEF deviceVars
<1> QED BY <1>5 DEF Untouched

LEMMA UntouchedNext ==
    ASSUME NetworkInv, OneNetworkRun, [UMNext]_umVars, NEW d \in Device
    PROVE  Untouched(d)'
<1>t. /\ UMTypeOK /\ IInv /\ TypeOK /\ Untouched(d)
      /\ \A e \in Device : DeviceInv(e)
  BY DEF NetworkInv, ManagerInv, IInv
<1>1. ASSUME NEW e \in Device, StartThread(e) PROVE Untouched(d)'
  <2>1. /\ stage \in {"upgrade", "activate", "query"} /\ e \in todo
        /\ todo' = todo \ {e} /\ UNCHANGED <<vars, stage>>
        /\ thread' = [thread EXCEPT ![e] = "created"] \/ UNCHANGED thread
    BY <1>1 DEF StartThread
  <2>2. d # e => thread'[d] = thread[d]
    BY <1>t, <2>1 DEF UMTypeOK
  <2> QED BY <1>t, <2>1, <2>2, UntouchedFrame DEF vars
<1>2. ASSUME NEW e \in Device, ThreadStarts(e) PROVE Untouched(d)'
  <2>1. /\ thread[e] = "created" /\ StartCall(e)
        /\ thread' = [thread EXCEPT ![e] = "calling"] /\ UNCHANGED <<stage, todo>>
    BY <1>2 DEF ThreadStarts
  <2>2. UNCHANGED fw
    BY <2>1 DEF StartCall, deviceVars
  <2>3. CASE d = e
    BY <1>t, <2>1, <2>2, <2>3 DEF Untouched
  <2>4. CASE d # e
    <3>1. pc'[d] = pc[d] /\ thread'[d] = thread[d]
      BY <1>t, <2>1, <2>4, OtherThreads DEF SameCall, UMTypeOK
    <3> QED BY <1>t, <2>1, <2>2, <3>1, UntouchedFrame
  <2> QED BY <2>3, <2>4
<1>3. ASSUME NEW e \in Device, ThreadSteps(e) PROVE Untouched(d)'
  <2>1. CallStep(e) /\ UNCHANGED <<stage, todo, thread>>
    BY <1>3 DEF ThreadSteps, managerVars
  <2>2. CASE d = e
    <3>1. /\ opts[d] = RequestOf(stage) /\ thread[d] = "calling" /\ d \notin todo
          /\ stage \in {"upgrade", "activate", "query"}
      BY <1>t, <2>1, <2>2, OwnDevices, CallStepLive
         DEF DeviceInv, ThreadsOfPhase
    <3> QED BY <1>t, <2>1, <2>2, <3>1, UntouchedStep
  <2>3. CASE d # e
    <3>1. pc'[d] = pc[d] /\ fw'[d] = fw[d]
      BY <1>t, <2>1, <2>3, OtherThreads DEF SameCall, SameDevice
    <3> QED BY <1>t, <2>1, <3>1, UntouchedFrame
  <2> QED BY <2>2, <2>3
<1>4. ASSUME NEW e \in Device, ThreadEnds(e) PROVE Untouched(d)'
  <2>1. /\ UNCHANGED <<vars, stage, todo>> /\ thread' = [thread EXCEPT ![e] = "none"]
    BY <1>4 DEF ThreadEnds
  <2>2. thread'[d] = "created" => thread[d] = "created"
    BY <1>t, <2>1 DEF UMTypeOK
  <2> QED BY <1>t, <2>1, <2>2, UntouchedFrame DEF vars
<1>5. ASSUME UpgradeVerdict \/ ActivateVerdict \/ AllReset \/ Summary
      PROVE  Untouched(d)'
  <2>1. stage' # "upgrade"
    BY <1>5 DEF UpgradeVerdict, ActivateVerdict, AllReset, Summary, GoOn
  <2> QED BY <2>1 DEF Untouched
<1>6. ASSUME NEW e \in Device, SendReset(e) PROVE Untouched(d)'
  <2>1. stage' # "upgrade"
    BY <1>6 DEF SendReset
  <2> QED BY <2>1 DEF Untouched
<1>7. ASSUME NEW e \in Device, DeviceRestarts(e), UNCHANGED managerVars
      PROVE Untouched(d)'
  BY <1>t, <1>7, UntouchedFrame DEF DeviceRestarts, Reboot, callVars, managerVars
<1>8. CASE ToolKilled
  BY <1>8 DEF ToolKilled, GoOn, Untouched
<1>9. CASE UNCHANGED umVars
  BY <1>t, <1>9, UntouchedFrame DEF umVars, vars, managerVars
<1> QED BY <1>t, <1>1, <1>2, <1>3, <1>4, <1>5, <1>6, <1>7, <1>8, <1>9, UMSteps

LEMMA InitNetworkInv == CleanInit => NetworkInv
<1> SUFFICES ASSUME CleanInit PROVE NetworkInv
  OBVIOUS
<1>1. \A d \in Device : Untouched(d)
  BY DEF CleanInit, UMInit, Untouched
<1> QED BY <1>1, InitManagerInv DEF NetworkInv

\* The inductive invariant of a network update, with what the refinement below
\* adds to it: nothing of the new firmware is on a device whose call has not
\* begun to program, so that no device is staged twice.
THEOREM NetworkInvariant ==
    ASSUME OneNetworkRun
    PROVE  CleanSpec => []NetworkInv
<1>1. CleanInit => NetworkInv
  BY InitNetworkInv
<1>2. NetworkInv /\ [UMNext]_umVars => NetworkInv'
  BY UMNextInv, UntouchedNext DEF NetworkInv
<1> QED BY <1>1, <1>2, PTL DEF CleanSpec

-----------------------------------------------------------------------------
(* Every step is a step of the commitment, or none. *)

\* In the first round the call of a device can only stage it, and once: where
\* it still erases nothing is new, and only the last section makes it complete.
LEMMA FirstRoundMaps ==
    ASSUME NetworkInv, NetworkInv', OneNetworkRun, NEW d \in Device, ThreadSteps(d),
           stage = "upgrade"
    PROVE  \/ ImageOf(d)' = ImageOf(d)
           \/ ImageOf(d) = "old" /\ ImageOf(d)' = "staged"
<1>t. /\ IInv /\ TypeOK /\ TypeOK' /\ DeviceInv(d) /\ DeviceInv(d)' /\ Untouched(d)
      /\ CallStep(d) /\ stage' = "upgrade" /\ d \in Call /\ Target[d] = d
  BY OwnDevices DEF NetworkInv, ManagerInv, IInv, ThreadSteps, managerVars
<1>u. opts[d] = {"upgrade"} /\ OldOnly(d) /\ OldOnly(d)'
  BY <1>t, PhaseRequests, CallStepLive
     DEF DeviceInv, ThreadsOfPhase, FirstRound
<1>r. ~RunsNewNext(d) /\ ~RunsNewNext(d)'
  BY <1>t, <1>u, OldImages DEF TypeOK
<1>o. /\ Upgrades(opts[d]) /\ Updates(opts[d])
      /\ ~Activates(opts[d]) /\ ~ReplacesBootLoader(opts[d])
      /\ "resetOnError" \notin opts[d] /\ "query" \notin opts[d]
  BY <1>u
<1>1. ASSUME \/ CheckBinFile(d) \/ CheckChipType(d) \/ ReadFlashInformation(d)
             \/ OpenConnection(d) \/ EnterRemoteUpgrade(d) \/ ParseFWTable(d)
             \/ UpdateBlocks(d) \/ QueryDevice(d) \/ Return(d)
      PROVE  ImageOf(d)' = ImageOf(d)
  <2>1. UNCHANGED deviceVars
    BY <1>1, <1>t, <1>o, HostStepOutcome
  <2> QED BY <2>1, ImageFrame DEF deviceVars
<1>2. ASSUME EraseInactive(d) PROVE ImageOf(d)' = ImageOf(d)
  <2>1. \A s \in Slot : fw[d][s] # BinFile /\ fw'[d][s] # BinFile
    BY <1>t, <1>2 DEF EraseInactive, Untouched
  <2>2. ~HoldsNew(d) /\ ~HoldsNew(d)'
    BY <2>1 DEF HoldsNew
  <2> QED BY <2>2, ImageMeans
<1>3. ASSUME ProgramSection(d)
      PROVE  ImageOf(d) = "old" /\ ImageOf(d)' \in {"old", "staged"}
  <2>1. /\ pc[d] = "program" /\ CallInv(d) /\ next[d] \in Section
    BY <1>t, <1>3, Facts DEF ProgramSection
  <2>2. /\ ActiveImage(d, seen[d])
        /\ intact[d][Other(seen[d])] = 1..(next[d] - 1)
    BY <1>t, <1>o, <2>1 DEF CallInv, OldImageKept, ProgramProgress, Programming
  <2>3. /\ seen[d] = launched[d] /\ launched[d] \in Slot
        /\ \A s \in Slot : s = launched[d] \/ s = Other(launched[d])
    BY <1>t, <1>u, <2>2, SlotsOfCall DEF Slot, Other
  <2>4. ~Complete(d, Other(launched[d]))
    BY <2>1, <2>2, <2>3, SectionAssumption DEF Complete, Section
  <2>5. fw[d][launched[d]] # BinFile
    BY <1>u DEF OldOnly
  <2>6. ~HoldsNew(d)
    BY <2>3, <2>4, <2>5 DEF HoldsNew
  <2> QED BY <1>r, <2>6, ImageMeans
<1>4. \/ CheckBinFile(d) \/ CheckChipType(d) \/ ReadFlashInformation(d)
      \/ OpenConnection(d) \/ EnterRemoteUpgrade(d) \/ ParseFWTable(d)
      \/ UpdateBlocks(d) \/ QueryDevice(d) \/ Return(d)
      \/ EraseInactive(d) \/ ProgramSection(d)
  BY <1>t, <1>o, StepsOfOptions DEF CallStep, SetActive, EraseBootLoader, ProgramEBL,
     ProgramB1, EraseActive, ClearActive, AfterSet
<1> QED BY <1>1, <1>2, <1>3, <1>4

\* In the second round it switches the device, or retires its old image.
LEMMA SecondRoundMaps ==
    ASSUME NetworkInv, NetworkInv', OneNetworkRun, NEW d \in Device, ThreadSteps(d),
           stage = "activate"
    PROVE  \/ ImageOf(d)' = ImageOf(d)
           \/ ImageOf(d) = "staged" /\ ImageOf(d)' = "both"
           \/ ImageOf(d) = "both" /\ ImageOf(d)' = "new"
<1>t. /\ IInv /\ TypeOK /\ TypeOK' /\ DeviceInv(d) /\ DeviceInv(d)'
      /\ CallStep(d) /\ stage' = "activate" /\ d \in Call /\ Target[d] = d
  BY OwnDevices DEF NetworkInv, ManagerInv, IInv, ThreadSteps, managerVars
<1>u. opts[d] = {"activate"} /\ thread[d] = "calling"
  BY <1>t, PhaseRequests, CallStepLive DEF DeviceInv, ThreadsOfPhase
<1>o. /\ ~Upgrades(opts[d]) /\ Updates(opts[d])
      /\ Activates(opts[d]) /\ ~ReplacesBootLoader(opts[d])
      /\ "resetOnError" \notin opts[d] /\ "query" \notin opts[d]
  BY <1>u
<1>p. /\ pc[d] \notin Programming \cup {"enter"}
      /\ pc[d] \notin {"eraseBoot", "programEBL", "programB1", "eraseActive"}
  BY <1>t, <1>o, StepsOfOptions
<1>1. ASSUME \/ CheckBinFile(d) \/ CheckChipType(d) \/ ReadFlashInformation(d)
             \/ OpenConnection(d) \/ EnterRemoteUpgrade(d) \/ ParseFWTable(d)
             \/ UpdateBlocks(d) \/ QueryDevice(d) \/ Return(d)
      PROVE  ImageOf(d)' = ImageOf(d)
  <2>1. UNCHANGED deviceVars
    BY <1>1, <1>t, <1>o, HostStepOutcome
  <2> QED BY <2>1, ImageFrame DEF deviceVars
<1>2. ASSUME SetActive(d)
      PROVE  \/ ImageOf(d)' = ImageOf(d)
             \/ ImageOf(d) = "staged" /\ ImageOf(d)' = "both"
  <2>1. OldOnly(d) /\ StagedNew(d)
    BY <1>t, <1>2 DEF SetActive, DeviceInv, SecondRound
  <2>2. ActiveImage(d, seen[d])
    BY <1>t, <1>2, <1>o, Facts DEF SetActive, CallInv, OldImageKept
  <2>s. PICK s \in Slot, t \in Slot :
            s = launched[d] /\ seen[d] = s /\ t = Other(s) /\ t # s
    BY <1>t, <2>1, <2>2, SlotsOfCall
  <2>3. /\ UNCHANGED <<fw, intact>>
        /\ UNCHANGED activeByte \/ WriteActiveByte(d, t, 1)
    BY <1>t, <1>2, <2>s DEF SetActive
  <2>4. CASE UNCHANGED activeByte
    BY <2>3, <2>4, ImageFrame
  <2>5. CASE WriteActiveByte(d, t, 1)
    <3>1. /\ activeByte'[d][t] = 1 /\ activeByte'[d][s] = activeByte[d][s]
      BY <1>t, <2>1, <2>s, <2>5 DEF WriteActiveByte, Written, StagedNew, TypeOK
    <3>2. ActiveImage(d, t)' /\ ActiveImage(d, s)'
      BY <2>1, <2>3, <2>s, <3>1 DEF OldOnly, StagedNew, ActiveImage, Complete
    <3>3. fw'[d][t] = BinFile /\ fw'[d][s] # BinFile
      BY <2>1, <2>3, <2>s DEF OldOnly, StagedNew
    <3>4. RunsNewNext(d)' /\ ~Switched(d)'
      BY <3>2, <3>3 DEF RunsNewNext, Switched
    <3>5. HoldsNew(d) /\ ~RunsNewNext(d)
      BY <1>t, <2>1, <2>s, OldImages DEF HoldsNew, StagedNew
    <3> QED BY <3>4, <3>5, ImageMeans
  <2> QED BY <2>3, <2>4, <2>5
<1>3. ASSUME ClearActive(d)
      PROVE  \/ ImageOf(d)' = ImageOf(d)
             \/ ImageOf(d) = "both" /\ ImageOf(d)' = "new"
  <2>s. PICK s \in Slot, t \in Slot : seen[d] = s /\ t = Other(s) /\ t # s
    BY <1>t, Facts
  <2>1. ActiveImage(d, t) /\ fw[d][t] = BinFile
    BY <1>t, <1>3, <2>s, Facts
       DEF ClearActive, DeviceInv, SecondRound, CallInv, NewImageKept, AfterSet
  <2>2. RunsNewNext(d)
    BY <2>1 DEF RunsNewNext
  <2>3. /\ UNCHANGED <<fw, intact>>
        /\ UNCHANGED activeByte \/ WriteActiveByte(d, s, 0)
    BY <1>t, <1>3, <2>s DEF ClearActive
  <2>4. CASE UNCHANGED activeByte
    BY <2>3, <2>4, ImageFrame
  <2>5. CASE WriteActiveByte(d, s, 0)
    <3>1. /\ activeByte'[d][s] # 1 /\ activeByte'[d][t] = activeByte[d][t]
      BY <1>t, <2>s, <2>5 DEF WriteActiveByte, Written, Byte, TypeOK
    <3>2. ActiveImage(d, t)' /\ ~ActiveImage(d, s)' /\ fw'[d][t] = BinFile
      BY <2>1, <2>3, <3>1 DEF ActiveImage, Complete
    <3>3. \A u \in Slot : u = s \/ u = t
      BY <2>s DEF Slot, Other
    <3>4. Switched(d)'
      BY <3>2, <3>3 DEF Switched, RunsNewNext
    <3> QED BY <2>2, <3>4, ImageMeans
  <2> QED BY <2>3, <2>4, <2>5
<1>4. \/ CheckBinFile(d) \/ CheckChipType(d) \/ ReadFlashInformation(d)
      \/ OpenConnection(d) \/ EnterRemoteUpgrade(d) \/ ParseFWTable(d)
      \/ UpdateBlocks(d) \/ QueryDevice(d) \/ Return(d)
      \/ SetActive(d) \/ ClearActive(d)
  BY <1>t, <1>p DEF CallStep, EraseInactive, ProgramSection, EraseBootLoader,
     ProgramEBL, ProgramB1, EraseActive, Programming
<1> QED BY <1>1, <1>2, <1>3, <1>4

\* What the steps of UMNext are for the commitment.
LEMMA StepMaps ==
    ASSUME NetworkInv, NetworkInv', OneNetworkRun, EverySwitchStarts, [UMNext]_umVars
    PROVE  Commit!Next \/ UNCHANGED <<Images, Told, Finished>>
<1>t. /\ UMTypeOK /\ IInv /\ TypeOK /\ \A e \in Device : DeviceInv(e)
      /\ UMTypeOK' /\ TypeOK'
  BY DEF NetworkInv, ManagerInv, IInv
<1>s. ASSUME UNCHANGED <<fw, intact, activeByte, stage>>, stage = "done" => UNCHANGED exitCode
      PROVE  UNCHANGED <<Images, Told, Finished>>
  BY <1>s, ImagesFrame DEF Told, Finished, Succeeded
<1>n. Told = "nothing" <=> stage \notin {"quit", "unstable", "done"}
  BY DEF Told
<1>1. ASSUME NEW d \in Device, StartThread(d)
      PROVE  UNCHANGED <<Images, Told, Finished>>
  BY <1>1, <1>s DEF StartThread, vars
<1>2. ASSUME NEW d \in Device, ThreadStarts(d)
      PROVE  UNCHANGED <<Images, Told, Finished>>
  BY <1>2, <1>s DEF ThreadStarts, StartCall, deviceVars
<1>3. ASSUME NEW d \in Device, ThreadSteps(d)
      PROVE  Commit!Next \/ UNCHANGED <<Images, Told, Finished>>
  <2>1. /\ CallStep(d) /\ UNCHANGED <<stage, exitCode>>
        /\ opts[d] = RequestOf(stage) /\ stage \in {"upgrade", "activate", "query"}
    BY <1>t, <1>3, OwnDevices, CallStepLive
       DEF ThreadSteps, managerVars, DeviceInv, ThreadsOfPhase
  <2>2. Told = "nothing" /\ UNCHANGED <<Told, Finished>>
    BY <2>1 DEF Told, Finished
  <2>3. ASSUME NEW e \in Device, e # d PROVE ImageOf(e)' = ImageOf(e)
    BY <1>t, <2>1, <2>3, OtherThreads, ImageFrame DEF SameDevice
  <2>4. CASE ImageOf(d)' = ImageOf(d)
    BY <2>2, <2>3, <2>4 DEF Images
  <2>5. CASE ImageOf(d) = "old" /\ ImageOf(d)' = "staged"
    <3>1. Images' = [Images EXCEPT ![d] = "staged"] /\ Images[d] = "old"
      BY <2>3, <2>5, OneImage DEF Images
    <3> QED BY <2>2, <3>1 DEF Commit!Next, Commit!Stage, Commit!Becomes
  <2>6. CASE ImageOf(d) = "staged" /\ ImageOf(d)' = "both" /\ stage = "activate"
    <3>1. Images' = [Images EXCEPT ![d] = "both"] /\ Images[d] = "staged"
      BY <2>3, <2>6, OneImage DEF Images
    <3>2. \A e \in Device : Images[e] # "old"
      BY <1>t, <2>6, ImageMeans DEF DeviceInv, SecondRound, Images
    <3> QED BY <2>2, <3>1, <3>2 DEF Commit!Next, Commit!Switch, Commit!Becomes
  <2>7. CASE ImageOf(d) = "both" /\ ImageOf(d)' = "new"
    <3>1. Images' = [Images EXCEPT ![d] = "new"] /\ Images[d] = "both"
      BY <2>3, <2>7, OneImage DEF Images
    <3> QED BY <2>2, <3>1 DEF Commit!Next, Commit!Retire, Commit!Becomes
  <2>8. CASE stage = "query"
    <3>1. UNCHANGED deviceVars
      BY <1>t, <2>1, <2>8, PhaseRequests, QueryRoundStep
    <3> QED BY <2>2, <3>1, ImagesFrame DEF deviceVars
  <2> QED
    BY <1>3, <2>1, <2>4, <2>5, <2>6, <2>7, <2>8, FirstRoundMaps, SecondRoundMaps
<1>4. ASSUME NEW d \in Device, ThreadEnds(d)
      PROVE  UNCHANGED <<Images, Told, Finished>>
  <2>1. stage # "done" /\ UNCHANGED <<vars, stage>>
    BY <1>t, <1>4 DEF ThreadEnds, DeviceInv, ThreadsOfPhase
  <2> QED BY <1>s, <2>1 DEF vars
<1>5. CASE UpgradeVerdict
  <2>1. /\ stage = "upgrade" /\ UNCHANGED <<fw, intact, activeByte>>
        /\ stage' \in {"activate", "quit"}
    BY <1>5 DEF UpgradeVerdict, AllStopped, GoOn, OneNetworkRun, vars
  <2>2. UNCHANGED Images /\ Told = "nothing" /\ Finished = {} /\ Finished' = {}
    BY <2>1, ImagesFrame DEF Told, Finished
  <2>3. CASE stage' = "activate"
    BY <2>2, <2>3 DEF Told
  <2>4. CASE stage' = "quit"
    <3>1. ASSUME NEW d \in Device PROVE Images[d] \in {"old", "staged"}
      <4>1. ~RunsNewNext(d)
        BY <1>t, <2>1, OldImages DEF DeviceInv, FirstRound, TypeOK
      <4> QED BY <4>1, ImageMeans DEF Images
    <3>2. Told' = "quit"
      BY <2>4 DEF Told
    <3> QED BY <2>2, <3>1, <3>2 DEF Commit!Next, Commit!Quit, Commit!Tell
  <2> QED BY <2>1, <2>3, <2>4
<1>6. CASE ActivateVerdict
  <2>1. /\ stage = "activate" /\ UNCHANGED <<fw, intact, activeByte>>
        /\ stage' \in {"reset", "unstable"}
    BY <1>6 DEF ActivateVerdict, AllStopped, GoOn, vars
  <2>2. UNCHANGED Images /\ Told = "nothing" /\ Finished = {} /\ Finished' = {}
    BY <2>1, ImagesFrame DEF Told, Finished
  <2>3. CASE stage' = "reset"
    BY <2>2, <2>3 DEF Told
  <2>4. CASE stage' = "unstable"
    <3>1. \A d \in Device : Images[d] # "old"
      BY <1>t, <2>1, ImageMeans DEF DeviceInv, SecondRound, Images
    <3>2. Told' = "unstable"
      BY <2>4 DEF Told
    <3> QED BY <2>2, <3>1, <3>2 DEF Commit!Next, Commit!Unstable, Commit!Tell
  <2> QED BY <2>1, <2>3, <2>4
<1>7. CASE AllReset \/ Summary
  <2>1. /\ stage \in {"reset", "query"} /\ UNCHANGED <<fw, intact, activeByte>>
        /\ stage' \in {"query", "done"}
    BY <1>7 DEF AllReset, Summary, AllStopped, GoOn, vars
  <2>2. UNCHANGED Images /\ Told = "nothing" /\ Finished = {}
    BY <2>1, ImagesFrame DEF Told, Finished
  <2>3. CASE stage' = "query"
    BY <2>2, <2>3 DEF Told, Finished
  <2>4. CASE stage' = "done"
    <3>1. \A d \in Device : Images[d] = "new"
      BY <1>t, <2>1, ImageMeans DEF DeviceInv, AfterRounds, Images
    <3>2. Told' = "finished" /\ Finished' \in SUBSET Device
      BY <2>4 DEF Told, Finished, Succeeded
    <3> QED BY <2>2, <3>1, <3>2 DEF Commit!Next, Commit!Finish, Commit!Tell
  <2> QED BY <2>1, <2>3, <2>4
<1>8. ASSUME NEW d \in Device, SendReset(d)
      PROVE  UNCHANGED <<Images, Told, Finished>>
  BY <1>8, <1>s DEF SendReset, Reboot, deviceVars
<1>9. ASSUME NEW d \in Device, DeviceRestarts(d), UNCHANGED managerVars
      PROVE  UNCHANGED <<Images, Told, Finished>>
  BY <1>9, <1>s DEF DeviceRestarts, Reboot, managerVars
<1>10. CASE ToolKilled
  <2>1. /\ stage \notin Ended /\ stage' = "killed" /\ UNCHANGED <<fw, intact, activeByte>>
    BY <1>10 DEF ToolKilled, GoOn, deviceVars
  <2>2. /\ stage \notin {"quit", "unstable", "done"}
        /\ stage' \notin {"quit", "unstable", "done"}
    BY <2>1 DEF Ended
  <2> QED BY <2>1, <2>2, ImagesFrame DEF Told, Finished
<1>11. CASE UNCHANGED umVars
  BY <1>11, <1>s DEF umVars, vars, managerVars
<1> QED
  BY <1>t, <1>1, <1>2, <1>3, <1>4, <1>5, <1>6, <1>7, <1>8, <1>9, <1>10, <1>11, UMSteps

\* um -E, run once on devices with one active image, is an atomic commitment:
\* whatever its threads, its commands, the devices and the death of the tool do,
\* each device is staged, switched and retired at most once and in this order,
\* none is switched before all are staged, and what main() says of the network
\* at its end is true and stays true.
THEOREM NetworkRefinement ==
    ASSUME OneNetworkRun, EverySwitchStarts
    PROVE  CleanSpec => ImplementsNetworkUpdate
<1>1. CleanInit => Commit!Init
  <2> SUFFICES ASSUME CleanInit PROVE Commit!Init
    OBVIOUS
  <2>1. stage = "upgrade" /\ \A d \in Device, s \in Slot : fw[d][s] # BinFile
    BY DEF CleanInit, UMInit
  <2>2. ASSUME NEW d \in Device PROVE ImageOf(d) = "old"
    BY <2>1, ImageMeans DEF HoldsNew
  <2>3. Told = "nothing" /\ Finished = {}
    BY <2>1 DEF Told, Finished
  <2> QED BY <2>2, <2>3 DEF Commit!Init, Images
<1>2. NetworkInv /\ NetworkInv' /\ [UMNext]_umVars
        => [Commit!Next]_<<Images, Told, Finished>>
  BY StepMaps
<1> QED BY <1>1, <1>2, NetworkInvariant, PTL
       DEF CleanSpec, ImplementsNetworkUpdate, Commit!Spec, Commit!netVars

-----------------------------------------------------------------------------
(* What the commitment promises. *)

\* The commitment is atomic: as long as a device has nothing of the new firmware
\* none may run it, and the messages hold for good.
THEOREM Atomicity == Commit!Spec => []Commit!AllOrNothing
<1> DEFINE Inv == Commit!TypeOK /\ Commit!AllOrNothing
<1>1. Commit!Init => Inv
  BY DEF Commit!Init, Commit!TypeOK, Commit!AllOrNothing
<1>2. Inv /\ [Commit!Next]_(Commit!netVars) => Inv'
  <2> SUFFICES ASSUME Inv, [Commit!Next]_(Commit!netVars) PROVE Inv'
    OBVIOUS
  <2> USE DEF Commit!TypeOK, Commit!AllOrNothing, Commit!Becomes, Commit!Tell
  <2>1. ASSUME NEW d \in Device, Commit!Stage(d) PROVE Inv'
    BY <2>1 DEF Commit!Stage
  <2>2. ASSUME NEW d \in Device, Commit!Switch(d) PROVE Inv'
    BY <2>2 DEF Commit!Switch
  <2>3. ASSUME NEW d \in Device, Commit!Retire(d) PROVE Inv'
    BY <2>3 DEF Commit!Retire
  <2>4. ASSUME Commit!Quit \/ Commit!Unstable \/ Commit!Finish PROVE Inv'
    BY <2>4 DEF Commit!Quit, Commit!Unstable, Commit!Finish
  <2>5. CASE UNCHANGED Commit!netVars
    BY <2>5 DEF Commit!netVars
  <2> QED BY <2>1, <2>2, <2>3, <2>4, <2>5 DEF Commit!Next
<1> QED BY <1>1, <1>2, PTL DEF Commit!Spec

\* um -E keeps its network all or nothing: read off the commitment.
THEOREM NetworkAtomic ==
    ASSUME OneNetworkRun, EverySwitchStarts
    PROVE  CleanSpec => []Commit!AllOrNothing
BY NetworkRefinement, Atomicity, PTL DEF ImplementsNetworkUpdate

-----------------------------------------------------------------------------
(* Each device of the network undergoes one A/B update. *)

\* Through both rounds, the resets and the end of the tool, the images each
\* device can be started from change one at a time, and never the last one goes.
THEOREM NetworkImplementsABUpdate ==
    ASSUME OneNetworkRun
    PROVE  CleanSpec => ImplementsABUpdate
<1>1. CleanInit => AB!Init
  <2> SUFFICES ASSUME CleanInit PROVE AB!Init
    OBVIOUS
  <2>1. TypeOK /\ SomeActiveImage
    BY InitInv DEF CleanInit, UMInit, IInv
  <2>2. AB!TypeOK
    BY <2>1, BootableTypes DEF AB!TypeOK, Bootable
  <2>3. \A d \in Device : Bootable[d] # {}
    BY <2>1, BootableMembers DEF SomeActiveImage
  <2> QED BY <2>2, <2>3 DEF AB!Init, Bootable
<1>2. ASSUME ManagerInv, ManagerInv', OneNetworkRun, [UMNext]_umVars
      PROVE  AB!Next \/ UNCHANGED Bootable
  <2>t. UMTypeOK /\ IInv /\ TypeOK'
    BY <1>2 DEF ManagerInv, IInv
  <2>1. ASSUME NEW d \in Device, ThreadSteps(d) PROVE AB!Next \/ UNCHANGED Bootable
    BY <2>t, <2>1, OwnDevices, CallStepMaps DEF ThreadSteps
  <2>2. \/ \E d \in Device : ThreadSteps(d)
        \/ UNCHANGED <<fw, intact, activeByte>>
    BY <1>2, <2>t, UMSteps
       DEF StartThread, ThreadStarts, StartCall, ThreadEnds, UpgradeVerdict,
           ActivateVerdict, AllReset, Summary, AllStopped, SendReset,
           DeviceRestarts, Reboot, ToolKilled, umVars, vars, deviceVars
  <2> QED BY <2>1, <2>2, SameImages
<1>3. ManagerInv /\ ManagerInv' /\ [UMNext]_umVars => [AB!Next]_Bootable
  BY <1>2
<1> QED BY <1>1, <1>3, ManagerInvariant, PTL
       DEF CleanSpec, ImplementsABUpdate, AB!Spec, Bootable

=============================================================================
