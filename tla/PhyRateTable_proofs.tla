------------------------ MODULE PhyRateTable_proofs ------------------------
(***************************************************************************)
(* Theorems about PhyRateTable, for any number of stations, any devices    *)
(* that answer the query, any size of its table and any number of rounds.  *)
(***************************************************************************)
EXTENDS PhyRateTable, TLAPS

SweepTypeOK ==
    /\ at \in {"start", "scan", "scanned", "returned"}
    /\ status \in {"", "SUCCESS", "FAILURE", "FAILED_START_NETINF"}
    /\ Run_Table \in [Station \X Station -> {"x", "-", "p", "+"}]
    /\ Run_Devices \in [Station -> {"-", "+"}]
    /\ i \in Station /\ j \in Station
    /\ bFinish \in BOOLEAN /\ missed \in BOOLEAN
    /\ progress \in Int
    /\ test \in [Station -> 0..Size]
    /\ tested \subseteq Link

ToolTypeOK ==
    /\ generate \in BOOLEAN
    /\ listed \in BOOLEAN
    /\ row \in 0..Size + 1
    /\ table \in [Station \X Station -> {"none", "old", "measured"}]
    /\ code \in {-1, 0, 1}

\* The parts of the type invariant.
LEMMA TypeParts == TypeOK <=> QueryTypeOK /\ SweepTypeOK /\ ToolTypeOK
BY DEF TypeOK, SweepTypeOK, ToolTypeOK

\* Every step is one of the query, of the sweep, of a transmitter, or of main(),
\* and the others' variables stay.
LEMMA StepKinds ==
    ASSUME [Next]_vars
    PROVE  \/ QueryStep /\ UNCHANGED <<sweepVars, toolVars>>
           \/ SweepStep /\ generate /\ UNCHANGED <<queryVars, toolVars>>
           \/ /\ \E tx \in Station : TestEnds(tx)
              /\ UNCHANGED <<queryVars, toolVars>>
           \/ ReadTable
           \/ ReadReceiver
           \/ /\ code' \in {-1, 0, 1} /\ listed' \in {listed, TRUE}
              /\ UNCHANGED <<queryVars, sweepVars, generate, row, table>>
           \/ UNCHANGED vars
<1>1. CASE ToolStep
  <2>1. CASE FindDevice BY <2>1 DEF FindDevice
  <2>2. CASE GenerateTraffic BY <2>2 DEF GenerateTraffic
  <2>3. CASE FindFailed BY <2>3 DEF FindFailed
  <2>4. CASE GetStations BY <2>4 DEF GetStations
  <2>5. CASE SweepFailed BY <2>5 DEF SweepFailed
  <2>6. CASE ReadFails BY <2>6 DEF ReadFails
  <2>7. CASE PrintTable BY <2>7 DEF PrintTable
  <2> QED BY <1>1, <2>1, <2>2, <2>3, <2>4, <2>5, <2>6, <2>7 DEF ToolStep
<1>2. CASE DeviceStep BY <1>2 DEF DeviceStep
<1> QED BY <1>1, <1>2 DEF Next

-----------------------------------------------------------------------------
(* Types.                                                                  *)

LEMMA QueryTypes ==
    ASSUME QueryTypeOK, QueryStep
    PROVE  QueryTypeOK'
<1> USE QueryAssumption DEF QueryTypeOK
<1>1. CASE SendQuery BY <1>1 DEF SendQuery
<1>2. CASE ReceiveReply
  <2>1. PICK r \in replies :
            /\ replies' = replies \ {r}
            /\ IF Len(QueryDevices) + 1 > MaxSize
               THEN query' = "failed" /\ UNCHANGED <<QueryDevices, NumberOfRetries>>
               ELSE /\ QueryDevices' = Append(QueryDevices, r[1])
                    /\ NumberOfRetries' = 0
                    /\ UNCHANGED query
        BY <1>2 DEF ReceiveReply
  <2>2. r[1] \in Device OBVIOUS
  <2>3. Append(QueryDevices, r[1]) \in Seq(Device)
        /\ Len(Append(QueryDevices, r[1])) = Len(QueryDevices) + 1
        BY <2>2
  <2>4. CASE Len(QueryDevices) + 1 > MaxSize
        BY <1>2, <2>1, <2>4 DEF ReceiveReply
  <2>5. CASE ~(Len(QueryDevices) + 1 > MaxSize)
    <3>1. QueryDevices' \in Seq(Device) /\ Len(QueryDevices') <= MaxSize
          BY <2>1, <2>3, <2>5
    <3> QED BY <1>2, <2>1, <2>5, <3>1 DEF ReceiveReply
  <2> QED BY <2>4, <2>5
<1>3. CASE EndRound BY <1>3 DEF EndRound
<1>4. CASE EndQuery BY <1>4 DEF EndQuery
<1>5. CASE SelectLocalDevice
  <2>1. DeviceMAC' \in Local \cup {NoDevice, Uninitialized}
        /\ query' \in {"failed", "connected"}
        BY <1>5 DEF SelectLocalDevice, LocalAnswers
  <2> QED BY <1>5, <2>1 DEF SelectLocalDevice
<1> QED BY <1>1, <1>2, <1>3, <1>4, <1>5 DEF QueryStep

\* The scan stays in the table.
LEMMA AdvanceTypes ==
    ASSUME i \in Station, j \in Station, Advance
    PROVE  /\ at' \in {"scan", "scanned"}
           /\ i' \in Station /\ j' \in Station
           /\ at' = "scanned" => i' = 1 /\ j' = 1 /\ i = Size /\ j = Size
           /\ at' = "scan" => \/ i' = i /\ j' = j + 1
                              \/ i' = i + 1 /\ j' = 1 /\ j = Size
BY SizeAssumption DEF Advance, Station

\* In a network with a link the step of the progress indication is defined.
LEMMA ProgressStep ==
    ASSUME i \in Station, j \in Station, i # j
    PROVE  100 \div (Size * (Size - 1)) \in Int
<1>1. Size \in Nat /\ Size >= 2 BY SizeAssumption DEF Station
<1>2. PICK n \in Nat \ {0} : n = Size * (Size - 1) BY <1>1
<1>3. 100 \div n \in Int OBVIOUS
<1> QED BY <1>2, <1>3

LEMMA SweepTypes ==
    ASSUME SweepTypeOK, LinksOnly, SweepStep
    PROVE  SweepTypeOK'
<1>0. i \in Station /\ j \in Station /\ progress \in Int BY DEF SweepTypeOK
<1>1. CASE StartSweep
  <2>1. at' \in {"returned", "scan"} /\ status' \in {"FAILURE", status}
        BY <1>1 DEF StartSweep
  <2>2. progress' \in {progress, 1} BY <1>1 DEF StartSweep
  <2>3. progress' \in Int BY <1>0, <2>2
  <2> QED BY <1>1, <2>1, <2>3 DEF StartSweep, network, SweepTypeOK
<1>2. CASE SkipCell
      BY <1>2, AdvanceTypes DEF SkipCell, network, SweepTypeOK
<1>3. CASE TransmitterBusy
      BY <1>3, AdvanceTypes DEF TransmitterBusy, network, SweepTypeOK
<1>4. CASE StartTest
  <2>1. j \in 0..Size BY <1>0, SizeAssumption DEF Station
  <2>2. test' \in [Station -> 0..Size] BY <1>4, <2>1 DEF StartTest, SweepTypeOK
  <2>3. /\ at' \in {"scan", "scanned", "returned"}
        /\ i' \in Station /\ j' \in Station
        /\ status' \in {status, "FAILED_START_NETINF"}
        BY <1>4, AdvanceTypes DEF StartTest, SweepTypeOK
  <2> QED BY <1>4, <2>2, <2>3 DEF StartTest, SweepTypeOK
<1>5. CASE StillRunning
      BY <1>5, AdvanceTypes DEF StillRunning, network, SweepTypeOK
<1>6. CASE TestFinished
  <2>1. i # j BY <1>0, <1>6 DEF TestFinished, LinksOnly, Cell
  <2>2. PICK n \in Int : n = 100 \div (Size * (Size - 1))
        BY <1>0, <2>1, ProgressStep
  <2>3. progress' = progress + n BY <1>6, <2>2 DEF TestFinished
  <2>4. progress' \in Int BY <1>0, <2>3
  <2> QED BY <1>6, <2>4, AdvanceTypes DEF TestFinished, network, SweepTypeOK
<1>7. CASE QueryFails
      BY <1>7, AdvanceTypes DEF QueryFails, network, SweepTypeOK
<1>8. CASE EndScan
      BY <1>8 DEF EndScan, network, SweepTypeOK
<1> QED
    BY <1>1, <1>2, <1>3, <1>4, <1>5, <1>6, <1>7, <1>8 DEF SweepStep

LEMMA ToolTypes ==
    ASSUME ToolTypeOK, ReadTable \/ ReadReceiver
    PROVE  ToolTypeOK'
<1>1. CASE ReadTable
      BY <1>1, SizeAssumption DEF ReadTable, ToolTypeOK
<1>2. CASE ReadReceiver
  <2>1. row' \in 0..Size + 1
    <3>1. row \in Station /\ row' = row + 1 BY <1>2 DEF ReadReceiver
    <3> QED BY <3>1, SizeAssumption DEF Station
  <2>2. table' \in [Station \X Station -> {"none", "old", "measured"}]
        BY <1>2 DEF ReadReceiver, ToolTypeOK
  <2> QED BY <1>2, <2>1, <2>2 DEF ReadReceiver, ToolTypeOK
<1> QED BY <1>1, <1>2

LEMMA TypesKept ==
    ASSUME TypeOK, Pending, [Next]_vars
    PROVE  TypeOK'
<1>1. QueryTypeOK /\ SweepTypeOK /\ ToolTypeOK /\ LinksOnly
      BY TypeParts DEF Pending
<1>2. UNCHANGED queryVars => QueryTypeOK'
      BY <1>1 DEF queryVars, QueryTypeOK
<1>3. UNCHANGED sweepVars => SweepTypeOK'
      BY <1>1 DEF sweepVars, scan, network, SweepTypeOK
<1>4. UNCHANGED toolVars => ToolTypeOK'
      BY <1>1 DEF toolVars, ToolTypeOK
<1>5. QueryTypeOK' /\ SweepTypeOK' /\ ToolTypeOK'
  <2>1. CASE QueryStep /\ UNCHANGED <<sweepVars, toolVars>>
        BY <1>1, <1>3, <1>4, <2>1, QueryTypes
  <2>2. CASE SweepStep /\ generate /\ UNCHANGED <<queryVars, toolVars>>
        BY <1>1, <1>2, <1>4, <2>2, SweepTypes
  <2>3. CASE (\E tx \in Station : TestEnds(tx)) /\ UNCHANGED <<queryVars, toolVars>>
    <3>1. PICK tx \in Station : TestEnds(tx) BY <2>3
    <3>2. test[tx] \in Station /\ tx # test[tx]
      <4>1. test[tx] \in Station
        <5>1. test[tx] \in 0..Size /\ test[tx] # 0
              BY <1>1, <3>1 DEF TestEnds, SweepTypeOK
        <5>2. 0..Size = Station \cup {0} BY SizeAssumption DEF Station
        <5> QED BY <5>1, <5>2
      <4>2. TestIsPending BY DEF Pending
      <4>5. Run_Table[tx, test[tx]] = "p"
        <5>1. PICK rx \in Station : test[tx] = rx BY <4>1
        <5>2. Run_Table[tx, rx] = "p" BY <4>2, <5>1 DEF TestIsPending
        <5> QED BY <5>1, <5>2
      <4>3. Run_Table[tx, tx] = "x" BY DEF Pending, LinksOnly
      <4> QED BY <4>1, <4>3, <4>5
    <3>3. <<tx, test[tx]>> \in Link BY <3>2 DEF Link
    <3>4. 0 \in 0..Size BY SizeAssumption
    <3>5. test' \in [Station -> 0..Size] /\ tested' \subseteq Link
          BY <1>1, <3>1, <3>3, <3>4 DEF TestEnds, SweepTypeOK
    <3>6. SweepTypeOK' BY <1>1, <3>1, <3>5 DEF TestEnds, scan, SweepTypeOK
    <3> QED BY <1>2, <1>4, <2>3, <3>6
  <2>4. CASE ReadTable
        BY <1>1, <1>2, <1>3, <2>4, ToolTypes DEF ReadTable
  <2>5. CASE ReadReceiver
        BY <1>1, <1>2, <1>3, <2>5, ToolTypes DEF ReadReceiver
  <2>6. CASE /\ code' \in {-1, 0, 1} /\ listed' \in {listed, TRUE}
             /\ UNCHANGED <<queryVars, sweepVars, generate, row, table>>
        BY <1>1, <1>2, <1>3, <2>6 DEF ToolTypeOK
  <2>7. CASE UNCHANGED vars
        BY <1>2, <1>3, <1>4, <2>7 DEF vars
  <2> QED BY <2>1, <2>2, <2>3, <2>4, <2>5, <2>6, <2>7, StepKinds
<1>6. QueryTypeOK' /\ SweepTypeOK' /\ ToolTypeOK' => TypeOK'
      BY DEF TypeOK, QueryTypeOK, SweepTypeOK, ToolTypeOK
<1> QED BY <1>5, <1>6

-----------------------------------------------------------------------------
(* The other parts of the invariant, for a step of the sweep.              *)

LEMMA StatusKept ==
    ASSUME SweepTypeOK, SweepStatus, SweepStep, UNCHANGED toolVars
    PROVE  SweepStatus'
<1> USE DEF SweepStatus, toolVars
<1>1. CASE StartSweep BY <1>1 DEF StartSweep
<1>2. ASSUME Advance, at = "scan", UNCHANGED status
      PROVE  SweepStatus'
      BY <1>2, AdvanceTypes DEF SweepTypeOK
<1>3. CASE StartTest
  <2>1. CASE Advance /\ UNCHANGED status BY <1>2, <1>3, <2>1 DEF StartTest
  <2>2. CASE at' = "returned" /\ status' = "FAILED_START_NETINF"
        BY <1>3, <2>2 DEF StartTest
  <2> QED BY <1>3, <2>1, <2>2 DEF StartTest
<1>4. CASE EndScan BY <1>4 DEF EndScan
<1>5. CASE SkipCell BY <1>2, <1>5 DEF SkipCell
<1>6. CASE TransmitterBusy BY <1>2, <1>6 DEF TransmitterBusy
<1>7. CASE StillRunning BY <1>2, <1>7 DEF StillRunning
<1>8. CASE TestFinished BY <1>2, <1>8 DEF TestFinished
<1>9. CASE QueryFails BY <1>2, <1>9 DEF QueryFails
<1> QED
    BY <1>1, <1>3, <1>4, <1>5, <1>6, <1>7, <1>8, <1>9 DEF SweepStep

\* The only steps of the sweep that change its tables or a test.
LEMMA TableSteps ==
    ASSUME SweepStep
    PROVE  \/ StartTest
           \/ TestFinished
           \/ UNCHANGED <<Run_Table, Run_Devices, network>>
BY DEF SweepStep, StartSweep, SkipCell, TransmitterBusy, StillRunning, QueryFails,
       EndScan

\* What the two steps that write the tables do to one cell, seen from the cell.
LEMMA StartTestCell ==
    ASSUME SweepTypeOK, StartTest
    PROVE  /\ i \in Station /\ j \in Station
           /\ Run_Table[i, j] = "-" /\ Run_Devices[i] = "-"
           /\ Run_Devices'[i] = "+" /\ Run_Table'[i, j] = "p"
           /\ test'[i] = test[i] \/ test'[i] = j
           /\ test'[i] = j \/ status' = "FAILED_START_NETINF"
           /\ tested' = tested
           /\ \A tx \in Station : tx # i => /\ Run_Devices'[tx] = Run_Devices[tx]
                                          /\ test'[tx] = test[tx]
           /\ \A tx, rx \in Station : tx # i \/ rx # j =>
                    Run_Table'[tx, rx] = Run_Table[tx, rx]
<1>1. i \in Station /\ j \in Station BY DEF SweepTypeOK
<1>2. /\ Run_Table' = [Run_Table EXCEPT ![<<i, j>>] = "p"]
      /\ Run_Devices' = [Run_Devices EXCEPT ![i] = "+"]
      /\ Run_Table[i, j] = "-" /\ Run_Devices[i] = "-"
      /\ tested' = tested
      BY DEF StartTest, Cell
<1>3. \/ test' = [test EXCEPT ![i] = j]
      \/ test' = test /\ status' = "FAILED_START_NETINF"
      BY DEF StartTest
<1>4. Run_Devices'[i] = "+" /\ Run_Table'[i, j] = "p"
      BY <1>1, <1>2 DEF SweepTypeOK
<1>5. \A tx \in Station : tx # i => Run_Devices'[tx] = Run_Devices[tx]
      BY <1>1, <1>2 DEF SweepTypeOK
<1>6. \A tx, rx \in Station : tx # i \/ rx # j =>
            Run_Table'[tx, rx] = Run_Table[tx, rx]
      BY <1>1, <1>2 DEF SweepTypeOK
<1>7. CASE test' = [test EXCEPT ![i] = j]
  <2>1. test'[i] = j BY <1>1, <1>7 DEF SweepTypeOK
  <2>2. \A tx \in Station : tx # i => test'[tx] = test[tx]
        BY <1>1, <1>7 DEF SweepTypeOK
  <2> QED BY <1>1, <1>2, <1>4, <1>5, <1>6, <2>1, <2>2
<1>8. CASE test' = test /\ status' = "FAILED_START_NETINF"
      BY <1>1, <1>2, <1>4, <1>5, <1>6, <1>8
<1> QED BY <1>3, <1>7, <1>8

LEMMA TestFinishedCell ==
    ASSUME SweepTypeOK, TestFinished
    PROVE  /\ i \in Station /\ j \in Station
           /\ Run_Table[i, j] = "p" /\ Run_Table'[i, j] = "+"
           /\ test[i] = 0 /\ test' = test /\ tested' = tested
           /\ \A tx \in Station : tx # i => Run_Devices'[tx] = Run_Devices[tx]
           /\ \A tx, rx \in Station : tx # i \/ rx # j =>
                    Run_Table'[tx, rx] = Run_Table[tx, rx]
<1>1. i \in Station /\ j \in Station BY DEF SweepTypeOK
<1>2. /\ Run_Table' = [Run_Table EXCEPT ![<<i, j>>] = "+"]
      /\ Run_Devices' = [Run_Devices EXCEPT ![i] = "-"]
      /\ test' = test /\ tested' = tested
      /\ test[i] = 0 /\ Run_Table[i, j] = "p"
      BY DEF TestFinished, Cell, network
<1>3. Run_Table'[i, j] = "+" BY <1>1, <1>2 DEF SweepTypeOK
<1>4. \A tx \in Station : tx # i => Run_Devices'[tx] = Run_Devices[tx]
      BY <1>1, <1>2 DEF SweepTypeOK
<1>5. \A tx, rx \in Station : tx # i \/ rx # j =>
            Run_Table'[tx, rx] = Run_Table[tx, rx]
      BY <1>1, <1>2 DEF SweepTypeOK
<1> QED BY <1>1, <1>2, <1>3, <1>4, <1>5

LEMMA PendingKept ==
    ASSUME SweepTypeOK, Pending, SweepStep
    PROVE  Pending'
<1>1. LinksOnly /\ TestIsPending /\ PendingIsBusy /\ OnePending BY DEF Pending
<1>2. ASSUME StartTest PROVE Pending'
  <2>0. \A rx \in Station : Run_Table[i, rx] # "p"
        BY <1>1, <1>2, StartTestCell DEF PendingIsBusy
  <2>1. LinksOnly'
    <3>1. ASSUME NEW tx \in Station PROVE Run_Table'[tx, tx] = "x"
          BY <1>1, <1>2, StartTestCell DEF LinksOnly
    <3>2. ASSUME NEW tx \in Station, NEW rx \in Station, tx # rx
          PROVE  Run_Table'[tx, rx] # "x"
          BY <1>1, <1>2, <3>2, StartTestCell DEF LinksOnly
    <3> QED BY <3>1, <3>2 DEF LinksOnly
  <2>2. ASSUME NEW tx \in Station, NEW rx \in Station, test'[tx] = rx
        PROVE  Run_Table'[tx, rx] = "p"
    <3>1. CASE tx = i
          BY <1>1, <1>2, <2>0, <2>2, <3>1, StartTestCell DEF TestIsPending
    <3>2. CASE tx # i
      <4>1. test[tx] = rx BY <1>2, <2>2, <3>2, StartTestCell
      <4>2. Run_Table[tx, rx] = "p" BY <1>1, <4>1 DEF TestIsPending
      <4> QED BY <1>2, <3>2, <4>2, StartTestCell
    <3> QED BY <3>1, <3>2
  <2>3. ASSUME NEW tx \in Station, NEW rx \in Station, Run_Table'[tx, rx] = "p"
        PROVE  Run_Devices'[tx] = "+"
        BY <1>1, <1>2, <2>3, StartTestCell DEF PendingIsBusy
  <2>4. ASSUME NEW tx \in Station, NEW rx \in Station, NEW other \in Station,
               Run_Table'[tx, rx] = "p", Run_Table'[tx, other] = "p"
        PROVE  rx = other
    <3>1. CASE tx = i BY <1>2, <2>0, <2>4, <3>1, StartTestCell
    <3>2. CASE tx # i
      <4>1. Run_Table[tx, rx] = "p" /\ Run_Table[tx, other] = "p"
            BY <1>2, <2>4, <3>2, StartTestCell
      <4> QED BY <1>1, <4>1 DEF OnePending
    <3> QED BY <3>1, <3>2
  <2>5. TestIsPending' BY <2>2 DEF TestIsPending
  <2>6. PendingIsBusy' BY <2>3 DEF PendingIsBusy
  <2>7. OnePending' BY <2>4 DEF OnePending
  <2> QED BY <2>1, <2>5, <2>6, <2>7 DEF Pending
<1>3. ASSUME TestFinished PROVE Pending'
  <2>0. 0 \notin Station BY SizeAssumption DEF Station
  <2>1. LinksOnly'
    <3>1. ASSUME NEW tx \in Station PROVE Run_Table'[tx, tx] = "x"
          BY <1>1, <1>3, TestFinishedCell DEF LinksOnly
    <3>2. ASSUME NEW tx \in Station, NEW rx \in Station, tx # rx
          PROVE  Run_Table'[tx, rx] # "x"
          BY <1>1, <1>3, <3>2, TestFinishedCell DEF LinksOnly
    <3> QED BY <3>1, <3>2 DEF LinksOnly
  <2>2. ASSUME NEW tx \in Station, NEW rx \in Station, test'[tx] = rx
        PROVE  Run_Table'[tx, rx] = "p"
    <3>1. tx # i /\ test[tx] = rx BY <1>3, <2>0, <2>2, TestFinishedCell
    <3>2. Run_Table[tx, rx] = "p" BY <1>1, <3>1 DEF TestIsPending
    <3> QED BY <1>3, <3>1, <3>2, TestFinishedCell
  <2>3. ASSUME NEW tx \in Station, NEW rx \in Station, Run_Table'[tx, rx] = "p"
        PROVE  Run_Table[tx, rx] = "p" /\ tx # i
    <3>1. tx # i \/ rx # j BY <1>3, <2>3, TestFinishedCell
    <3>2. Run_Table[tx, rx] = "p" BY <1>3, <2>3, <3>1, TestFinishedCell
    <3>3. CASE tx = i
      <4>1. Run_Table[tx, j] = "p" /\ j \in Station
            BY <1>3, <3>3, TestFinishedCell
      <4>2. rx = j BY <1>1, <3>2, <4>1 DEF OnePending
      <4> QED BY <3>1, <3>3, <4>2
    <3> QED BY <3>2, <3>3
  <2>4. PendingIsBusy' BY <1>1, <1>3, <2>3, TestFinishedCell DEF PendingIsBusy
  <2>5. OnePending' BY <1>1, <2>3 DEF OnePending
  <2>6. TestIsPending' BY <2>2 DEF TestIsPending
  <2> QED BY <2>1, <2>4, <2>5, <2>6 DEF Pending
<1>4. ASSUME UNCHANGED <<Run_Table, Run_Devices, network>> PROVE Pending'
  <2>1. LinksOnly' BY <1>1, <1>4 DEF LinksOnly
  <2>2. TestIsPending' BY <1>1, <1>4 DEF TestIsPending, network
  <2>3. PendingIsBusy' BY <1>1, <1>4 DEF PendingIsBusy
  <2>4. OnePending' BY <1>1, <1>4 DEF OnePending
  <2> QED BY <2>1, <2>2, <2>3, <2>4 DEF Pending
<1> QED BY <1>2, <1>3, <1>4, TableSteps

LEMMA TestedKept ==
    ASSUME SweepTypeOK, SweepStatus, Pending, Tested, SweepStep
    PROVE  Tested'
<1>1. RunIsTested /\ PendingIsTested /\ PendingIsBusy /\ OnePending
      BY DEF Tested, Pending
<1>2. at # "returned" /\ status # "FAILED_START_NETINF"
      BY DEF SweepStatus, SweepStep, StartSweep, SkipCell, TransmitterBusy,
             StartTest, StillRunning, TestFinished, QueryFails, EndScan
<1>3. ASSUME StartTest PROVE Tested'
  <2>1. ASSUME NEW tx \in Station, NEW rx \in Station, Run_Table'[tx, rx] = "+"
        PROVE  <<tx, rx>> \in tested'
        BY <1>1, <1>3, <2>1, StartTestCell DEF RunIsTested
  <2>2. ASSUME NEW tx \in Station, NEW rx \in Station, Run_Table'[tx, rx] = "p"
        PROVE  \/ test'[tx] = rx
               \/ <<tx, rx>> \in tested'
               \/ status' = "FAILED_START_NETINF"
    <3>1. CASE tx = i /\ rx = j BY <1>3, <3>1, StartTestCell
    <3>2. CASE tx # i \/ rx # j
      <4>1. Run_Table[tx, rx] = "p" BY <1>3, <2>2, <3>2, StartTestCell
      <4>2. tx # i BY <1>1, <1>3, <4>1, StartTestCell DEF PendingIsBusy
      <4> QED BY <1>1, <1>2, <1>3, <4>1, <4>2, StartTestCell DEF PendingIsTested
    <3> QED BY <3>1, <3>2
  <2>3. RunIsTested' BY <2>1 DEF RunIsTested
  <2>4. PendingIsTested' BY <2>2 DEF PendingIsTested
  <2> QED BY <2>3, <2>4 DEF Tested
<1>4. ASSUME TestFinished PROVE Tested'
  <2>1. <<i, j>> \in tested
    <3>1. 0 \notin Station BY SizeAssumption DEF Station
    <3>2. test[i] # j BY <1>4, <3>1, TestFinishedCell
    <3> QED BY <1>1, <1>2, <1>4, <3>2, TestFinishedCell DEF PendingIsTested
  <2>2. ASSUME NEW tx \in Station, NEW rx \in Station, Run_Table'[tx, rx] = "+"
        PROVE  <<tx, rx>> \in tested'
    <3>1. CASE tx = i /\ rx = j BY <1>4, <2>1, <3>1, TestFinishedCell
    <3>2. CASE tx # i \/ rx # j
      <4>1. Run_Table[tx, rx] = "+" BY <1>4, <2>2, <3>2, TestFinishedCell
      <4>2. <<tx, rx>> \in tested BY <1>1, <4>1 DEF RunIsTested
      <4> QED BY <1>4, <4>2, TestFinishedCell
    <3> QED BY <3>1, <3>2
  <2>3. ASSUME NEW tx \in Station, NEW rx \in Station, Run_Table'[tx, rx] = "p"
        PROVE  test'[tx] = rx \/ <<tx, rx>> \in tested'
    <3>1. Run_Table[tx, rx] = "p" BY <1>4, <2>3, TestFinishedCell
    <3> QED BY <1>1, <1>2, <1>4, <3>1, TestFinishedCell DEF PendingIsTested
  <2>4. PendingIsTested' BY <2>3 DEF PendingIsTested
  <2>5. RunIsTested' BY <2>2 DEF RunIsTested
  <2> QED BY <2>4, <2>5 DEF Tested
<1>5. ASSUME UNCHANGED <<Run_Table, Run_Devices, network>> PROVE Tested'
  <2>1. RunIsTested' BY <1>1, <1>5 DEF RunIsTested, network
  <2>2. PendingIsTested' BY <1>1, <1>2, <1>5 DEF PendingIsTested, network
  <2> QED BY <2>1, <2>2 DEF Tested
<1> QED BY <1>3, <1>4, <1>5, TableSteps

\* The cells the scan has passed after a step are those it had passed, and the
\* one it was at.
LEMMA PassedNext ==
    ASSUME i \in Station, j \in Station, at = "scan", Advance,
           NEW tx \in Station, NEW rx \in Station, Passed(tx, rx)'
    PROVE  Passed(tx, rx) \/ (tx = i /\ rx = j)
<1>1. tx \in 1..Size /\ rx \in 1..Size /\ i \in 1..Size /\ j \in 1..Size
      /\ Size \in Nat
      BY SizeAssumption DEF Station
<1>2. CASE at' = "scanned"
  <2>1. i = Size /\ j = Size BY <1>2, AdvanceTypes
  <2>2. tx < i \/ (tx = i /\ rx < j) \/ (tx = i /\ rx = j) BY <1>1, <2>1
  <2> QED BY <2>2 DEF Passed
<1>3. CASE at' = "scan"
  <2>1. tx < i' \/ (tx = i' /\ rx < j') BY <1>3 DEF Passed
  <2>2. (i' = i /\ j' = j + 1) \/ (i' = i + 1 /\ j' = 1 /\ j = Size)
        BY <1>3, AdvanceTypes
  <2>3. tx < i \/ (tx = i /\ rx < j) \/ (tx = i /\ rx = j)
        BY <1>1, <2>1, <2>2
  <2> QED BY <2>3 DEF Passed
<1> QED BY <1>2, <1>3, AdvanceTypes

\* Before the first cell nothing has been passed.
LEMMA NothingPassed ==
    ASSUME NEW tx \in Station, NEW rx \in Station
    PROVE  ~(tx < 1 \/ (tx = 1 /\ rx < 1))
BY SizeAssumption DEF Station

LEMMA ScanKept ==
    ASSUME SweepTypeOK, SweepStatus, ScanIsRight, SweepStep
    PROVE  ScanIsRight'
<1>1. i \in Station /\ j \in Station BY DEF SweepTypeOK
<1>2. SUFFICES ASSUME bFinish', ~missed',
                      at' \in {"scan", "scanned"} \/ status' = "SUCCESS",
                      NEW tx \in Station, NEW rx \in Station, Passed(tx, rx)'
               PROVE  Run_Table'[tx, rx] \in {"x", "+"}
      BY DEF ScanIsRight
<1>3. CASE StartSweep
  <2>1. CASE Size < 2
    <3>1. at' = "returned" /\ status' = "FAILURE" BY <1>3, <2>1 DEF StartSweep
    <3> QED BY <1>2, <3>1
  <2>2. CASE ~(Size < 2)
    <3>1. at' = "scan" /\ i' = 1 /\ j' = 1
          BY <1>3, <2>2 DEF StartSweep, SweepStatus
    <3>2. tx < 1 \/ (tx = 1 /\ rx < 1) BY <1>2, <3>1 DEF Passed
    <3> QED BY <3>2, NothingPassed
  <2> QED BY <2>1, <2>2
<1>4. CASE SkipCell
  <2>1. Passed(tx, rx) \/ (tx = i /\ rx = j)
        BY <1>1, <1>2, <1>4, PassedNext DEF SkipCell
  <2>2. /\ bFinish /\ ~missed /\ at = "scan" /\ Run_Table' = Run_Table
        /\ Run_Table[i, j] \in {"x", "+"}
        BY <1>2, <1>4 DEF SkipCell, Cell
  <2> QED BY <2>1, <2>2 DEF ScanIsRight
<1>5. CASE TestFinished
  <2>1. Passed(tx, rx) \/ (tx = i /\ rx = j)
        BY <1>1, <1>2, <1>5, PassedNext DEF TestFinished
  <2>2. bFinish /\ ~missed /\ at = "scan" BY <1>2, <1>5 DEF TestFinished
  <2>3. CASE tx = i /\ rx = j BY <1>5, <2>3, TestFinishedCell
  <2>4. CASE tx # i \/ rx # j
    <3>1. Run_Table[tx, rx] \in {"x", "+"} BY <2>1, <2>2, <2>4 DEF ScanIsRight
    <3> QED BY <1>5, <2>4, <3>1, TestFinishedCell
  <2> QED BY <2>3, <2>4
<1>6. CASE EndScan
  <2>1. at = "scanned" /\ UNCHANGED <<Run_Table, missed, i, j>> BY <1>6 DEF EndScan
  <2>2. CASE bFinish
    <3>1. Passed(tx, rx) BY <2>1 DEF Passed
    <3>2. Run_Table[tx, rx] \in {"x", "+"}
          BY <1>2, <2>1, <2>2, <3>1 DEF ScanIsRight
    <3> QED BY <2>1, <3>2
  <2>3. CASE ~bFinish
    <3>1. at' = "scan" /\ i' = 1 /\ j' = 1
          BY <1>6, <2>1, <2>3 DEF EndScan, SweepStatus
    <3>2. tx < 1 \/ (tx = 1 /\ rx < 1) BY <1>2, <3>1 DEF Passed
    <3> QED BY <3>2, NothingPassed
  <2> QED BY <2>2, <2>3
<1>7. CASE TransmitterBusy \/ StartTest \/ StillRunning \/ QueryFails
      BY <1>2, <1>7 DEF TransmitterBusy, StartTest, StillRunning, QueryFails
<1> QED BY <1>3, <1>4, <1>5, <1>6, <1>7 DEF SweepStep

LEMMA FinishKept ==
    ASSUME SweepStatus, SuccessIsFinished, SweepStep
    PROVE  SuccessIsFinished'
<1>1. at # "returned" /\ status = ""
      BY DEF SweepStatus, SweepStep, StartSweep, SkipCell, TransmitterBusy,
             StartTest, StillRunning, TestFinished, QueryFails, EndScan
<1>2. status' = status \/ status' \in {"FAILURE", "FAILED_START_NETINF"} \/ bFinish'
      BY DEF SweepStep, StartSweep, SkipCell, TransmitterBusy, StartTest,
             StillRunning, TestFinished, QueryFails, EndScan
<1> QED BY <1>1, <1>2 DEF SuccessIsFinished

-----------------------------------------------------------------------------
(* The invariant, for the steps of main() and of the transmitters.         *)

\* Once the sweep has returned SUCCESS with every query answered, every link has
\* been tested.
LEMMA AllTested ==
    ASSUME SweepStatus, Pending, Tested, ScanIsRight, SuccessIsFinished,
           status = "SUCCESS", ~missed, NEW l \in Link
    PROVE  l \in tested
<1>1. PICK tx \in Station, rx \in Station : l = <<tx, rx>> /\ tx # rx BY DEF Link
<1>2. Passed(tx, rx) BY DEF SweepStatus, Passed
<1>3. bFinish BY DEF SuccessIsFinished
<1>4. Run_Table[tx, rx] \in {"x", "+"} BY <1>2, <1>3 DEF ScanIsRight
<1>5. Run_Table[tx, rx] # "x" BY <1>1 DEF Pending, LinksOnly
<1> QED BY <1>1, <1>4, <1>5 DEF Tested, RunIsTested

LEMMA RatesKept ==
    ASSUME SweepStatus, Pending, Tested, ScanIsRight, SuccessIsFinished,
           RatesAreMeasured, ReadReceiver
    PROVE  RatesAreMeasured'
<1>1. SUFFICES ASSUME generate, ~missed, NEW l \in Station \X Station
               PROVE  table'[l] # "old"
      BY DEF RatesAreMeasured, ReadReceiver, sweepVars, scan
<1>2. row # 0 BY SizeAssumption DEF ReadReceiver, Station
<1>3. status = "SUCCESS" BY <1>1, <1>2 DEF SweepStatus
<1>4. PICK known \in SUBSET {k \in Link : k[2] = row} :
          table' = [k \in Station \X Station |->
                       IF k \notin known THEN table[k]
                       ELSE IF k \in tested THEN "measured" ELSE "old"]
      BY DEF ReadReceiver
<1>5. CASE l \in known
  <2>1. l \in tested BY <1>1, <1>3, <1>5, AllTested
  <2> QED BY <1>1, <1>4, <1>5, <2>1
<1>6. CASE l \notin known
      BY <1>1, <1>4, <1>6 DEF RatesAreMeasured
<1> QED BY <1>5, <1>6

\* What the end of a test leaves true.
LEMMA TestEndsKept ==
    ASSUME SweepTypeOK, Pending, Tested, NEW tx \in Station, TestEnds(tx)
    PROVE  Pending' /\ Tested'
<1>1. /\ test' = [test EXCEPT ![tx] = 0]
      /\ tested' = tested \cup {<<tx, test[tx]>>}
      /\ UNCHANGED <<Run_Table, Run_Devices, status>>
      BY DEF TestEnds, scan
<1>2. /\ LinksOnly /\ TestIsPending /\ PendingIsBusy /\ OnePending
      /\ RunIsTested /\ PendingIsTested
      BY DEF Pending, Tested
<1>3. test'[tx] = 0 /\ \A s \in Station : s # tx => test'[s] = test[s]
      BY <1>1 DEF SweepTypeOK
<1>4. 0 \notin Station BY SizeAssumption DEF Station
<1>5. LinksOnly' BY <1>1, <1>2 DEF LinksOnly
<1>6. PendingIsBusy' BY <1>1, <1>2 DEF PendingIsBusy
<1>7. OnePending' BY <1>1, <1>2 DEF OnePending
<1>8. RunIsTested' BY <1>1, <1>2 DEF RunIsTested
<1>9. ASSUME NEW s \in Station, NEW rx \in Station, test'[s] = rx
      PROVE  Run_Table'[s, rx] = "p"
  <2>1. s # tx BY <1>3, <1>4, <1>9
  <2>2. test[s] = rx BY <1>3, <1>9, <2>1
  <2>3. Run_Table[s, rx] = "p" BY <1>2, <2>2 DEF TestIsPending
  <2> QED BY <1>1, <2>3
<1>10. ASSUME NEW s \in Station, NEW rx \in Station, Run_Table'[s, rx] = "p"
       PROVE  \/ test'[s] = rx
              \/ <<s, rx>> \in tested'
              \/ status' = "FAILED_START_NETINF"
  <2>1. Run_Table[s, rx] = "p" BY <1>1, <1>10
  <2>2. \/ test[s] = rx
        \/ <<s, rx>> \in tested
        \/ status = "FAILED_START_NETINF"
        BY <1>2, <2>1 DEF PendingIsTested
  <2>3. CASE test[s] = rx
    <3>1. CASE s = tx BY <1>1, <2>3, <3>1
    <3>2. CASE s # tx BY <1>3, <2>3, <3>2
    <3> QED BY <3>1, <3>2
  <2> QED BY <1>1, <2>2, <2>3
<1>11. TestIsPending' BY <1>9 DEF TestIsPending
<1>12. PendingIsTested' BY <1>10 DEF PendingIsTested
<1> QED BY <1>5, <1>6, <1>7, <1>8, <1>11, <1>12 DEF Pending, Tested

\* The parts about the sweep, when its variables stay.
SweepInv == Pending /\ Tested /\ ScanIsRight /\ SuccessIsFinished

LEMMA SweepStays ==
    ASSUME SweepInv, UNCHANGED sweepVars
    PROVE  SweepInv'
<1>1. UNCHANGED <<at, status, Run_Table, Run_Devices, i, j, bFinish, missed,
                  test, tested>>
      BY DEF sweepVars, scan, network
<1>2. Pending'
  <2>1. LinksOnly' BY <1>1 DEF SweepInv, Pending, LinksOnly
  <2>2. TestIsPending' BY <1>1 DEF SweepInv, Pending, TestIsPending
  <2>3. PendingIsBusy' BY <1>1 DEF SweepInv, Pending, PendingIsBusy
  <2>4. OnePending' BY <1>1 DEF SweepInv, Pending, OnePending
  <2> QED BY <2>1, <2>2, <2>3, <2>4 DEF Pending
<1>3. Tested'
  <2>1. RunIsTested' BY <1>1 DEF SweepInv, Tested, RunIsTested
  <2>2. PendingIsTested' BY <1>1 DEF SweepInv, Tested, PendingIsTested
  <2> QED BY <2>1, <2>2 DEF Tested
<1>4. ScanIsRight' BY <1>1 DEF SweepInv, ScanIsRight, Passed
<1>5. SuccessIsFinished' BY <1>1 DEF SweepInv, SuccessIsFinished
<1> QED BY <1>2, <1>3, <1>4, <1>5 DEF SweepInv

-----------------------------------------------------------------------------
(* The invariant is inductive.                                             *)

LEMMA InitInv ==
    ASSUME Init
    PROVE  IInv
<1>1. 1 \in Station /\ 0 \in 0..Size /\ 0 \in 0..Size + 1 /\ 0 \notin Station
      /\ MaxRetries \in 0..MaxRetries
      BY SizeAssumption, QueryAssumption DEF Station
<1>2. \A tx, rx \in Station :
            Run_Table[tx, rx] = IF tx # rx THEN "-" ELSE "x"
      BY DEF Init, SweepInit, Link
<1>3. QueryTypeOK
  <2>1. QueryDevices = <<>> /\ Len(QueryDevices) = 0 BY DEF Init, QueryInit
  <2>2. Len(QueryDevices) <= MaxSize BY <2>1, QueryAssumption
  <2> QED BY <1>1, <2>1, <2>2, QueryAssumption DEF Init, QueryInit, QueryTypeOK
<1>4. SweepTypeOK
  <2>1. Run_Table \in [Station \X Station -> {"x", "-", "p", "+"}]
        BY DEF Init, SweepInit
  <2>2. test \in [Station -> 0..Size] BY <1>1 DEF Init, SweepInit
  <2>3. Run_Devices \in [Station -> {"-", "+"}] BY DEF Init, SweepInit
  <2>4. /\ at = "start" /\ status = "" /\ i = 1 /\ j = 1
        /\ bFinish = TRUE /\ missed = FALSE /\ progress = -1 /\ tested = {}
        BY DEF Init, SweepInit
  <2>5. -1 \in Int OBVIOUS
  <2> QED BY <1>1, <2>1, <2>2, <2>3, <2>4, <2>5 DEF SweepTypeOK
<1>5. ToolTypeOK BY <1>1 DEF Init, ToolTypeOK
<1>6. SweepStatus BY DEF Init, SweepInit, SweepStatus
<1>7. LinksOnly BY <1>2 DEF LinksOnly
<1>8. \A tx, rx \in Station : Run_Table[tx, rx] \in {"-", "x"} BY <1>2
<1>9. PendingIsBusy /\ OnePending /\ RunIsTested /\ PendingIsTested
      BY <1>8 DEF PendingIsBusy, OnePending, RunIsTested, PendingIsTested
<1>10. TestIsPending BY <1>1 DEF Init, SweepInit, TestIsPending
<1>11. ScanIsRight /\ SuccessIsFinished
       BY DEF Init, SweepInit, ScanIsRight, SuccessIsFinished
<1>12. RatesAreMeasured BY DEF Init, RatesAreMeasured
<1>13. TypeOK BY <1>3, <1>4, <1>5, TypeParts
<1> QED
    BY <1>6, <1>7, <1>9, <1>10, <1>11, <1>12, <1>13 DEF IInv, Pending, Tested

LEMMA NextInv ==
    ASSUME IInv, [Next]_vars
    PROVE  IInv'
<1>1. /\ TypeOK /\ SweepTypeOK /\ SweepStatus /\ Pending /\ Tested /\ ScanIsRight
      /\ SuccessIsFinished /\ RatesAreMeasured /\ SweepInv
      BY TypeParts DEF IInv, SweepInv
<1>2. TypeOK' BY <1>1, TypesKept
<1>3. UNCHANGED sweepVars => SweepInv' BY <1>1, SweepStays
<1>4. UNCHANGED <<sweepVars, table, generate>> => RatesAreMeasured'
      BY <1>1 DEF RatesAreMeasured, sweepVars, scan
<1>5. ASSUME UNCHANGED <<sweepVars, row, generate>> PROVE SweepStatus'
  <2>1. at' = at /\ status' = status /\ i' = i /\ j' = j
        BY <1>5 DEF sweepVars, scan
  <2>2. row' = row /\ generate' = generate BY <1>5
  <2> QED BY <1>1, <2>1, <2>2 DEF SweepStatus
<1>6. SweepStatus' /\ SweepInv' /\ RatesAreMeasured'
  <2>1. CASE QueryStep /\ UNCHANGED <<sweepVars, toolVars>>
        BY <1>3, <1>4, <1>5, <2>1 DEF toolVars
  <2>2. CASE SweepStep /\ generate /\ UNCHANGED <<queryVars, toolVars>>
    <3>1. SweepStatus' BY <1>1, <2>2, StatusKept
    <3>2. SweepInv'
          BY <1>1, <2>2, PendingKept, TestedKept, ScanKept, FinishKept DEF SweepInv
    <3>3. missed' = missed \/ missed'
          BY <2>2 DEF SweepStep, StartSweep, SkipCell, TransmitterBusy, StartTest,
                      StillRunning, TestFinished, QueryFails, EndScan
    <3>4. RatesAreMeasured' BY <1>1, <2>2, <3>3 DEF RatesAreMeasured, toolVars
    <3> QED BY <3>1, <3>2, <3>4
  <2>3. CASE (\E tx \in Station : TestEnds(tx)) /\ UNCHANGED <<queryVars, toolVars>>
    <3>1. PICK tx \in Station : TestEnds(tx) BY <2>3
    <3>2. UNCHANGED <<at, status, Run_Table, i, j, bFinish, missed>>
          BY <3>1 DEF TestEnds, scan
    <3>3. SweepStatus' BY <1>1, <2>3, <3>2 DEF SweepStatus, toolVars
    <3>4. Pending' /\ Tested' BY <1>1, <3>1, TestEndsKept
    <3>5. ScanIsRight' BY <1>1, <3>2 DEF ScanIsRight, Passed
    <3>6. SuccessIsFinished' BY <1>1, <3>2 DEF SuccessIsFinished
    <3>7. RatesAreMeasured' BY <1>1, <2>3, <3>2 DEF RatesAreMeasured, toolVars
    <3> QED BY <3>3, <3>4, <3>5, <3>6, <3>7 DEF SweepInv
  <2>4. CASE ReadTable
    <3>1. SweepStatus' BY <1>1, <2>4 DEF ReadTable, SweepStatus, sweepVars, scan
    <3> QED BY <1>3, <1>4, <2>4, <3>1 DEF ReadTable
  <2>5. CASE ReadReceiver
    <3>1. row # 0 BY <2>5, SizeAssumption DEF ReadReceiver, Station
    <3>2. SweepStatus'
          BY <1>1, <2>5, <3>1 DEF ReadReceiver, SweepStatus, sweepVars, scan
    <3>3. RatesAreMeasured' BY <1>1, <2>5, RatesKept
    <3> QED BY <1>3, <2>5, <3>2, <3>3 DEF ReadReceiver
  <2>6. CASE /\ code' \in {-1, 0, 1} /\ listed' \in {listed, TRUE}
             /\ UNCHANGED <<queryVars, sweepVars, generate, row, table>>
        BY <1>3, <1>4, <1>5, <2>6
  <2>7. CASE UNCHANGED vars
        BY <1>3, <1>4, <1>5, <2>7 DEF vars, toolVars
  <2> QED BY <2>1, <2>2, <2>3, <2>4, <2>5, <2>6, <2>7, StepKinds
<1> QED BY <1>2, <1>6 DEF IInv, SweepInv

\* A transmitter that runs a test is not given another one, whatever answers are
\* lost: no test is cut short.
LEMMA TestStays ==
    ASSUME IInv, [Next]_vars
    PROVE  [\A tx \in Station : test[tx] # 0 => test'[tx] \in {test[tx], 0}]_vars
<1>1. SweepTypeOK /\ Pending /\ 0..Size = Station \cup {0}
      BY TypeParts, SizeAssumption DEF IInv, Station
<1>2. UNCHANGED test =>
          [\A tx \in Station : test[tx] # 0 => test'[tx] \in {test[tx], 0}]_vars
      OBVIOUS
<1>3. CASE SweepStep
  <2>1. CASE StartTest
    <3>1. ASSUME NEW tx \in Station, test[tx] # 0
          PROVE  tx # i
      <4>1. PICK rx \in Station : test[tx] = rx BY <1>1, <3>1 DEF SweepTypeOK
      <4>2. Run_Table[tx, rx] = "p" BY <1>1, <4>1 DEF Pending, TestIsPending
      <4>3. Run_Devices[tx] = "+" BY <1>1, <4>2 DEF Pending, PendingIsBusy
      <4> QED BY <1>1, <2>1, <4>3, StartTestCell
    <3> QED BY <1>1, <2>1, <3>1, StartTestCell
  <2>2. CASE TestFinished BY <1>1, <1>2, <2>2, TestFinishedCell
  <2>3. CASE UNCHANGED <<Run_Table, Run_Devices, network>>
        BY <1>2, <2>3 DEF network
  <2> QED BY <1>3, <2>1, <2>2, <2>3, TableSteps
<1>4. CASE \E tx \in Station : TestEnds(tx)
  <2>1. PICK tx \in Station : TestEnds(tx) BY <1>4
  <2>2. \A s \in Station : test'[s] \in {test[s], 0}
        BY <1>1, <2>1 DEF TestEnds, SweepTypeOK
  <2> QED BY <2>2
<1>5. CASE UNCHANGED sweepVars BY <1>2, <1>5 DEF sweepVars, network
<1>6. SweepStep \/ (\E tx \in Station : TestEnds(tx)) \/ UNCHANGED sweepVars
      BY StepKinds DEF ReadTable, ReadReceiver, vars
<1> QED BY <1>3, <1>4, <1>5, <1>6

-----------------------------------------------------------------------------
(* The theorems.                                                           *)

\* The invariant on which the others rest: main(), the query and the scan of
\* Ghn_Run_Netinf_Entire_Network keep it.
THEOREM InvariantHolds == Spec => []IInv
<1>1. Init => IInv BY InitInv
<1>2. IInv /\ [Next]_vars => IInv' BY NextInv
<1> QED BY <1>1, <1>2, PTL DEF Spec

\* Every variable keeps its type: the table of the query never overflows, the
\* scan never leaves Run_Table, no station tests itself.
THEOREM TypesHold == Spec => []TypeOK
<1>1. IInv => TypeOK BY DEF IInv
<1> QED BY <1>1, InvariantHolds, PTL

\* The sweep does not start a test on a transmitter whose test still runs.
THEOREM TestsRunToTheirEnd == Spec => NoTestCutShort
<1>1. IInv /\ [Next]_vars =>
          [\A tx \in Station : test[tx] # 0 => test'[tx] \in {test[tx], 0}]_vars
      BY TestStays
<1> QED BY <1>1, InvariantHolds, PTL DEF Spec, NoTestCutShort

\* The table that -g prints shows measured rates only, when every status query
\* was answered.
THEOREM TableMeasured == Spec => []TableIsMeasured
<1>1. IInv => TableIsMeasured BY DEF IInv, RatesAreMeasured, TableIsMeasured, Link
<1> QED BY <1>1, InvariantHolds, PTL

=============================================================================
