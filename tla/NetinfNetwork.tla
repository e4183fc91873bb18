---------------------------- MODULE NetinfNetwork ----------------------------
(***************************************************************************)
(* Ghn_Run_Netinf_Entire_Network() of GHN_LIB/src/GHN_LIB_ext.c: a traffic *)
(* test on every link of the network, at most one at a time on each        *)
(* transmitter.  The function scans a table of the links again and again:  *)
(* it starts a test where the transmitter is free and asks the transmitter *)
(* where one is pending, until a scan finds nothing left to do.            *)
(*                                                                         *)
(* The devices are not in the repository: a transmitter ends its test by   *)
(* itself (PhyDiagTrafficTimeOut).  No other process starts tests here.    *)
(***************************************************************************)
EXTENDS Integers

CONSTANT Size       \* getstation.Size

ASSUME SizeAssumption == Size \in Nat \ {0}

Station == 1..Size
Link == {l \in Station \X Station : l[1] # l[2]}

VARIABLES
    at,             \* "start", "scan", "scanned", "returned"
    status,         \* "", or what the function returned
    Run_Table,      \* Run_Table[tx, rx]: "x" none, "-" not run, "p" pending, "+" run
    Run_Devices,    \* Run_Devices[tx]: "+" busy, "-" available
    i, j,           \* the link the scan is at
    bFinish,
    progress,       \* Netinf_Entire_Network_Progress_Inication
    missed,         \* history: a status query has failed
    \* the devices
    test,           \* test[tx]: the receiver of the test it runs, 0 when none
    tested          \* the links on which a test has ended

network == <<test, tested>>
scan == <<Run_Table, Run_Devices, i, j, bFinish, progress, missed>>
sweepVars == <<at, status, scan, network>>

SweepInit ==
    /\ at = "start" /\ status = ""
    /\ Run_Table = [l \in Station \X Station |-> IF l \in Link THEN "-" ELSE "x"]
    /\ Run_Devices = [tx \in Station |-> "-"]
    /\ i = 1 /\ j = 1 /\ bFinish = TRUE
    /\ progress = -1 /\ missed = FALSE
    /\ test = [tx \in Station |-> 0] /\ tested = {}

\* A network of one device has no link to test.
StartSweep ==
    /\ at = "start"
    /\ IF Size < 2
       THEN at' = "returned" /\ status' = "FAILURE" /\ UNCHANGED progress
       ELSE at' = "scan" /\ progress' = 1 /\ UNCHANGED status
    /\ UNCHANGED <<Run_Table, Run_Devices, i, j, bFinish, missed, network>>

-----------------------------------------------------------------------------
(* One scan: a step for each cell of the table.                            *)

Cell == Run_Table[i, j]

Advance ==
    /\ at' = IF i = Size /\ j = Size THEN "scanned" ELSE "scan"
    /\ i' = IF j < Size THEN i ELSE IF i < Size THEN i + 1 ELSE 1
    /\ j' = IF j < Size THEN j + 1 ELSE 1

SkipCell ==
    /\ at = "scan" /\ Cell \in {"x", "+"}
    /\ Advance
    /\ UNCHANGED <<status, Run_Table, Run_Devices, bFinish, progress, missed,
                   network>>

TransmitterBusy ==
    /\ at = "scan" /\ Cell = "-" /\ Run_Devices[i] = "+"
    /\ bFinish' = FALSE
    /\ Advance
    /\ UNCHANGED <<status, Run_Table, Run_Devices, progress, missed, network>>

\* Mutant: the transmitter is not marked busy.
LeavesAvailable ==
    /\ at = "scan" /\ Cell = "-" /\ Run_Devices[i] = "-"
    /\ bFinish' = FALSE
    /\ Run_Table' = [Run_Table EXCEPT ![<<i, j>>] = "p"]
    /\ test' = [test EXCEPT ![i] = j]
    /\ Advance
    /\ UNCHANGED <<status, Run_Devices, progress, missed, tested>>

\* Set_Data_Model fails when the request or its answer is lost: the function
\* returns at once, whatever tests are running.
StartTest ==
    /\ at = "scan" /\ Cell = "-" /\ Run_Devices[i] = "-"
    /\ bFinish' = FALSE
    /\ Run_Table' = [Run_Table EXCEPT ![<<i, j>>] = "p"]
    /\ Run_Devices' = [Run_Devices EXCEPT ![i] = "+"]
    /\ \/ /\ test' = [test EXCEPT ![i] = j]
          /\ Advance /\ UNCHANGED status
       \/ /\ test' \in {test, [test EXCEPT ![i] = j]}
          /\ at' = "returned" /\ status' = "FAILED_START_NETINF"
          /\ UNCHANGED <<i, j>>
    /\ UNCHANGED <<progress, missed, tested>>

\* Mutant: a pending test is no reason for another scan.
ForgetsPending ==
    /\ at = "scan" /\ Cell = "p" /\ test[i] # 0
    /\ Advance
    /\ UNCHANGED <<status, Run_Table, Run_Devices, bFinish, progress, missed,
                   network>>

\* "Check if netinf was finish": StartPhyDiagTest of the transmitter
StillRunning ==
    /\ at = "scan" /\ Cell = "p" /\ test[i] # 0
    /\ bFinish' = FALSE
    /\ Advance
    /\ UNCHANGED <<status, Run_Table, Run_Devices, progress, missed, network>>

\* Mutant: the transmitter stays busy.
StaysBusy ==
    /\ at = "scan" /\ Cell = "p" /\ test[i] = 0
    /\ Run_Table' = [Run_Table EXCEPT ![<<i, j>>] = "+"]
    /\ progress' = progress + 100 \div (Size * (Size - 1))
    /\ Advance
    /\ UNCHANGED <<status, Run_Devices, bFinish, missed, network>>

TestFinished ==
    /\ at = "scan" /\ Cell = "p" /\ test[i] = 0
    /\ Run_Table' = [Run_Table EXCEPT ![<<i, j>>] = "+"]
    /\ Run_Devices' = [Run_Devices EXCEPT ![i] = "-"]
    /\ progress' = progress + 100 \div (Size * (Size - 1))
    /\ Advance
    /\ UNCHANGED <<status, bFinish, missed, network>>

\* The query fails: bFinish is left alone.
QueryFails ==
    /\ at = "scan" /\ Cell = "p"
    /\ missed' = TRUE
    /\ Advance
    /\ UNCHANGED <<status, Run_Table, Run_Devices, bFinish, progress, network>>

\* while (bFinish != TRUE)
EndScan ==
    /\ at = "scanned"
    /\ IF bFinish
       THEN at' = "returned" /\ status' = "SUCCESS" /\ UNCHANGED bFinish
       ELSE at' = "scan" /\ bFinish' = TRUE /\ UNCHANGED status
    /\ UNCHANGED <<Run_Table, Run_Devices, i, j, progress, missed, network>>

SweepStep ==
    \/ StartSweep \/ SkipCell \/ TransmitterBusy \/ StartTest \/ StillRunning
    \/ TestFinished \/ QueryFails \/ EndScan

\* The transmitter: its test is over.
TestEnds(tx) ==
    /\ test[tx] # 0
    /\ tested' = tested \cup {<<tx, test[tx]>>}
    /\ test' = [test EXCEPT ![tx] = 0]
    /\ UNCHANGED <<at, status, scan>>

=============================================================================
