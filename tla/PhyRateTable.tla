---------------------------- MODULE PhyRateTable ----------------------------
(***************************************************************************)
(* The PHY rate table tool: main() of SDK/PhyRateTable/PhyRateTable.c.     *)
(* It finds the local device (QueryDevices) and asks it for the stations   *)
(* of the network.  With -g it has traffic generated on every link         *)
(* (NetinfNetwork).  Then it reads from each receiver the rates of the     *)
(* links it knows (Ghn_Get_PHY_Rate_Table_Information) and prints them.    *)
(* The rate of a link is only measured by traffic on it: before, it is an  *)
(* old one.                                                                *)
(***************************************************************************)
EXTENDS NetinfNetwork, QueryDevices

VARIABLES
    generate,       \* bGenerateTraffic, -g
    listed,         \* getstation holds the stations
    row,            \* the receiver asked next; 0 before, Size + 1 after the last
    table,          \* RX_PhyRateTable[tx, rx]: "none" (0), "old", "measured"
    code            \* what main() returns: -1 while it runs

toolVars == <<generate, listed, row, table, code>>
vars == <<queryVars, sweepVars, toolVars>>

Init ==
    /\ QueryInit /\ SweepInit
    /\ generate \in BOOLEAN /\ listed = FALSE
    /\ row = 0 /\ code = -1
    /\ table = [l \in Station \X Station |-> "none"]

FindDevice ==
    /\ code = -1
    /\ QueryStep
    /\ UNCHANGED <<sweepVars, toolVars>>

FindFailed ==
    /\ query = "failed" /\ code = -1
    /\ code' = 1
    /\ UNCHANGED <<queryVars, sweepVars, generate, listed, row, table>>

\* Ghn_Get_Stations: a query of the device for its IP, and one request to it.
GetStations ==
    /\ query = "connected" /\ ~listed /\ code = -1
    /\ \/ listed' = TRUE /\ UNCHANGED code
       \/ code' = 1 /\ UNCHANGED listed
    /\ UNCHANGED <<queryVars, sweepVars, generate, row, table>>

GenerateTraffic ==
    /\ listed /\ generate /\ code = -1
    /\ SweepStep
    /\ UNCHANGED <<queryVars, toolVars>>

\* The sweep failed: no table.
SweepFailed ==
    /\ row = 0 /\ code = -1
    /\ status \in {"FAILURE", "FAILED_START_NETINF"}
    /\ code' = 1
    /\ UNCHANGED <<queryVars, sweepVars, generate, listed, row, table>>

ReadTable ==
    /\ listed /\ row = 0 /\ code = -1
    /\ generate => status = "SUCCESS"
    /\ row' = 1
    /\ UNCHANGED <<queryVars, sweepVars, generate, listed, table, code>>

\* One request to a receiver: the transmitters among its AssociatedDevice.
ReadReceiver ==
    /\ row \in Station /\ code = -1
    /\ \E known \in SUBSET {l \in Link : l[2] = row} :
           table' = [l \in Station \X Station |->
                        IF l \notin known THEN table[l]
                        ELSE IF l \in tested THEN "measured" ELSE "old"]
    /\ row' = row + 1
    /\ UNCHANGED <<queryVars, sweepVars, generate, listed, code>>

\* One receiver that does not answer, or not in XML, fails the whole table.
ReadFails ==
    /\ row \in Station /\ code = -1
    /\ code' = 1
    /\ UNCHANGED <<queryVars, sweepVars, generate, listed, row, table>>

PrintTable ==
    /\ row = Size + 1 /\ code = -1
    /\ code' = 0
    /\ UNCHANGED <<queryVars, sweepVars, generate, listed, row, table>>

ToolStep ==
    \/ FindDevice \/ FindFailed \/ GetStations \/ GenerateTraffic \/ SweepFailed
    \/ ReadTable \/ ReadReceiver \/ ReadFails \/ PrintTable

DeviceStep ==
    /\ \E tx \in Station : TestEnds(tx)
    /\ UNCHANGED <<queryVars, toolVars>>

Next == ToolStep \/ DeviceStep

Spec == Init /\ [][Next]_vars

\* Requests end, and every transmitter ends its test after TestDuration.
FairSpec == Spec /\ WF_vars(ToolStep) /\ WF_vars(DeviceStep)

\* Moreover a transmitter that is asked again and again answers once its test
\* is over: none leaves the network for good.
Answer(l) == i = l[1] /\ j = l[2] /\ GenerateTraffic /\ TestFinished
AnsweringSpec == FairSpec /\ \A l \in Link : SF_vars(Answer(l))

-----------------------------------------------------------------------------
(* Properties.                                                             *)

TypeOK ==
    /\ QueryTypeOK
    /\ at \in {"start", "scan", "scanned", "returned"}
    /\ status \in {"", "SUCCESS", "FAILURE", "FAILED_START_NETINF"}
    /\ Run_Table \in [Station \X Station -> {"x", "-", "p", "+"}]
    /\ Run_Devices \in [Station -> {"-", "+"}]
    /\ i \in Station /\ j \in Station
    /\ bFinish \in BOOLEAN /\ missed \in BOOLEAN /\ generate \in BOOLEAN
    /\ listed \in BOOLEAN
    /\ progress \in Int
    /\ test \in [Station -> 0..Size]
    /\ tested \subseteq Link
    /\ row \in 0..Size + 1
    /\ table \in [Station \X Station -> {"none", "old", "measured"}]
    /\ code \in {-1, 0, 1}

\* The sweep never starts a test on a transmitter that still runs one: a test
\* only ends by itself.
NoTestCutShort ==
    [][\A tx \in Station : test[tx] # 0 => test'[tx] \in {test[tx], 0}]_vars

\* The table printed after -g shows no rate that was not measured by the sweep,
\* unless a status query failed during it (then the sweep may take pending
\* links for finished ones and still return SUCCESS).
TableIsMeasured ==
    (code = 0 /\ generate /\ ~missed) => \A l \in Link : table[l] # "old"

\* The tool ends, whichever single requests fail.
ToolEnds == <>(code # -1)

-----------------------------------------------------------------------------
(* The inductive invariant of the proofs, by parts.                        *)

\* Where the sweep is, and what it has returned.
SweepStatus ==
    /\ at = "returned" <=> status # ""
    /\ at \in {"start", "scanned"} => i = 1 /\ j = 1
    /\ row # 0 /\ generate => status = "SUCCESS"

\* No station tests itself, every link is to be tested.
LinksOnly ==
    /\ \A tx \in Station : Run_Table[tx, tx] = "x"
    /\ \A tx, rx \in Station : tx # rx => Run_Table[tx, rx] # "x"

\* A transmitter that runs a test has this one link pending and is busy.
TestIsPending ==
    \A tx, rx \in Station : test[tx] = rx => Run_Table[tx, rx] = "p"
PendingIsBusy ==
    \A tx, rx \in Station : Run_Table[tx, rx] = "p" => Run_Devices[tx] = "+"
OnePending ==
    \A tx, rx, other \in Station :
        Run_Table[tx, rx] = "p" /\ Run_Table[tx, other] = "p" => rx = other
Pending == LinksOnly /\ TestIsPending /\ PendingIsBusy /\ OnePending

\* A link that has been run was tested; a pending one is being tested, or was.
RunIsTested ==
    \A tx, rx \in Station : Run_Table[tx, rx] = "+" => <<tx, rx>> \in tested
PendingIsTested ==
    \A tx, rx \in Station :
        Run_Table[tx, rx] = "p" =>
            \/ test[tx] = rx
            \/ <<tx, rx>> \in tested
            \/ status = "FAILED_START_NETINF"
Tested == RunIsTested /\ PendingIsTested

\* As long as bFinish is TRUE and every query was answered, the links that the
\* scan has passed are done.
Passed(tx, rx) == at # "scan" \/ tx < i \/ (tx = i /\ rx < j)
ScanIsRight ==
    (bFinish /\ ~missed /\ (at \in {"scan", "scanned"} \/ status = "SUCCESS")) =>
        \A tx, rx \in Station :
            Passed(tx, rx) => Run_Table[tx, rx] \in {"x", "+"}

\* A sweep that returned SUCCESS ended with a scan that found nothing to do.
SuccessIsFinished == status = "SUCCESS" => bFinish

RatesAreMeasured ==
    generate /\ ~missed => \A l \in Station \X Station : table[l] # "old"

IInv == /\ TypeOK /\ SweepStatus /\ Pending /\ Tested /\ ScanIsRight
        /\ SuccessIsFinished /\ RatesAreMeasured

=============================================================================
