---------------------------- MODULE QueryDevices ----------------------------
(***************************************************************************)
(* How a tool that is given neither -m nor -I finds the device to connect  *)
(* to: Prepare_Connection() of common/CMD_Helpers/src/CMD_Helpers.c with   *)
(* Ghn_Query_Local_Devices() and, below it, Pkt_Query_Devices() of         *)
(* console/src/console_PacketHandling.c.  A query is broadcast, up to      *)
(* MaxRetries times as long as nobody answers; all rounds have one         *)
(* transaction id, so that a late answer to one round is taken in another. *)
(* Of the devices that answered the first local one is selected.           *)
(*                                                                         *)
(* The network delays, reorders and loses packets, as in PacketHandling.   *)
(* Packets with another id only shorten the wait: a step that changes      *)
(* nothing here, or the end of the round.                                  *)
(***************************************************************************)
EXTENDS Integers, Sequences

CONSTANTS
    Device,         \* the devices the broadcast reaches
    Local,          \* those connected to the host by Ethernet, not by the wire
    MaxRetries,     \* rounds of the query (5)
    MaxSize         \* the size of QueryDevicesTable (64)

ASSUME QueryAssumption == /\ Local \subseteq Device
                          /\ {MaxRetries, MaxSize} \subseteq Nat \ {0}

VARIABLES
    query,              \* "round", "wait", "list", "connected", "failed"
    NumberOfRetries,    \* rounds that are left
    QueryDevices,       \* the answers, in the order they were received
    replies,            \* answers on the way: <<device, round>>
    DeviceMAC,          \* strDeviceMAC, what the connection is made with
    bootCode            \* the devices whose state is BootCode

queryVars == <<query, NumberOfRetries, QueryDevices, replies, DeviceMAC, bootCode>>

NoDevice == "none"              \* before the selection
Uninitialized == "garbage"      \* whatever was on the stack

QueryInit ==
    /\ query = "round"
    /\ NumberOfRetries = MaxRetries
    /\ QueryDevices = <<>> /\ replies = {}
    /\ DeviceMAC = NoDevice
    /\ bootCode \in SUBSET Local

-----------------------------------------------------------------------------
(* Pkt_Query_Devices                                                       *)

\* Each device gets the query and answers, or one of the two packets is lost:
\* then its answer is never received.
SendQuery ==
    /\ query = "round" /\ NumberOfRetries > 0
    /\ query' = "wait"
    /\ NumberOfRetries' = NumberOfRetries - 1
    /\ replies' = replies \cup (Device \X {NumberOfRetries})
    /\ UNCHANGED <<QueryDevices, DeviceMAC, bootCode>>

\* Mutant: the size of the table is not checked.
ReceivesAll ==
    /\ query = "wait"
    /\ \E r \in replies :
        /\ replies' = replies \ {r}
        /\ QueryDevices' = Append(QueryDevices, r[1])
        /\ NumberOfRetries' = 0
    /\ UNCHANGED <<query, DeviceMAC, bootCode>>

\* "Got Ping-reply": no round after this one, but the wait starts anew.
ReceiveReply ==
    /\ query = "wait"
    /\ \E r \in replies :
        /\ replies' = replies \ {r}
        /\ IF Len(QueryDevices) + 1 > MaxSize
           THEN /\ query' = "failed"        \* CG_STAT_BUFFER_TOO_SMALL
                /\ UNCHANGED <<QueryDevices, NumberOfRetries>>
           ELSE /\ QueryDevices' = Append(QueryDevices, r[1])
                /\ NumberOfRetries' = 0
                /\ UNCHANGED query
    /\ UNCHANGED <<DeviceMAC, bootCode>>

\* RxPkt has no packet in time, or one of another type; or packets with other
\* ids have used the time up.
EndRound ==
    /\ query = "wait"
    /\ query' = "round"
    /\ UNCHANGED <<NumberOfRetries, QueryDevices, replies, DeviceMAC, bootCode>>

EndQuery ==
    /\ query = "round" /\ NumberOfRetries = 0
    /\ query' = IF QueryDevices = <<>> THEN "failed" ELSE "list"
    /\ UNCHANGED <<NumberOfRetries, QueryDevices, replies, DeviceMAC, bootCode>>

-----------------------------------------------------------------------------
(* Ghn_Query_Local_Devices and Prepare_Connection                          *)

\* "Skip reply messages that come from remote devices"
LocalAnswers == {n \in 1..Len(QueryDevices) : QueryDevices[n] \in Local}

\* Select_Local_Device with the first local device.  When there is none it
\* returns FALSE, which is not looked at: the MAC and the state are then what
\* the stack holds.  The socket and the tables do not outlive the function.
SelectLocalDevice ==
    /\ query = "list"
    /\ \/ \E n \in LocalAnswers :
            /\ \A m \in LocalAnswers : n <= m
            /\ DeviceMAC' = QueryDevices[n]
            /\ query' = IF QueryDevices[n] \in bootCode THEN "failed"
                                                        ELSE "connected"
       \/ /\ LocalAnswers = {}
          /\ DeviceMAC' = Uninitialized
          /\ query' \in {"failed", "connected"}
    /\ QueryDevices' = <<>> /\ replies' = {}
    /\ UNCHANGED <<NumberOfRetries, bootCode>>

QueryStep ==
    SendQuery \/ ReceiveReply \/ EndRound \/ EndQuery \/ SelectLocalDevice

-----------------------------------------------------------------------------
(* Properties.                                                             *)

\* The table of the query is never written past its end, however often a
\* device answers, and no round is left to send once one has answered.
QueryTypeOK ==
    /\ query \in {"round", "wait", "list", "connected", "failed"}
    /\ NumberOfRetries \in 0..MaxRetries
    /\ QueryDevices \in Seq(Device) /\ Len(QueryDevices) <= MaxSize
    /\ QueryDevices # <<>> => NumberOfRetries = 0
    /\ replies \subseteq Device \X (1..MaxRetries)
    /\ DeviceMAC \in Local \cup {NoDevice, Uninitialized}
    /\ bootCode \subseteq Local

\* "Query and select the local device MAC": the connection is made with the
\* MAC of a local device, or not at all.
LocalDeviceSelected == query = "connected" => DeviceMAC \in Local

=============================================================================
