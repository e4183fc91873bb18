------------------------------ MODULE ABUpdate ------------------------------
(***************************************************************************)
(* What an update of devices with two firmware images promises: the set of *)
(* images a device can be started from changes one image at a time and is  *)
(* never empty.  Ghn_Upgrade_Firmware() is to implement it through every   *)
(* failed command, restart of the device and crash of the tool.            *)
(***************************************************************************)
CONSTANTS Device, Image

VARIABLE bootable       \* bootable[d]: the images d can be started from

TypeOK == bootable \in [Device -> SUBSET Image]

Init ==
    /\ TypeOK
    /\ \A d \in Device : bootable[d] # {}

\* A new image becomes one the device can be started from.
Promote(d) ==
    \E i \in Image \ bootable[d] :
        bootable' = [bootable EXCEPT ![d] = @ \cup {i}]

\* An image ceases to be one, while another remains.
Retire(d) ==
    \E i \in bootable[d] :
        /\ bootable[d] # {i}
        /\ bootable' = [bootable EXCEPT ![d] = @ \ {i}]

Next == \E d \in Device : Promote(d) \/ Retire(d)

Spec == Init /\ [][Next]_bootable

\* A device can always be started.
NeverEmpty == \A d \in Device : bootable[d] # {}

=============================================================================
