------------------------- MODULE MCUpgradeFirmware -------------------------
(* Instances of UpgradeFirmware for TLC: one device, two calls. *)
EXTENDS UpgradeFirmware

\* Both calls, one after the other or at once, work on the only device.
OneTarget == [c \in Call |-> CHOOSE d \in Device : TRUE]

\* The requests of the update manager without option -B: a full update of one
\* device, the two phases of an update of the network, the query afterwards.
PlainRequests == {{"upgrade", "activate"}, {"upgrade"}, {"activate"}, {"query"}}

\* The other requests the interface allows: with the boot loader (-B), a
\* printout of the flash, a query at the end of the update.
OtherRequests ==
    {{"upgrade", "activate", "bootloader"}, {"detail"},
     {"upgrade", "activate", "query", "resetOnError"}}

=============================================================================
