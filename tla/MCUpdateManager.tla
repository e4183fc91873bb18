-------------------------- MODULE MCUpdateManager --------------------------
(* Instances of UpdateManager for TLC: one thread per device. *)
EXTENDS UpdateManager

OwnDevice == [d \in Device |-> d]

\* Every request the threads of the manager make.
ManagerRequests ==
    {{"upgrade"}, {"upgrade", "bootloader"}, {"upgrade", "activate"},
     {"upgrade", "activate", "bootloader"}, {"activate"}, {"query"}}

\* The two slots are interchangeable: with several devices it is enough that
\* each starts from slot 1.
NetworkInit == CleanInit /\ launched = [d \in Device |-> 1]

NetworkSpec == NetworkInit /\ [][UMNext]_umVars /\ UMFairness

=============================================================================
