--------------------------- MODULE NetworkUpdate ---------------------------
(***************************************************************************)
(* What um -E promises of a network, whatever its threads, the network and *)
(* the devices do, as long as the threads of its second round can be       *)
(* created: it is an atomic commitment.  Each device is first given the    *)
(* new firmware in the image it does not run (it is staged); the first one *)
(* is switched only when all are staged; and what the user is told about   *)
(* the network is true when it is said and is not overtaken by later       *)
(* changes.  The tool may die at any point: then nothing more happens, and *)
(* nothing is said.                                                        *)
(***************************************************************************)
CONSTANT Device

VARIABLES
    image,      \* image[d]: "old", "staged", "both" (may start either) or "new"
    told,       \* "nothing", "quit", "unstable" or "finished"
    finished    \* the devices reported to have finished successfully

netVars == <<image, told, finished>>

TypeOK ==
    /\ image \in [Device -> {"old", "staged", "both", "new"}]
    /\ told \in {"nothing", "quit", "unstable", "finished"}
    /\ finished \subseteq Device

Init ==
    /\ image = [d \in Device |-> "old"]
    /\ told = "nothing"
    /\ finished = {}

Becomes(d, from, to) ==
    /\ told = "nothing"
    /\ image[d] = from
    /\ image' = [image EXCEPT ![d] = to]
    /\ UNCHANGED <<told, finished>>

\* The device holds the new firmware and does not use it.
Stage(d) == Becomes(d, "old", "staged")

\* The device may be started into the new firmware: only when all hold it.
Switch(d) == (\A e \in Device : image[e] # "old") /\ Becomes(d, "staged", "both")

\* The device can only be started into the new firmware.
Retire(d) == Becomes(d, "both", "new")

\* The end of the tool, with what it says.
Tell(what, set) ==
    /\ told = "nothing"
    /\ told' = what
    /\ finished' = set
    /\ UNCHANGED image

\* "Quiting without upgrade!"
Quit == (\A d \in Device : image[d] \in {"old", "staged"}) /\ Tell("quit", {})

\* "Device(s) state is unstable!!!": some may still run the old firmware, and
\* none is without the new one.
Unstable == (\A d \in Device : image[d] # "old") /\ Tell("unstable", {})

\* "finish successfully", for the devices of the set.
Finish ==
    /\ \A d \in Device : image[d] = "new"
    /\ \E set \in SUBSET Device : Tell("finished", set)

Next ==
    \/ \E d \in Device : Stage(d) \/ Switch(d) \/ Retire(d)
    \/ Quit \/ Unstable \/ Finish

Spec == Init /\ [][Next]_netVars

\* The atomicity: no device may run the new firmware while another has none,
\* and the messages hold for good.
AllOrNothing ==
    /\ (\E d \in Device : image[d] \in {"both", "new"}) =>
           \A e \in Device : image[e] # "old"
    /\ told = "quit" => \A d \in Device : image[d] \in {"old", "staged"}
    /\ told = "finished" => \A d \in Device : image[d] = "new"

=============================================================================
