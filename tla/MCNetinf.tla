------------------------------ MODULE MCNetinf ------------------------------
(* Instances of Netinf for TLC. *)
EXTENDS Netinf

\* The tool with and without traffic, and a caller of the library that ends on
\* the first error and sets no duration.
AllConfigs ==
    {[generate |-> TRUE, override |-> FALSE, stopOnError |-> FALSE, timed |-> TRUE],
     [generate |-> FALSE, override |-> FALSE, stopOnError |-> FALSE, timed |-> TRUE],
     [generate |-> TRUE, override |-> TRUE, stopOnError |-> TRUE, timed |-> FALSE]}

=============================================================================
