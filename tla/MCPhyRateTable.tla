--------------------------- MODULE MCPhyRateTable ---------------------------
(* Instances of PhyRateTable for TLC. *)
EXTENDS PhyRateTable

CONSTANTS d1, d2, d3

=============================================================================
