-------------------------- MODULE MCPacketHandling --------------------------
(* Instances of PacketHandling for TLC. *)
EXTENDS PacketHandling, TLC

CONSTANTS c1, c2, d1, d2

\* Two threads that update a device each, with equal seeds of rand(); the ids
\* wrap round, and a connection uses all of them.
TwoTargets == c1 :> d1 @@ c2 :> d2
EqualIds == c1 :> 2 @@ c2 :> 2
FlashPrograms ==
    c1 :> {<<"query", "command", "command">>} @@
    c2 :> {<<"command", "command", "oneWay">>}

=============================================================================
