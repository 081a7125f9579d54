--------------------------------- MODULE MCHubs ---------------------------------
(* Instances of Hubs for TLC. *)
EXTENDS Hubs

CONSTANTS n1, a1, me, v1

TwoHubs == {n1, a1}
OneAdc == {a1}
MeAndOne == {me, v1}
JustMe == {me}
=================================================================================
