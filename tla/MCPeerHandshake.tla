---------------------------- MODULE MCPeerHandshake ----------------------------
(* Instances of PeerHandshake for TLC.                                     *)
EXTENDS PeerHandshake

TwoNumbers == {1, 2}
Both == {"NMDC", "ADC"}
Adc == {"ADC"}
=============================================================================
