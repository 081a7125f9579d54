---------------------------- MODULE MCBufferedSocket ----------------------------
(* Instances of BufferedSocket for TLC. *)
EXTENDS BufferedSocket

CONSTANTS p1, h1

OnePeer == {p1}
PeerAndHub == {p1, h1}
NoPeers == {}
=================================================================================
