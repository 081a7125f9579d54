--------------------------- MODULE MCUploadManager ---------------------------
(* Instances of UploadManager for TLC.                                     *)
EXTENDS UploadManager, TLC

CONSTANTS u1, u2, c1, c2

TwoUsers == {u1, u2}
TwoConns == {c1, c2}
OneUser == {u1}
OneConn == {c1}
SamePeer == c1 :> u1
OnePerUser == (c1 :> u1) @@ (c2 :> u2)

\* lastFreeSlots only decides what the hubs are told: no guard reads it.
Observed == <<slotVars, queueVars, xferVars, connVars, timerPc, todo, kicks, userVars, cs>>

\* The two peers, with their connections, are interchangeable.
Swap == {[x \in {u1, u2, c1, c2} |-> x],
         (u1 :> u2) @@ (u2 :> u1) @@ (c1 :> c2) @@ (c2 :> c1)}
=============================================================================
