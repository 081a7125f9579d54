-------------------------- MODULE MCDownloadManager --------------------------
(* Instances of DownloadManager for TLC.                                   *)
EXTENDS DownloadManager, TLC

CONSTANTS u1, u2, f1, f2, h1, h2

OneUser == {u1}
TwoUsers == {u1, u2}
OneFile == {f1}
TwoFiles == {f1, f2}
SecondFile == {f2}
OneHub == [u \in Users |-> {h1}]
TwoHubs == [u \in Users |-> {h1, h2}]
FirstRoams == [u \in Users |-> IF u = u1 THEN {h1, h2} ELSE {h1}]
LowAndHigh == (f1 :> "LOWEST") @@ (f2 :> "HIGHEST")
Normal == [f \in Files |-> "NORMAL"]
Shared == [f \in Files |-> IF f = f1 THEN Users ELSE {u1}]
Everybody == [f \in Files |-> Users]
=============================================================================
