---------------------------- MODULE MCDownloadQueue ----------------------------
(* Instances of DownloadQueue for TLC.                                     *)
EXTENDS DownloadQueue

CONSTANTS t1, t2, r1, r2, u1, u2, i1, i2

OneTarget == {t1}
TwoTargets == {t1, t2}
SameName == [t \in {t1, t2} |-> t1]
OwnName == [t \in {t1, t2} |-> t]
TwoRoots == {r1, r2}
OneAtT1 == {<<t1, r1>>}
OneUser == {u1}
TwoUsers == {u1, u2}
OneItem == {i1}
TwoItems == {i1, i2}
Swap == Permutations(TwoItems) \cup Permutations(TwoUsers)
=============================================================================
