----------------------------- MODULE MCQueueItem -----------------------------
(* Instances of QueueItem for TLC.                                         *)
EXTENDS QueueItem

CONSTANTS d1, d2

TwoDownloaders == {d1, d2}
OneOrTwo == {1, 2}
=============================================================================
