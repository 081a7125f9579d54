------------------------- MODULE MCConnectionManager -------------------------
(* Instances of ConnectionManager for TLC.                                 *)
EXTENDS ConnectionManager, TLC

CONSTANTS u1, u2, c1, c2

OneUser == {u1}
TwoUsers == {u1, u2}
OneConn == {c1}
TwoConns == {c1, c2}
Nmdc == {"NMDC"}
Adc == {"ADC"}
Both == {"NMDC", "ADC"}

SwapConns == Permutations(TwoConns)
SwapAll == Permutations(TwoConns) \cup Permutations(TwoUsers)
=============================================================================
