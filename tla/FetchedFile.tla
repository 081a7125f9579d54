------------------------------ MODULE FetchedFile ------------------------------
(***************************************************************************)
(* What the downloads of one file do for it, whatever segments and blocks  *)
(* it is cut into: each takes bytes that no other one is at, some of them  *)
(* missing, gets them one by one, and in the end has those counted as done *)
(* that have arrived, or fewer.  Nothing that is done is undone, and the   *)
(* file is complete as soon as every byte is done.  QueueItem implements   *)
(* it.                                                                     *)
(***************************************************************************)
CONSTANTS Bytes, Downloaders

VARIABLES done,     \* the bytes that count as done
          stored,   \* those that have been written
          claim,    \* per connection: those it was told to get
          complete  \* nothing more is asked for

vars == <<done, stored, claim, complete>>

Init == /\ done \in SUBSET Bytes /\ stored = done
        /\ claim = [d \in Downloaders |-> {}]
        /\ complete = (done = Bytes)

Claim(d) ==
    /\ ~complete /\ claim[d] = {}
    /\ \E bytes \in SUBSET (Bytes \ UNION {claim[e] : e \in Downloaders}) :
           /\ ~(bytes \subseteq done)
           /\ claim' = [claim EXCEPT ![d] = bytes]
    /\ UNCHANGED <<done, stored, complete>>

Arrive(d) ==
    /\ \E byte \in claim[d] : stored' = stored \cup {byte}
    /\ UNCHANGED <<done, claim, complete>>

Report(d) ==
    /\ claim[d] # {}
    /\ \E part \in SUBSET (claim[d] \cap stored) : done' = done \cup part
    /\ claim' = [claim EXCEPT ![d] = {}]
    /\ complete' = (done' = Bytes)
    /\ UNCHANGED stored

Next == \E d \in Downloaders : Claim(d) \/ Arrive(d) \/ Report(d)

Spec == Init /\ [][Next]_vars
===============================================================================
