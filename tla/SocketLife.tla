------------------------------ MODULE SocketLife ------------------------------
(***************************************************************************)
(* What the owner of a BufferedSocket may rely on, whoever the owner is    *)
(* (a UserConnection, a Client, an HttpConnection): the calls of its       *)
(* listener come in the order                                              *)
(*                                                                         *)
(*      (Connecting Connected?)?  Line*  Failed?                           *)
(*                                                                         *)
(* and none comes once the owner has given the socket back; Line stands    *)
(* for every call of a connection at work: Line, Data, ModeChange,         *)
(* BytesSent, TransmitDone.  The socket may outlive its owner, never the   *)
(* other way round.  The interface is the one of BufferedSocketListener;   *)
(* BufferedSocket implements it.                                           *)
(***************************************************************************)
EXTENDS Sequences, SequencesExt

CONSTANT Sockets

VARIABLES phase,  \* per socket: none, live, released (its thread still runs), gone
          told    \* per socket: the calls of the listener, equal neighbours counted once

vars == <<phase, told>>

Calls == {"Connecting", "Connected", "Line", "Failed"}

Init == /\ phase = [s \in Sockets |-> "none"]
        /\ told = [s \in Sockets |-> <<>>]

(* a run of equal calls is one entry of what was told *)
Told(t, e) == IF t # <<>> /\ Last(t) = e THEN t ELSE Append(t, e)

Create(s) == /\ phase[s] = "none"
             /\ phase' = [phase EXCEPT ![s] = "live"]
             /\ UNCHANGED told

(* a socket that was accepted never calls this, nor Connected *)
Connecting(s) == /\ phase[s] = "live" /\ told[s] = <<>>
                 /\ told' = [told EXCEPT ![s] = Told(@, "Connecting")]
                 /\ UNCHANGED phase

Connected(s) == /\ phase[s] = "live" /\ told[s] = <<"Connecting">>
                /\ told' = [told EXCEPT ![s] = Told(@, "Connected")]
                /\ UNCHANGED phase

Line(s) == /\ phase[s] = "live" /\ ~Contains(told[s], "Failed")
           /\ told' = [told EXCEPT ![s] = Told(@, "Line")]
           /\ UNCHANGED phase

(* the owner may give the socket back from inside the call *)
Failed(s) == /\ phase[s] = "live" /\ ~Contains(told[s], "Failed")
             /\ told' = [told EXCEPT ![s] = Told(@, "Failed")]
             /\ \E p \in {"live", "released"} : phase' = [phase EXCEPT ![s] = p]

Release(s) == /\ phase[s] = "live"
              /\ phase' = [phase EXCEPT ![s] = "released"]
              /\ UNCHANGED told

End(s) == /\ phase[s] = "released"
          /\ phase' = [phase EXCEPT ![s] = "gone"]
          /\ UNCHANGED told

Next == \E s \in Sockets : \/ Create(s) \/ Connecting(s) \/ Connected(s) \/ Line(s)
                           \/ Failed(s) \/ Release(s) \/ End(s)

Spec == Init /\ [][Next]_vars
===============================================================================
