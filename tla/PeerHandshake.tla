----------------------------- MODULE PeerHandshake -----------------------------
(***************************************************************************)
(* Two clients that run this code agree on who downloads from whom over    *)
(* one connection, which "far" opens and "near" accepts.                   *)
(*                                                                         *)
(* Each side decides in its own handlers of dcpp/ConnectionManager, from   *)
(* its own download queue, which changes meanwhile; messages travel in     *)
(* order.  What ConnectionManager models of one side with an arbitrary     *)
(* peer, this module models of both sides with each other.                 *)
(***************************************************************************)
EXTENDS Naturals, Sequences

CONSTANTS
    Protocols, \* those of "NMDC" and "ADC" that the clients may speak
    Numbers,   \* what UserConnection::getNumber() may be
    MaxRounds  \* bound: connections made one after another

ASSUME HandshakeAssumption ==
    Protocols \subseteq {"NMDC", "ADC"} /\ Numbers \subseteq Nat /\ Numbers # {} /\ MaxRounds \in Nat

Sides == {"near", "far"}
Other(s) == IF s = "near" THEN "far" ELSE "near"

VARIABLES
    protocol, \* what the hub both are on speaks
    item,     \* state of the download item each side has for the other
    asker,    \* the side that asked for the connection, with its token
    delayed,  \* that token is in the delayedTokens of the asker
    phase,    \* UserConnection::state, "added" once a manager has it
    role,     \* FLAG_DOWNLOAD, FLAG_UPLOAD or neither
    number,   \* getNumber()
    chan,     \* messages on their way to each side
    rounds

vars == <<protocol, item, asker, delayed, phase, role, number, chan, rounds>>

Msg(kind, dir, num) == [kind |-> kind, dir |-> dir, num |-> num]
Bare(kind) == Msg(kind, "-", 0)
Kinds == {"MyNick", "Lock", "Direction", "Key", "SUP", "INF", "EOF"}

TypeOK ==
    /\ protocol \in Protocols
    /\ item \in [Sides -> {"none", "WAITING", "CONNECTING", "ACTIVE"}]
    /\ asker \in Sides /\ delayed \in BOOLEAN
    /\ phase \in [Sides -> {"none", "SUPNICK", "LOCK", "DIRECTION", "KEY", "INF",
                            "unassigned", "added", "gone"}]
    /\ role \in [Sides -> {"none", "DOWNLOAD", "UPLOAD"}]
    /\ number \in [Sides -> Numbers]
    /\ \A s \in Sides : /\ Len(chan[s]) <= 5
                        /\ \A i \in 1..Len(chan[s]) : chan[s][i].kind \in Kinds
    /\ rounds \in 0..MaxRounds

Init ==
    /\ protocol \in Protocols
    /\ item = [s \in Sides |-> "none"] /\ asker = "near" /\ delayed = FALSE
    /\ phase = [s \in Sides |-> "none"] /\ role = [s \in Sides |-> "none"]
    /\ number \in [Sides -> Numbers]
    /\ chan = [s \in Sides |-> <<>>] /\ rounds = 0

-----------------------------------------------------------------------------
(* The download queues: items are added, tried, time out and are removed.  *)
(* The token of a removed item is kept for 90 s; bound: a handshake takes  *)
(* no longer than that.                                                    *)

Queue(s) ==
    \/ item[s] = "none" /\ item' = [item EXCEPT ![s] = "WAITING"] /\ UNCHANGED delayed
    \/ item[s] = "WAITING" /\ item' = [item EXCEPT ![s] = "CONNECTING"] /\ UNCHANGED delayed
    \/ item[s] = "CONNECTING" /\ item' = [item EXCEPT ![s] = "WAITING"] /\ UNCHANGED delayed
    \/ /\ item[s] \in {"WAITING", "CONNECTING"}
       /\ item' = [item EXCEPT ![s] = "none"]
       /\ delayed' = (delayed \/ s = asker)

QueueChanges == /\ \E s \in Sides : Queue(s)
                /\ UNCHANGED <<asker, phase, role, number, chan, rounds>>

-----------------------------------------------------------------------------
(* The handlers.                                                           *)

\* What is on its way to a side after msgs were sent to it.
Sent(t, msgs) == IF phase[t] = "gone" THEN <<>> ELSE chan[t] \o msgs

\* The messages that s sends to its peer while it handles the first of its own.
Answer(s, msgs) ==
    chan' = [chan EXCEPT ![s] = Tail(@), ![Other(s)] = Sent(Other(s), msgs)]

Got(s, kind) == chan[s] # <<>> /\ Head(chan[s]).kind = kind

\* putConnection(): the peer reads what was sent, then the end.
Put(s) ==
    /\ phase' = [phase EXCEPT ![s] = "gone"] /\ role' = [role EXCEPT ![s] = "none"]
    /\ chan' = [chan EXCEPT ![s] = <<>>, ![Other(s)] = Sent(Other(s), <<Bare("EOF")>>)]

\* An active near asked far to connect, or a passive far asked near to ask;
\* far connects, and on(Connected) greets.
Open ==
    /\ phase["near"] = phase["far"] /\ phase["near"] \in {"none", "gone"}
    /\ asker' \in {s \in Sides : item[s] = "CONNECTING"} /\ rounds < MaxRounds
    /\ rounds' = rounds + 1
    /\ number' \in [Sides -> Numbers]
    /\ delayed' = FALSE
    /\ phase' = [s \in Sides |-> "SUPNICK"] /\ role' = [s \in Sides |-> "none"]
    /\ chan' = [near |-> IF protocol = "NMDC" THEN <<Bare("MyNick"), Bare("Lock")>>
                                              ELSE <<Bare("SUP")>>,
                far  |-> <<>>]
    /\ UNCHANGED item

\* Mutant: $MyNick is answered by both sides.
MyNick_BothAnswer(s) ==
    /\ Got(s, "MyNick") /\ phase[s] = "SUPNICK"
    /\ phase' = [phase EXCEPT ![s] = "LOCK"]
    /\ role' = [role EXCEPT ![s] =
                  IF item[s] \in {"WAITING", "CONNECTING"} THEN "DOWNLOAD" ELSE "UPLOAD"]
    /\ Answer(s, <<Bare("MyNick"), Bare("Lock")>>)
    /\ UNCHANGED <<item, asker, delayed, number, rounds>>

MyNick(s) ==
    /\ Got(s, "MyNick") /\ phase[s] = "SUPNICK"
    /\ phase' = [phase EXCEPT ![s] = "LOCK"]
    /\ role' = [role EXCEPT ![s] =
                  IF item[s] \in {"WAITING", "CONNECTING"} THEN "DOWNLOAD" ELSE "UPLOAD"]
    /\ Answer(s, IF s = "near" THEN <<Bare("MyNick"), Bare("Lock")>> ELSE <<>>)
    /\ UNCHANGED <<item, asker, delayed, number, rounds>>

\* Mutant: the lock is answered without a key.
CLock_NoKey(s) ==
    /\ Got(s, "Lock") /\ phase[s] = "LOCK"
    /\ phase' = [phase EXCEPT ![s] = "DIRECTION"]
    /\ Answer(s, <<Msg("Direction", role[s], number[s])>>)
    /\ UNCHANGED <<item, asker, delayed, role, number, rounds>>

CLock(s) ==
    /\ Got(s, "Lock") /\ phase[s] = "LOCK"
    /\ phase' = [phase EXCEPT ![s] = "DIRECTION"]
    /\ Answer(s, <<Msg("Direction", role[s], number[s]), Bare("Key")>>)
    /\ UNCHANGED <<item, asker, delayed, role, number, rounds>>

\* Mutant: the numbers are not compared, the downloader stays one.
Direction_NoNumber(s) ==
    LET m == Head(chan[s]) IN
    /\ Got(s, "Direction") /\ phase[s] = "DIRECTION"
    /\ IF m.dir = "UPLOAD" /\ role[s] = "UPLOAD"
       THEN Put(s)
       ELSE phase' = [phase EXCEPT ![s] = "KEY"] /\ Answer(s, <<>>) /\ UNCHANGED role
    /\ UNCHANGED <<item, asker, delayed, number, rounds>>

\* Of two that want to download "the one with the highest number wins".
Direction(s) ==
    LET m == Head(chan[s])
        clash == m.dir = "DOWNLOAD" /\ role[s] = "DOWNLOAD"
    IN
    /\ Got(s, "Direction") /\ phase[s] = "DIRECTION"
    /\ IF \/ m.dir = "UPLOAD" /\ role[s] = "UPLOAD"
          \/ clash /\ number[s] = m.num
       THEN Put(s)
       ELSE /\ phase' = [phase EXCEPT ![s] = "KEY"]
            /\ role' = IF clash /\ number[s] < m.num THEN [role EXCEPT ![s] = "UPLOAD"] ELSE role
            /\ Answer(s, <<>>)
    /\ UNCHANGED <<item, asker, delayed, number, rounds>>

\* addDownloadConnection(), addUploadConnection(): a download needs an item
\* that is not in use or gone by now.
Add(s, r) ==
    IF r = "DOWNLOAD" /\ item[s] \notin {"WAITING", "CONNECTING"}
    THEN Put(s) /\ UNCHANGED item
    ELSE /\ phase' = [phase EXCEPT ![s] = "added"]
         /\ role' = [role EXCEPT ![s] = r]
         /\ item' = IF r = "DOWNLOAD" THEN [item EXCEPT ![s] = "ACTIVE"] ELSE item
         /\ Answer(s, <<>>)

Key(s) ==
    /\ Got(s, "Key") /\ phase[s] = "KEY"
    /\ Add(s, role[s])
    /\ UNCHANGED <<asker, delayed, number, rounds>>

SUP(s) ==
    /\ Got(s, "SUP") /\ phase[s] = "SUPNICK"
    /\ phase' = [phase EXCEPT ![s] = "INF"]
    /\ Answer(s, IF s = "near" THEN <<Bare("SUP"), Bare("INF")>> ELSE <<Bare("INF")>>)
    /\ UNCHANGED <<item, asker, delayed, role, number, rounds>>

\* A queued peer means a download, whatever the token; without an item it is
\* an upload, unless the token is that of an item removed meanwhile.
INF(s) ==
    /\ Got(s, "INF") /\ phase[s] = "INF"
    /\ CASE item[s] # "none" -> Add(s, "DOWNLOAD")
         [] item[s] = "none" /\ ~(s = asker /\ delayed) -> Add(s, "UPLOAD")
         [] OTHER -> /\ phase' = [phase EXCEPT ![s] = "unassigned"]
                     /\ Answer(s, <<>>) /\ UNCHANGED <<role, item>>
    /\ UNCHANGED <<asker, delayed, number, rounds>>

\* failed(): the item of a download waits again.
Release(s) ==
    item' = IF phase[s] = "added" /\ role[s] = "DOWNLOAD"
            THEN [item EXCEPT ![s] = "WAITING"] ELSE item

EOF(s) ==
    /\ Got(s, "EOF") /\ phase[s] # "gone"
    /\ Release(s) /\ Put(s)
    /\ UNCHANGED <<asker, delayed, number, rounds>>

\* The network breaks, the user closes the connection, it was idle for 180 s.
Break(s) ==
    /\ phase[s] \notin {"none", "gone"}
    /\ Release(s) /\ Put(s)
    /\ UNCHANGED <<asker, delayed, number, rounds>>

Receive(s) == \/ MyNick(s) \/ CLock(s) \/ Direction(s) \/ Key(s)
              \/ SUP(s) \/ INF(s) \/ EOF(s)

Next ==
    /\ QueueChanges \/ Open \/ \E s \in Sides : Receive(s) \/ Break(s)
    /\ UNCHANGED protocol

Spec == Init /\ [][Next]_vars

\* The socket threads deliver what was sent; on(Minute) closes a connection
\* that got no role and has been idle for 180 s.
FairSpec == Spec /\ \A s \in Sides : /\ WF_vars(Receive(s) /\ UNCHANGED protocol)
                                     /\ WF_vars(/\ phase[s] = "unassigned" /\ Break(s)
                                                /\ UNCHANGED protocol)

-----------------------------------------------------------------------------
(* Properties.                                                             *)

Added(s) == phase[s] = "added"

\* When both managers have the connection one side downloads and the other
\* uploads: otherwise two clients wait for each other's answer, or request.
RolesComplementary ==
    (\A s \in Sides : Added(s)) => \A s \in Sides : role[s] # role[Other(s)]

\* $Direction and the numbers settle it over NMDC. Over ADC nothing stops two
\* clients that have queued each other from both downloading, but delayedTokens
\* keeps the answer to a request whose item was removed meanwhile from becoming
\* an upload: nobody would be left to ask for anything.
RolesFit ==
    /\ protocol = "NMDC" => RolesComplementary
    /\ ~ \A s \in Sides : Added(s) /\ role[s] = "UPLOAD"

\* A handshake comes to its end on both sides: nobody is left waiting for a
\* message that will not come.
HandshakeEnds ==
    \A s \in Sides : phase[s] = "SUPNICK" ~> phase[s] \in {"added", "gone"}
=============================================================================
