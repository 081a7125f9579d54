--------------------------- MODULE ConnectionManager ---------------------------
(***************************************************************************)
(* dcpp/ConnectionManager: the queue of the peers this client wants to     *)
(* download from, the handshake that finds out who is at the other end of  *)
(* a connection and what it is for, and the shutdown that waits for the    *)
(* last connection.                                                        *)
(*                                                                         *)
(* Socket threads, the timer thread, hub threads (incoming connection      *)
(* requests) and the user interface share the queues under the mutex cs.   *)
(* A handler that holds cs from its first to its last access of the queues *)
(* is one step; the outgoing connects, which do not, are several.          *)
(***************************************************************************)
EXTENDS Integers, FiniteSets

CONSTANTS
    Users,         \* the peers
    Conns,         \* UserConnection objects
    TimeoutTicks,  \* the 50 s after which a connect request has timed out
    RetryTicks,    \* the 60 s between two requests to one peer
    WeAreActive,   \* ClientManager::isActive()
    Passive,       \* peers with User::PASSIVE
    Forceable,     \* bound: the peers the user forces an attempt to
    Protocols,     \* bound: the protocols spoken, of {"NMDC", "ADC"}
    Outgoing,      \* bound: peers also ask this client to connect to them
    Ctm2Hub,       \* some address is on the ddosCTM2HUBs list
    MayShutdown,   \* bound: the client may be shut down
    MayChange      \* bound: peers come, go and are queued or not

ASSUME ConnectionAssumption ==
    /\ IsFiniteSet(Users) /\ IsFiniteSet(Conns)
    /\ TimeoutTicks \in Nat /\ RetryTicks \in Nat /\ TimeoutTicks < RetryTicks
    /\ Passive \subseteq Users /\ Forceable \subseteq Users
    /\ Protocols \subseteq {"NMDC", "ADC"}
    /\ {WeAreActive, Outgoing, Ctm2Hub, MayShutdown, MayChange} \subseteq BOOLEAN
    /\ "nobody" \notin Users

VARIABLES
    dl,          \* state of the download item of a peer, or "none"
    age,         \* ticks since its lastAttempt, -1 while lastAttempt is 0
    protoErr,    \* items whose errors is -1
    up,          \* peers with an item in uploads
    delayed,     \* peers with the token of a removed item in delayedTokens
    expected,    \* nicks in expectedConnections
    sourcesToDrop \* removeSource(FLAG_PASSIVE) calls on(Second) still owes
VARIABLES
    phase,       \* UserConnection::state up to the end of the handshake
    proto,       \* FLAG_NMDC or not
    incoming,    \* FLAG_INCOMING
    user,        \* UserConnection::user
    role,        \* FLAG_DOWNLOAD, FLAG_UPLOAD or neither
    assoc,       \* FLAG_ASSOCIATED
    closing      \* connections whose socket was told to disconnect
VARIABLES
    online, wanted, \* peers online; peers with an unpaused queue item
    dlSlots,        \* DownloadManager::startDownload()
    shut            \* progress of shutdown()

itemVars == <<dl, age, protoErr, up, delayed, expected, sourcesToDrop>>
connVars == <<phase, proto, incoming, user, role, assoc, closing>>
envVars  == <<online, wanted, dlSlots>>
vars == <<itemVars, connVars, envVars, shut>>

ItemStates == {"none", "WAITING", "CONNECTING", "NO_SLOTS", "ACTIVE"}
Phases == {"none", "called", "opened", "leaked", "CONNECT", "SUPNICK", "LOCK",
           "DIRECTION", "KEY", "INF", "added"}

TypeOK ==
    /\ dl \in [Users -> ItemStates] /\ age \in [Users -> -1..RetryTicks]
    /\ protoErr \subseteq Users /\ up \subseteq Users /\ delayed \subseteq Users
    /\ expected \subseteq Users /\ sourcesToDrop \subseteq Users
    /\ phase \in [Conns -> Phases]
    /\ proto \in [Conns -> {"NMDC", "ADC"}]
    /\ incoming \subseteq Conns
    /\ user \in [Conns -> Users \cup {"nobody"}]
    /\ role \in [Conns -> {"none", "DOWNLOAD", "UPLOAD"}]
    /\ assoc \subseteq Conns /\ closing \subseteq Conns
    /\ online \subseteq Users /\ wanted \subseteq Users /\ dlSlots \in BOOLEAN
    /\ shut \in {"no", "flagged", "deaf", "waiting", "done"}

Init ==
    /\ dl = [u \in Users |-> "none"] /\ age = [u \in Users |-> -1]
    /\ protoErr = {} /\ up = {} /\ delayed = {} /\ expected = {} /\ sourcesToDrop = {}
    /\ phase = [c \in Conns |-> "none"] /\ proto = [c \in Conns |-> "ADC"]
    /\ incoming = {} /\ user = [c \in Conns |-> "nobody"]
    /\ role = [c \in Conns |-> "none"] /\ assoc = {} /\ closing = {}
    /\ online = Users /\ wanted = {} /\ dlSlots = TRUE
    /\ shut = "no"

-----------------------------------------------------------------------------
(* The download queue.                                                     *)

userConnections == {c \in Conns : phase[c] \notin {"none", "called"}}

\* An item that exists but has not been handed to the DownloadManager.
Pending == {u \in Users : dl[u] \notin {"none", "ACTIVE"}}

\* getCQI(): a new item waits, and has never been attempted.
getDownloadConnection(u) ==
    /\ u \in wanted
    /\ dl[u] = "none"      \* otherwise only DownloadManager::checkIdle()
    /\ dl' = [dl EXCEPT ![u] = "WAITING"]
    /\ age' = [age EXCEPT ![u] = -1]
    /\ UNCHANGED <<protoErr, up, delayed, expected, sourcesToDrop, connVars, envVars, shut>>

force(u) ==
    /\ u \in Forceable /\ dl[u] # "none"
    /\ age' = [age EXCEPT ![u] = -1]
    /\ UNCHANGED <<dl, protoErr, up, delayed, expected, sourcesToDrop, connVars, envVars, shut>>

\* What on(Second) does to the items it attempts.
Attempted(u) ==
    CASE dl[u] = "WAITING" /\ dlSlots   -> "CONNECTING"
      [] dl[u] = "WAITING" /\ ~dlSlots  -> "NO_SLOTS"
      [] dl[u] = "NO_SLOTS" /\ dlSlots  -> "WAITING"
      [] OTHER                          -> dl[u]

\* Mutant: the time-out is longer than the retry, which finds CONNECTING.
TimedOut_AfterRetry(u) == dl[u] = "CONNECTING" /\ age[u] > RetryTicks

TimedOut(u) == dl[u] = "CONNECTING" /\ age[u] >= TimeoutTicks

Unreachable(u) == u \notin online \/ (u \in Passive /\ ~WeAreActive)

\* A protocol error stops the attempts, except a forced one.
OnHold(u) == u \in protoErr /\ age[u] # -1

\* Which of the items that are due are reached before attemptDone: the
\* order of the vector is left open, but at most one of them connects, and
\* the loop passes over an item only after some item has connected.
Reachable(forced, due, tried) ==
    LET connects == {u \in forced \cup tried : u \in wanted /\ dl[u] = "WAITING" /\ dlSlots}
    IN  /\ tried \subseteq due
        /\ Cardinality(connects \cap tried) <= 1
        /\ tried # due => connects # {}

Second ==
    LET gone   == {u \in Pending : Unreachable(u)}
        live   == {u \in Pending \ gone : ~OnHold(u)}
        forced == {u \in live : age[u] = -1}
        due    == {u \in live : age[u] = RetryTicks}
    IN
    /\ shut = "no"
    /\ \E tried \in SUBSET due :
         /\ Reachable(forced, due, tried)
         /\ LET attempts == forced \cup tried
                removed  == gone \cup (attempts \ wanted)
            IN  /\ dl' = [u \in Users |->
                            CASE u \in removed -> "none"
                              [] u \in attempts \ removed -> Attempted(u)
                              [] u \in live \ attempts /\ TimedOut(u) -> "WAITING"
                              [] OTHER -> dl[u]]
                /\ age' = [u \in Users |->
                            CASE u \in removed -> -1
                              [] u \in attempts \ removed -> 0
                              [] age[u] \in 0..(RetryTicks - 1) -> age[u] + 1
                              [] OTHER -> age[u]]
                /\ protoErr' = protoErr \ removed
                /\ \E expired \in SUBSET delayed : delayed' = (delayed \ expired) \cup removed
    /\ sourcesToDrop' = sourcesToDrop \cup
                        {u \in gone : u \in online /\ u \in Passive}
    /\ UNCHANGED <<up, expected, connVars, envVars, shut>>

\* After the lock was released: the passive sources leave the queue.
DropPassiveSource(u) ==
    /\ u \in sourcesToDrop
    /\ sourcesToDrop' = sourcesToDrop \ {u}
    /\ wanted' = wanted \ {u}
    /\ UNCHANGED <<dl, age, protoErr, up, delayed, expected, connVars, online, dlSlots, shut>>

\* Connections that have been silent for 180 s are closed.
Minute ==
    /\ shut = "no"
    /\ \E idle \in SUBSET {c \in userConnections : phase[c] \notin {"opened", "leaked"}} :
           idle # {} /\ closing' = closing \cup idle
    /\ UNCHANGED <<itemVars, phase, proto, incoming, user, role, assoc, envVars, shut>>

-----------------------------------------------------------------------------
(* A connection, from its creation to its end.                             *)

\* putConnection(): the object leaves userConnections and our listeners.
Put(c) ==
    /\ phase' = [phase EXCEPT ![c] = "none"]
    /\ proto' = [proto EXCEPT ![c] = "ADC"]
    /\ incoming' = incoming \ {c} /\ user' = [user EXCEPT ![c] = "nobody"]
    /\ role' = [role EXCEPT ![c] = "none"]
    /\ assoc' = assoc \ {c} /\ closing' = closing \ {c}

\* Mutant: the server threads still run when disconnectAll() has been called.
accept_NotJoined(c) ==
    /\ phase[c] = "none" /\ shut # "done"
    /\ phase' = [phase EXCEPT ![c] = "SUPNICK"]
    /\ \E p \in Protocols : proto' = [proto EXCEPT ![c] = p]
    /\ incoming' = incoming \cup {c}
    /\ UNCHANGED <<itemVars, user, role, assoc, closing, envVars, shut>>

\* accept(): somebody connects to us; it speaks first.
accept(c) ==
    /\ phase[c] = "none" /\ shut \in {"no", "flagged"}
    /\ phase' = [phase EXCEPT ![c] = "SUPNICK"]
    /\ \E p \in Protocols : proto' = [proto EXCEPT ![c] = p]
    /\ incoming' = incoming \cup {c}
    /\ UNCHANGED <<itemVars, user, role, assoc, closing, envVars, shut>>

\* nmdcConnect(), adcConnect(): a hub passes on a request to connect.
Called(c) ==
    /\ Outgoing /\ phase[c] = "none" /\ shut = "no"
    /\ phase' = [phase EXCEPT ![c] = "called"]
    /\ \E p \in Protocols : proto' = [proto EXCEPT ![c] = p]
    /\ UNCHANGED <<itemVars, incoming, user, role, assoc, closing, envVars, shut>>

\* getConnection() adds the object to userConnections.
getConnection(c) ==
    /\ phase[c] = "called"
    /\ phase' = [phase EXCEPT ![c] = "opened"]
    /\ UNCHANGED <<itemVars, proto, incoming, user, role, assoc, closing, envVars, shut>>

\* checkCTM2HUB(): nmdcConnect() returns, the object stays where it is.
Blocked(c) ==
    /\ phase[c] = "opened" /\ proto[c] = "NMDC" /\ Ctm2Hub
    /\ phase' = [phase EXCEPT ![c] = "leaked"]
    /\ UNCHANGED <<itemVars, proto, incoming, user, role, assoc, closing, envVars, shut>>

\* The socket is created, and its thread started; or it throws.
Connect(c) ==
    /\ phase[c] = "opened"
    /\ \/ /\ phase' = [phase EXCEPT ![c] = "CONNECT"]
          /\ UNCHANGED <<proto, incoming, user, role, assoc, closing>>
       \/ Put(c)
    /\ UNCHANGED <<itemVars, envVars, shut>>

\* on(Connected): or the TLS settings forbid the connection.
Connected(c) ==
    /\ phase[c] = "CONNECT"
    /\ \/ /\ phase' = [phase EXCEPT ![c] = "SUPNICK"]
          /\ UNCHANGED <<proto, incoming, user, role, assoc, closing>>
       \/ Put(c)
    /\ UNCHANGED <<itemVars, envVars, shut>>

\* A hub connection told a peer to connect to us: nmdcExpect().
nmdcExpect(u) ==
    /\ "NMDC" \in Protocols /\ u \in online
    /\ expected' = expected \cup {u}
    /\ UNCHANGED <<dl, age, protoErr, up, delayed, sourcesToDrop, connVars, envVars, shut>>

\* Mutant: the peer of an upload connection is not remembered.
MyNick_NoUser(c, u) ==
    /\ phase[c] = "SUPNICK" /\ proto[c] = "NMDC"
    /\ LET known == c \in incoming => u \in expected
           match == dl[u] \in {"CONNECTING", "WAITING"}
       IN
       /\ IF known /\ (match \/ u \in online)
          THEN /\ phase' = [phase EXCEPT ![c] = "LOCK"]
               /\ user' = IF match THEN [user EXCEPT ![c] = u] ELSE user
               /\ role' = [role EXCEPT ![c] = IF match THEN "DOWNLOAD" ELSE "UPLOAD"]
               /\ UNCHANGED <<proto, incoming, assoc, closing>>
          ELSE Put(c)
       /\ expected' = IF c \in incoming THEN expected \ {u} ELSE expected
       /\ IF known
          THEN \E passed \in SUBSET protoErr :
                  /\ IF match THEN u \in protoErr => u \in passed ELSE passed = protoErr
                  /\ protoErr' = protoErr \ passed
          ELSE UNCHANGED protoErr
    /\ UNCHANGED <<dl, age, up, delayed, sourcesToDrop, envVars, shut>>

\* $MyNick.  An incoming connection must be expected.  While looking for the
\* item of this peer the loop clears the errors of those before it: of any
\* items, if it finds none.
MyNick(c, u) ==
    /\ phase[c] = "SUPNICK" /\ proto[c] = "NMDC"
    /\ LET known == c \in incoming => u \in expected
           match == dl[u] \in {"CONNECTING", "WAITING"}
       IN
       /\ IF known /\ (match \/ u \in online)
          THEN /\ phase' = [phase EXCEPT ![c] = "LOCK"]
               /\ user' = [user EXCEPT ![c] = u]
               /\ role' = [role EXCEPT ![c] = IF match THEN "DOWNLOAD" ELSE "UPLOAD"]
               /\ UNCHANGED <<proto, incoming, assoc, closing>>
          ELSE Put(c)
       /\ expected' = IF c \in incoming THEN expected \ {u} ELSE expected
       /\ IF known
          THEN \E passed \in SUBSET protoErr :
                  /\ IF match THEN u \in protoErr => u \in passed ELSE passed = protoErr
                  /\ protoErr' = protoErr \ passed
          ELSE UNCHANGED protoErr
    /\ UNCHANGED <<dl, age, up, delayed, sourcesToDrop, envVars, shut>>

CLock(c) ==
    /\ phase[c] = "LOCK"
    /\ phase' = [phase EXCEPT ![c] = "DIRECTION"]
    /\ UNCHANGED <<itemVars, proto, incoming, user, role, assoc, closing, envVars, shut>>

\* $Direction: what the peer wants to do, and its number.
Direction(c, dir, number) ==
    /\ phase[c] = "DIRECTION"
    /\ IF \/ dir = "Upload" /\ role[c] = "UPLOAD"
          \/ dir = "Download" /\ role[c] = "DOWNLOAD" /\ number = "equal"
       THEN Put(c)
       ELSE /\ phase' = [phase EXCEPT ![c] = "KEY"]
            /\ role' = IF dir = "Download" /\ role[c] = "DOWNLOAD" /\ number = "higher"
                       THEN [role EXCEPT ![c] = "UPLOAD"] ELSE role
            /\ UNCHANGED <<proto, incoming, user, assoc, closing>>
    /\ UNCHANGED <<itemVars, envVars, shut>>

\* Mutant: the state of the item is not looked at.
addDownloadConnection_AnyState(c, u) ==
    IF dl[u] # "none"
    THEN /\ dl' = [dl EXCEPT ![u] = "ACTIVE"]
         /\ assoc' = assoc \cup {c}
         /\ phase' = [phase EXCEPT ![c] = "added"]
         /\ role' = [role EXCEPT ![c] = "DOWNLOAD"]
         /\ user' = [user EXCEPT ![c] = u]
         /\ UNCHANGED <<proto, incoming, closing>>
    ELSE Put(c) /\ UNCHANGED dl

\* The item becomes ACTIVE and the connection goes to the DownloadManager.
addDownloadConnection(c, u) ==
    IF dl[u] \in {"WAITING", "CONNECTING"}
    THEN /\ dl' = [dl EXCEPT ![u] = "ACTIVE"]
         /\ assoc' = assoc \cup {c}
         /\ phase' = [phase EXCEPT ![c] = "added"]
         /\ role' = [role EXCEPT ![c] = "DOWNLOAD"]
         /\ user' = [user EXCEPT ![c] = u]
         /\ UNCHANGED <<proto, incoming, closing>>
    ELSE Put(c) /\ UNCHANGED dl

\* One upload connection per peer.
addUploadConnection(c, u) ==
    IF u \notin up
    THEN /\ up' = up \cup {u}
         /\ assoc' = assoc \cup {c}
         /\ phase' = [phase EXCEPT ![c] = "added"]
         /\ role' = [role EXCEPT ![c] = "UPLOAD"]
         /\ user' = [user EXCEPT ![c] = u]
         /\ UNCHANGED <<proto, incoming, closing>>
    ELSE Put(c) /\ UNCHANGED up

Key(c) ==
    /\ phase[c] = "KEY"
    /\ IF role[c] = "DOWNLOAD"
       THEN addDownloadConnection(c, user[c]) /\ UNCHANGED up
       ELSE addUploadConnection(c, user[c]) /\ UNCHANGED dl
    /\ UNCHANGED <<age, protoErr, delayed, expected, sourcesToDrop, envVars, shut>>

SUP(c) ==
    /\ phase[c] = "SUPNICK" /\ proto[c] = "ADC"
    /\ phase' = [phase EXCEPT ![c] = "INF"]
    /\ UNCHANGED <<itemVars, proto, incoming, user, role, assoc, closing, envVars, shut>>

\* INF: a connection for a queued peer is a download, whatever its token;
\* any other is an upload, unless it answers a request of a removed item.
\* Then it is left alone, until it falls silent.
INF(c, u, ours) ==
    /\ phase[c] = "INF"
    /\ IF u \notin online
       THEN Put(c) /\ UNCHANGED <<dl, up, protoErr>>
       ELSE CASE dl[u] # "none" ->
                   /\ addDownloadConnection(c, u)
                   /\ protoErr' = protoErr \ {u} /\ UNCHANGED up
              [] dl[u] = "none" /\ ~(ours /\ u \in delayed) ->
                   addUploadConnection(c, u) /\ UNCHANGED <<dl, protoErr>>
              [] OTHER ->
                   /\ user' = [user EXCEPT ![c] = u]
                   /\ UNCHANGED <<phase, proto, incoming, role, assoc, closing, dl, up, protoErr>>
    /\ UNCHANGED <<age, delayed, expected, sourcesToDrop, envVars, shut>>

\* failed(): the item of a download waits again, that of an upload goes.
Release(c) ==
    LET u == user[c] IN
    CASE c \in assoc /\ role[c] = "DOWNLOAD" ->
           /\ dl' = [dl EXCEPT ![u] = "WAITING"]
           /\ age' = [age EXCEPT ![u] = 0]
           /\ UNCHANGED up
      [] c \in assoc /\ role[c] = "UPLOAD" ->
           up' = up \ {u} /\ UNCHANGED <<dl, age>>
      [] OTHER -> UNCHANGED <<dl, age, up>>

HasSocket(c) == phase[c] \notin {"none", "called", "opened", "leaked"}

Failed(c) ==
    /\ HasSocket(c)
    /\ Release(c) /\ Put(c)
    /\ protoErr' = IF c \in assoc /\ role[c] = "DOWNLOAD" THEN protoErr \ {user[c]} ELSE protoErr
    /\ UNCHANGED <<delayed, expected, sourcesToDrop, envVars, shut>>

ProtocolError(c) ==
    /\ HasSocket(c)
    /\ Release(c) /\ Put(c)
    /\ protoErr' = IF c \in assoc /\ role[c] = "DOWNLOAD" THEN protoErr \cup {user[c]} ELSE protoErr
    /\ UNCHANGED <<delayed, expected, sourcesToDrop, envVars, shut>>

\* disconnect(user): the user interface closes what we have with a peer.
disconnect(u) ==
    /\ \E c \in userConnections : user[c] = u
    /\ closing' = closing \cup {c \in userConnections : user[c] = u}
    /\ UNCHANGED <<itemVars, phase, proto, incoming, user, role, assoc, envVars, shut>>

-----------------------------------------------------------------------------
(* shutdown(), step by step.                                               *)

ShutFlag ==   \* removeListener(timer); shuttingDown = true
    /\ MayShutdown /\ shut = "no" /\ shut' = "flagged"
    /\ UNCHANGED <<itemVars, connVars, envVars>>

ShutServers ==   \* disconnect(): the server threads are joined
    /\ shut = "flagged" /\ shut' = "deaf"
    /\ UNCHANGED <<itemVars, connVars, envVars>>

\* disconnectAll(): a connection without a socket yet does not notice.
ShutDisconnectAll ==
    /\ shut = "deaf" /\ shut' = "waiting"
    /\ closing' = closing \cup {c \in userConnections : HasSocket(c)}
    /\ UNCHANGED <<itemVars, phase, proto, incoming, user, role, assoc, envVars>>

ShutDone ==
    /\ shut = "waiting" /\ userConnections = {} /\ shut' = "done"
    /\ UNCHANGED <<itemVars, connVars, envVars>>

-----------------------------------------------------------------------------
(* The rest of the client.                                                 *)

PeerComesOrGoes(u) ==
    /\ MayChange
    /\ online' = IF u \in online THEN online \ {u} ELSE online \cup {u}
    /\ UNCHANGED <<itemVars, connVars, wanted, dlSlots, shut>>

QueueChanges(u) ==
    /\ MayChange \/ u \notin wanted
    /\ wanted' = IF u \in wanted THEN wanted \ {u} ELSE wanted \cup {u}
    /\ UNCHANGED <<itemVars, connVars, online, dlSlots, shut>>

DownloadSlots ==
    /\ MayChange
    /\ dlSlots' = ~dlSlots
    /\ UNCHANGED <<itemVars, connVars, online, wanted, shut>>

Handshake(c) ==
    \/ \E u \in Users : MyNick(c, u) \/ \E ours \in BOOLEAN : INF(c, u, ours)
    \/ \E dir \in {"Upload", "Download"}, n \in {"lower", "equal", "higher"} : Direction(c, dir, n)
    \/ CLock(c) \/ Key(c) \/ SUP(c)

Next ==
    \/ \E u \in Users : \/ getDownloadConnection(u) \/ force(u) \/ DropPassiveSource(u)
                        \/ nmdcExpect(u) \/ disconnect(u)
                        \/ PeerComesOrGoes(u) \/ QueueChanges(u)
    \/ \E c \in Conns : \/ accept(c) \/ Called(c) \/ getConnection(c) \/ Blocked(c)
                        \/ Connect(c) \/ Connected(c) \/ Handshake(c)
                        \/ Failed(c) \/ ProtocolError(c)
    \/ Second \/ Minute \/ DownloadSlots
    \/ ShutFlag \/ ShutServers \/ ShutDisconnectAll \/ ShutDone

Spec == Init /\ [][Next]_vars

\* The timer fires, the queue asks for what it wants, a thread inside a
\* connect goes on, a socket told to disconnect fails, shutdown goes on.
Fairness ==
    /\ WF_vars(Second)
    /\ \A u \in Users : WF_vars(getDownloadConnection(u))
    /\ \A c \in Conns : /\ WF_vars(getConnection(c)) /\ WF_vars(Connect(c))
                        /\ WF_vars(c \in closing /\ Failed(c))
    /\ WF_vars(ShutServers) /\ WF_vars(ShutDisconnectAll) /\ WF_vars(ShutDone)

FairSpec == Spec /\ Fairness

-----------------------------------------------------------------------------
(* Properties.                                                             *)

Downloading(u) == {c \in assoc : role[c] = "DOWNLOAD" /\ user[c] = u}
Uploading(u)   == {c \in assoc : role[c] = "UPLOAD" /\ user[c] = u}

\* An item is ACTIVE exactly while one connection owns it: none is stuck
\* ACTIVE without a connection to fail and free it, failed() finds its item
\* (dcassert(i != downloads.end())), and a peer never gets two.
ActiveIffConnected ==
    \A u \in Users :
        /\ dl[u] = "ACTIVE" <=> Downloading(u) # {}
        /\ u \in up <=> Uploading(u) # {}
        /\ \A c, d \in Downloading(u) : c = d
        /\ \A c, d \in Uploading(u) : c = d

\* A peer we keep wanting, while it is online and slots are free, is asked to
\* connect again and again, unless connections for it keep coming about: the
\* scan of on(Second) stops at the first item it connects, and still
\* starves none.  More peers than a retry has ticks would starve the last.
AskedAgain ==
    \A u \in Users :
        <>[](online = Users /\ wanted = Users /\ dlSlots /\ protoErr = {} /\ shut = "no")
        => \/ []<>(dl[u] = "ACTIVE")
           \/ []<><<dl[u] = "WAITING" /\ dl'[u] = "CONNECTING">>_vars

\* Every accepted connection that shutdown() waits for has been told to
\* disconnect, in whatever state of the handshake it is: the servers are
\* joined before disconnectAll(), so that none slips in behind it.
AcceptedHungUp == shut = "waiting" => incoming \subseteq closing

\* shutdown(): "Wait until all connections have died out".  The connections
\* that this client makes itself are not always told (HasSocket), nor removed
\* (Blocked).
ShutdownEnds == shut = "waiting" ~> shut = "done"
=============================================================================
