------------------------ MODULE ConnectionManagerProofs ------------------------
(***************************************************************************)
(* What holds of the download items and of the connections that own them,  *)
(* for any number of peers and connections.                                *)
(***************************************************************************)
EXTENDS ConnectionManager, TLAPS

USE DEF itemVars, connVars, envVars

\* After $MyNick the peer of a connection is known; it is associated from
\* the end of the handshake on, and then it is for one purpose.
Identified ==
    \A c \in Conns :
        /\ c \in assoc <=> phase[c] = "added"
        /\ phase[c] \in {"LOCK", "DIRECTION", "KEY", "added"} => user[c] \in Users
        /\ c \in assoc => role[c] \in {"DOWNLOAD", "UPLOAD"}

IInv == TypeOK /\ Identified /\ ActiveIffConnected

ItemsTyped ==
    /\ dl \in [Users -> ItemStates] /\ age \in [Users -> -1..RetryTicks]
    /\ protoErr \subseteq Users /\ up \subseteq Users /\ delayed \subseteq Users
    /\ expected \subseteq Users /\ sourcesToDrop \subseteq Users

ConnsTyped ==
    /\ phase \in [Conns -> Phases]
    /\ proto \in [Conns -> {"NMDC", "ADC"}]
    /\ incoming \subseteq Conns
    /\ user \in [Conns -> Users \cup {"nobody"}]
    /\ role \in [Conns -> {"none", "DOWNLOAD", "UPLOAD"}]
    /\ assoc \subseteq Conns /\ closing \subseteq Conns

EnvTyped ==
    /\ online \subseteq Users /\ wanted \subseteq Users /\ dlSlots \in BOOLEAN
    /\ shut \in {"no", "flagged", "deaf", "waiting", "done"}

LEMMA Parts ==
    /\ TypeOK <=> ItemsTyped /\ ConnsTyped /\ EnvTyped
    /\ TypeOK' <=> ItemsTyped' /\ ConnsTyped' /\ EnvTyped'
  BY DEF TypeOK, ItemsTyped, ConnsTyped, EnvTyped

-----------------------------------------------------------------------------
\* One second of the timer leaves the items of connected peers alone.
LEMMA SecondStep ==
    ASSUME TypeOK, Second
    PROVE  /\ ItemsTyped'
           /\ \A u \in Users : dl[u] = "ACTIVE" <=> dl'[u] = "ACTIVE"
<1> DEFINE gone == {u \in Pending : Unreachable(u)}
           live == {u \in Pending \ gone : ~OnHold(u)}
           forced == {u \in live : age[u] = -1}
           due == {u \in live : age[u] = RetryTicks}
<1>1. PICK tried \in SUBSET due :
        LET attempts == forced \cup tried
            removed  == gone \cup (attempts \ wanted)
        IN  /\ dl' = [u \in Users |->
                        CASE u \in removed -> "none"
                          [] u \in attempts \ removed -> Attempted(u)
                          [] u \in live \ attempts /\ TimedOut(u) -> "WAITING"
                          [] OTHER -> dl[u]]
            /\ age' = [u \in Users |->
                        CASE u \in removed -> -1
                          [] u \in attempts \ removed -> 0
                          [] age[u] \in 0..(RetryTicks - 1) -> age[u] + 1
                          [] OTHER -> age[u]]
            /\ protoErr' = protoErr \ removed
            /\ \E expired \in SUBSET delayed : delayed' = (delayed \ expired) \cup removed
  BY Zenon DEF Second
<1> DEFINE attempts == forced \cup tried
           removed  == gone \cup (attempts \ wanted)
<1>2. /\ gone \subseteq Pending /\ live \subseteq Pending
      /\ attempts \subseteq Pending /\ removed \subseteq Pending
  OBVIOUS
<1>3. Pending \subseteq Users /\ \A u \in Pending : dl[u] \in ItemStates \ {"none", "ACTIVE"}
  BY DEF Pending, TypeOK
<1>4. \A u \in Pending : Attempted(u) \in ItemStates \ {"none", "ACTIVE"}
  BY <1>3 DEF Attempted, ItemStates
<1> HIDE DEF gone, live, forced, attempts, removed
<1>5. dl' \in [Users -> ItemStates] /\ \A u \in Users : dl[u] = "ACTIVE" <=> dl'[u] = "ACTIVE"
  <2>1. \A u \in Users : dl'[u] = CASE u \in removed -> "none"
                          [] u \in attempts \ removed -> Attempted(u)
                          [] u \in live \ attempts /\ TimedOut(u) -> "WAITING"
                          [] OTHER -> dl[u]
    BY <1>1, Zenon DEF attempts, removed, forced, live, gone
  <2>2. dl' = [u \in Users |-> dl'[u]]
    BY <1>1
  <2>3. ASSUME NEW u \in Users
        PROVE  dl'[u] \in ItemStates /\ (dl[u] = "ACTIVE" <=> dl'[u] = "ACTIVE")
    <3>1. CASE u \in Pending
      BY <2>1, <3>1, <1>3, <1>4 DEF ItemStates
    <3>2. CASE u \notin Pending
      BY <2>1, <3>2, <1>2 DEF TypeOK
    <3> QED
      BY <3>1, <3>2
  <2> QED
    BY <2>2, <2>3
<1>6. age' \in [Users -> -1..RetryTicks]
  <2>1. age' = [u \in Users |->
                  CASE u \in removed -> -1
                    [] u \in attempts \ removed -> 0
                    [] age[u] \in 0..(RetryTicks - 1) -> age[u] + 1
                    [] OTHER -> age[u]]
    BY <1>1, Zenon DEF attempts, removed, forced, live, gone
  <2>2. age \in [Users -> -1..RetryTicks] /\ RetryTicks \in Nat
    BY ConnectionAssumption DEF TypeOK
  <2> QED
    BY <2>1, <2>2
<1>7. protoErr' \subseteq Users /\ delayed' \subseteq Users
  <2>1. \E expired \in SUBSET delayed : delayed' = (delayed \ expired) \cup removed
    BY <1>1, Zenon DEF attempts, removed, forced, live, gone
  <2>2. protoErr' = protoErr \ removed
    BY <1>1, Zenon DEF attempts, removed, forced, live, gone
  <2> QED
    BY <2>1, <2>2, <1>2, <1>3 DEF TypeOK
<1>8. up' = up /\ expected' = expected /\ sourcesToDrop' \subseteq Users
  BY <1>3 DEF Second, TypeOK
<1> QED
  BY <1>5, <1>6, <1>7, <1>8 DEF ItemsTyped, TypeOK

-----------------------------------------------------------------------------
\* What a connection owns stays as it is while the associated connections do.
LEMMA Frame ==
    ASSUME ActiveIffConnected, assoc' = assoc, up' = up,
           \A c \in assoc : role'[c] = role[c] /\ user'[c] = user[c],
           \A u \in Users : dl[u] = "ACTIVE" <=> dl'[u] = "ACTIVE"
    PROVE  ActiveIffConnected'
<1>1. \A u \in Users : Downloading(u)' = Downloading(u) /\ Uploading(u)' = Uploading(u)
  BY DEF Downloading, Uploading
<1> QED
  BY <1>1 DEF ActiveIffConnected

\* A connection leaves without owning anything.
LEMMA PutStep ==
    ASSUME IInv, NEW c \in Conns, Put(c)
    PROVE  /\ ConnsTyped' /\ Identified'
           /\ assoc' = assoc \ {c}
           /\ \A d \in assoc' : role'[d] = role[d] /\ user'[d] = user[d]
<1>1. ConnsTyped'
  BY DEF Put, IInv, TypeOK, ConnsTyped, Phases
<1>2. Identified'
  BY <1>1 DEF Put, IInv, TypeOK, Identified, ConnsTyped
<1> QED
  BY <1>1, <1>2 DEF Put, IInv, TypeOK

LEMMA PutIdle ==
    ASSUME IInv, NEW c \in Conns, c \notin assoc, Put(c), up' = up,
           \A u \in Users : dl[u] = "ACTIVE" <=> dl'[u] = "ACTIVE"
    PROVE  ActiveIffConnected'
<1>1. assoc' = assoc /\ \A d \in assoc : role'[d] = role[d] /\ user'[d] = user[d]
  BY PutStep
<1> QED
  BY <1>1, Frame DEF IInv

\* The end of the handshake of a connection that owned nothing.
LEMMA AddDownloadStep ==
    ASSUME IInv, NEW c \in Conns, NEW u \in Users, c \notin assoc,
           addDownloadConnection(c, u), UNCHANGED up
    PROVE  /\ ConnsTyped' /\ Identified' /\ ActiveIffConnected'
           /\ dl' \in [Users -> ItemStates]
<1>1. CASE dl[u] \in {"WAITING", "CONNECTING"}
  <2>1. /\ dl' = [dl EXCEPT ![u] = "ACTIVE"] /\ assoc' = assoc \cup {c}
        /\ phase' = [phase EXCEPT ![c] = "added"]
        /\ role' = [role EXCEPT ![c] = "DOWNLOAD"]
        /\ user' = [user EXCEPT ![c] = u]
        /\ UNCHANGED <<proto, incoming, closing>>
    BY <1>1 DEF addDownloadConnection
  <2>2. ConnsTyped' /\ dl' \in [Users -> ItemStates]
    BY <2>1 DEF IInv, TypeOK, ConnsTyped, Phases, ItemStates
  <2>3. Identified'
    BY <2>1 DEF IInv, TypeOK, Identified
  <2>4. /\ Downloading(u) = {}
        /\ Downloading(u)' = {c}
        /\ \A v \in Users \ {u} : Downloading(v)' = Downloading(v)
        /\ \A v \in Users : Uploading(v)' = Uploading(v)
    BY <2>1, <1>1 DEF IInv, TypeOK, ActiveIffConnected, Downloading, Uploading
  <2>5. \A v \in Users \ {u} : dl'[v] = dl[v]
    BY <2>1 DEF IInv, TypeOK
  <2>6. dl'[u] = "ACTIVE"
    BY <2>1 DEF IInv, TypeOK
  <2>7. ActiveIffConnected'
    BY <2>4, <2>5, <2>6 DEF IInv, ActiveIffConnected
  <2> QED
    BY <2>2, <2>3, <2>7
<1>2. CASE dl[u] \notin {"WAITING", "CONNECTING"}
  <2>1. Put(c) /\ dl' = dl
    BY <1>2 DEF addDownloadConnection
  <2> QED
    BY <2>1, PutStep, PutIdle DEF IInv, TypeOK
<1> QED
  BY <1>1, <1>2

LEMMA AddUploadStep ==
    ASSUME IInv, NEW c \in Conns, NEW u \in Users, c \notin assoc,
           addUploadConnection(c, u), UNCHANGED dl
    PROVE  /\ ConnsTyped' /\ Identified' /\ ActiveIffConnected'
           /\ up' \subseteq Users
<1>1. CASE u \notin up
  <2>1. /\ up' = up \cup {u} /\ assoc' = assoc \cup {c}
        /\ phase' = [phase EXCEPT ![c] = "added"]
        /\ role' = [role EXCEPT ![c] = "UPLOAD"]
        /\ user' = [user EXCEPT ![c] = u]
        /\ UNCHANGED <<proto, incoming, closing>>
    BY <1>1 DEF addUploadConnection
  <2>2. ConnsTyped' /\ up' \subseteq Users
    BY <2>1 DEF IInv, TypeOK, ConnsTyped, Phases
  <2>3. Identified'
    BY <2>1 DEF IInv, TypeOK, Identified
  <2>4. /\ Uploading(u) = {}
        /\ Uploading(u)' = {c}
        /\ \A v \in Users \ {u} : Uploading(v)' = Uploading(v)
        /\ \A v \in Users : Downloading(v)' = Downloading(v)
    BY <2>1, <1>1 DEF IInv, TypeOK, ActiveIffConnected, Downloading, Uploading
  <2>5. ActiveIffConnected'
    BY <2>1, <2>4 DEF IInv, ActiveIffConnected
  <2> QED
    BY <2>2, <2>3, <2>5
<1>2. CASE u \in up
  <2>1. Put(c) /\ up' = up
    BY <1>2 DEF addUploadConnection
  <2> QED
    BY <2>1, PutStep, PutIdle DEF IInv, TypeOK
<1> QED
  BY <1>1, <1>2

\* The end of a connection frees the item it owns, and no other.
LEMMA ReleaseStep ==
    ASSUME IInv, NEW c \in Conns, Release(c), Put(c)
    PROVE  /\ ActiveIffConnected'
           /\ dl' \in [Users -> ItemStates] /\ age' \in [Users -> -1..RetryTicks]
           /\ up' \subseteq Users
<1>a. PICK u : u = user[c]
  OBVIOUS
<1>0. /\ assoc' = assoc \ {c} /\ \A d \in assoc' : role'[d] = role[d] /\ user'[d] = user[d]
      /\ RetryTicks \in Nat
  BY PutStep, ConnectionAssumption
<1>1. CASE c \in assoc /\ role[c] = "DOWNLOAD"
  <2>1. dl' = [dl EXCEPT ![u] = "WAITING"] /\ age' = [age EXCEPT ![u] = 0] /\ up' = up
    BY <1>1, <1>a DEF Release
  <2>2. u \in Users /\ c \in Downloading(u)
    BY <1>1, <1>a DEF IInv, Identified, Downloading
  <2>3. Downloading(u) = {c}
    BY <2>2 DEF IInv, ActiveIffConnected
  <2>4. /\ Downloading(u)' = {}
        /\ \A v \in Users \ {u} : Downloading(v)' = Downloading(v)
        /\ \A v \in Users : Uploading(v)' = Uploading(v)
    BY <1>0, <1>1, <2>3 DEF Downloading, Uploading
  <2>5. dl'[u] = "WAITING" /\ \A v \in Users \ {u} : dl'[v] = dl[v]
    BY <2>1, <2>2 DEF IInv, TypeOK
  <2>6. ActiveIffConnected'
    BY <2>1, <2>4, <2>5 DEF IInv, ActiveIffConnected
  <2> QED
    BY <1>0, <2>1, <2>2, <2>6 DEF IInv, TypeOK, ItemStates
<1>2. CASE c \in assoc /\ role[c] = "UPLOAD"
  <2>1. up' = up \ {u} /\ dl' = dl /\ age' = age
    BY <1>2, <1>a DEF Release
  <2>2. u \in Users /\ c \in Uploading(u)
    BY <1>2, <1>a DEF IInv, Identified, Uploading
  <2>3. Uploading(u) = {c}
    BY <2>2 DEF IInv, ActiveIffConnected
  <2>4. /\ Uploading(u)' = {}
        /\ \A v \in Users \ {u} : Uploading(v)' = Uploading(v)
        /\ \A v \in Users : Downloading(v)' = Downloading(v)
    BY <1>0, <1>2, <2>3 DEF Downloading, Uploading
  <2>5. ActiveIffConnected'
    BY <2>1, <2>4 DEF IInv, ActiveIffConnected
  <2> QED
    BY <2>1, <2>5 DEF IInv, TypeOK
<1>3. CASE c \notin assoc
  <2>1. dl' = dl /\ age' = age /\ up' = up
    BY <1>3 DEF Release
  <2> QED
    BY <1>3, <2>1, PutIdle DEF IInv, TypeOK
<1> QED
  BY <1>1, <1>2, <1>3 DEF IInv, Identified

-----------------------------------------------------------------------------
\* Steps of a connection's thread.
LEMMA HandshakeStep ==
    ASSUME IInv, NEW c \in Conns, Handshake(c)
    PROVE  IInv'
<1> USE DEF IInv
<1>1. EnvTyped'
  BY Parts DEF Handshake, MyNick, INF, Direction, CLock, Key, SUP, EnvTyped
<1>2. ASSUME NEW u \in Users, MyNick(c, u) PROVE IInv'
  <2>1. c \notin assoc
    BY <1>2 DEF MyNick, Identified
  <2>2. ItemsTyped'
    <3>1. protoErr' \subseteq protoErr
      BY <1>2 DEF MyNick
    <3>2. UNCHANGED <<dl, age, up, delayed, sourcesToDrop>>
      BY <1>2 DEF MyNick
    <3>3. expected' \subseteq expected
      BY <1>2 DEF MyNick
    <3> QED
      BY <3>1, <3>2, <3>3, Parts DEF ItemsTyped
  <2>3. CASE Put(c)
    BY <1>1, <1>2, <2>1, <2>2, <2>3, PutStep, PutIdle, Parts DEF MyNick
  <2>4. CASE ~Put(c)
    <3>1. /\ phase' = [phase EXCEPT ![c] = "LOCK"]
          /\ user' = [user EXCEPT ![c] = u]
          /\ \E r \in {"DOWNLOAD", "UPLOAD"} : role' = [role EXCEPT ![c] = r]
          /\ UNCHANGED <<proto, incoming, assoc, closing, dl, up>>
      BY <1>2, <2>4 DEF MyNick
    <3>2. ConnsTyped' /\ Identified'
      BY <3>1, <2>1 DEF TypeOK, ConnsTyped, Identified, Phases
    <3>3. ActiveIffConnected'
      BY <3>1, <2>1, Frame DEF TypeOK
    <3> QED
      BY <1>1, <2>2, <3>2, <3>3, Parts
  <2> QED
    BY <2>3, <2>4
<1>3. ASSUME NEW u \in Users, NEW ours \in BOOLEAN, INF(c, u, ours) PROVE IInv'
  <2>1. c \notin assoc
    BY <1>3 DEF INF, Identified
  <2>2. age' = age /\ delayed' = delayed /\ expected' = expected /\ sourcesToDrop' = sourcesToDrop
    BY <1>3 DEF INF
  <2>3. CASE Put(c) /\ UNCHANGED <<dl, up, protoErr>>
    BY <1>1, <2>1, <2>2, <2>3, PutStep, PutIdle, Parts DEF ItemsTyped
  <2>4. CASE addDownloadConnection(c, u) /\ protoErr' = protoErr \ {u} /\ UNCHANGED up
    BY <1>1, <2>1, <2>2, <2>4, AddDownloadStep, Parts DEF ItemsTyped
  <2>5. CASE addUploadConnection(c, u) /\ UNCHANGED <<dl, protoErr>>
    BY <1>1, <2>1, <2>2, <2>5, AddUploadStep, Parts DEF ItemsTyped
  <2>6. CASE /\ user' = [user EXCEPT ![c] = u]
             /\ UNCHANGED <<phase, proto, incoming, role, assoc, closing, dl, up, protoErr>>
    <3>1. ConnsTyped' /\ Identified'
      BY <2>1, <2>6 DEF TypeOK, ConnsTyped, Identified
    <3>2. ActiveIffConnected'
      BY <2>1, <2>6, Frame DEF TypeOK
    <3> QED
      BY <1>1, <2>2, <2>6, <3>1, <3>2, Parts DEF ItemsTyped
  <2> QED
    BY <1>3, <2>3, <2>4, <2>5, <2>6 DEF INF
<1>4. ASSUME NEW dir, NEW n, Direction(c, dir, n) PROVE IInv'
  <2>1. c \notin assoc /\ user[c] \in Users
    BY <1>4 DEF Direction, Identified
  <2>2. UNCHANGED itemVars
    BY <1>4 DEF Direction
  <2>3. CASE Put(c)
    BY <1>1, <2>1, <2>2, <2>3, PutStep, PutIdle, Parts DEF ItemsTyped
  <2>4. CASE ~Put(c)
    <3>1. /\ phase' = [phase EXCEPT ![c] = "KEY"]
          /\ role' \in {role, [role EXCEPT ![c] = "UPLOAD"]}
          /\ UNCHANGED <<proto, incoming, user, assoc, closing>>
      BY <1>4, <2>4 DEF Direction
    <3>2. ConnsTyped' /\ Identified'
      BY <3>1, <2>1 DEF TypeOK, ConnsTyped, Identified, Phases
    <3>3. ActiveIffConnected'
      BY <3>1, <2>1, <2>2, Frame DEF TypeOK
    <3> QED
      BY <1>1, <2>2, <3>2, <3>3, Parts DEF ItemsTyped
  <2> QED
    BY <2>3, <2>4
<1>5. CASE Key(c)
  <2>1. c \notin assoc /\ user[c] \in Users
    BY <1>5 DEF Key, Identified
  <2> QED
    BY <1>1, <1>5, <2>1, AddDownloadStep, AddUploadStep, Parts DEF Key, ItemsTyped
<1>6. ASSUME CLock(c) \/ SUP(c) PROVE IInv'
  <2>1. c \notin assoc /\ phase[c] # "added"
    BY <1>6 DEF CLock, SUP, Identified
  <2>2. /\ \E p \in {"DIRECTION", "INF"} : phase' = [phase EXCEPT ![c] = p]
        /\ phase[c] = "SUPNICK" => phase'[c] = "INF"
        /\ UNCHANGED <<itemVars, proto, incoming, user, role, assoc, closing>>
    BY <1>6 DEF CLock, SUP, TypeOK
  <2>3. phase'[c] = "DIRECTION" => phase[c] = "LOCK"
    BY <1>6 DEF CLock, SUP, TypeOK
  <2>4. ConnsTyped' /\ Identified'
    BY <2>1, <2>2, <2>3 DEF TypeOK, ConnsTyped, Identified, Phases
  <2>5. ActiveIffConnected'
    BY <2>2, Frame DEF TypeOK
  <2> QED
    BY <1>1, <2>2, <2>4, <2>5, Parts DEF ItemsTyped
<1> QED
  BY <1>2, <1>3, <1>4, <1>5, <1>6 DEF Handshake

\* A connection comes to be, or ends.
LEMMA ConnectionStep ==
    ASSUME IInv, NEW c \in Conns,
           \/ accept(c) \/ Called(c) \/ getConnection(c) \/ Blocked(c)
           \/ Connect(c) \/ Connected(c) \/ Failed(c) \/ ProtocolError(c)
    PROVE  IInv'
<1> USE DEF IInv
<1>1. EnvTyped'
  BY Parts DEF accept, Called, getConnection, Blocked, Connect, Connected, Failed,
     ProtocolError, EnvTyped
<1>2. CASE Failed(c) \/ ProtocolError(c)
  <2>1. Release(c) /\ Put(c) /\ UNCHANGED <<delayed, expected, sourcesToDrop>>
    BY <1>2 DEF Failed, ProtocolError
  <2>2. protoErr' \subseteq Users
    BY <1>2 DEF Failed, ProtocolError, TypeOK, Identified
  <2> QED
    BY <1>1, <2>1, <2>2, PutStep, ReleaseStep, Parts DEF ItemsTyped
<1>3. CASE ~(Failed(c) \/ ProtocolError(c))
  <2>1. UNCHANGED itemVars
    BY <1>3 DEF accept, Called, getConnection, Blocked, Connect, Connected
  <2>2. c \notin assoc
    BY <1>3 DEF accept, Called, getConnection, Blocked, Connect, Connected, Identified
  <2>3. CASE Put(c)
    BY <1>1, <2>1, <2>2, <2>3, PutStep, PutIdle, Parts DEF ItemsTyped
  <2>4. CASE ~Put(c)
    <3>1. /\ \E p \in {"SUPNICK", "called", "opened", "leaked", "CONNECT"} :
                phase' = [phase EXCEPT ![c] = p]
          /\ \/ proto' = proto
             \/ \E p \in Protocols : proto' = [proto EXCEPT ![c] = p]
          /\ incoming' \subseteq Conns
          /\ UNCHANGED <<user, role, assoc, closing>>
      BY <1>3, <2>4 DEF accept, Called, getConnection, Blocked, Connect, Connected, TypeOK
    <3>2. ConnsTyped'
      BY <3>1, ConnectionAssumption DEF TypeOK, ConnsTyped, Phases
    <3>3. Identified'
      BY <3>1, <2>2 DEF TypeOK, Identified
    <3>4. ActiveIffConnected'
      BY <3>1, <2>1, Frame DEF TypeOK
    <3> QED
      BY <1>1, <2>1, <3>2, <3>3, <3>4, Parts DEF ItemsTyped
  <2> QED
    BY <2>3, <2>4
<1> QED
  BY <1>2, <1>3

\* Everything else leaves the connections as they are.
LEMMA OtherStep ==
    ASSUME IInv,
           \/ \E u \in Users : \/ getDownloadConnection(u) \/ force(u) \/ DropPassiveSource(u)
                               \/ nmdcExpect(u) \/ disconnect(u)
                               \/ PeerComesOrGoes(u) \/ QueueChanges(u)
           \/ Second \/ Minute \/ DownloadSlots
           \/ ShutFlag \/ ShutServers \/ ShutDisconnectAll \/ ShutDone
           \/ UNCHANGED vars
    PROVE  IInv'
<1> USE DEF IInv
<1>1. /\ UNCHANGED <<phase, proto, incoming, user, role, assoc, up>>
      /\ closing' \subseteq Conns
  BY DEF getDownloadConnection, force, DropPassiveSource, nmdcExpect, disconnect,
     PeerComesOrGoes, QueueChanges, Second, Minute, DownloadSlots, ShutFlag, ShutServers,
     ShutDisconnectAll, ShutDone, vars, TypeOK, userConnections
<1>2. ConnsTyped' /\ Identified'
  BY <1>1 DEF TypeOK, ConnsTyped, Identified
<1>3. EnvTyped'
  <2>1. online' \subseteq Users /\ wanted' \subseteq Users
    BY DEF getDownloadConnection, force, DropPassiveSource, nmdcExpect, disconnect,
       PeerComesOrGoes, QueueChanges, Second, Minute, DownloadSlots, ShutFlag, ShutServers,
       ShutDisconnectAll, ShutDone, vars, TypeOK
  <2>2. dlSlots' \in BOOLEAN
    BY Zenon DEF getDownloadConnection, force, DropPassiveSource, nmdcExpect, disconnect,
       PeerComesOrGoes, QueueChanges, Second, Minute, DownloadSlots, ShutFlag, ShutServers,
       ShutDisconnectAll, ShutDone, vars, TypeOK
  <2>3. shut' \in {"no", "flagged", "deaf", "waiting", "done"}
    BY DEF getDownloadConnection, force, DropPassiveSource, nmdcExpect, disconnect,
       PeerComesOrGoes, QueueChanges, Second, Minute, DownloadSlots, ShutFlag, ShutServers,
       ShutDisconnectAll, ShutDone, vars, TypeOK
  <2> QED
    BY <2>1, <2>2, <2>3 DEF EnvTyped
<1>4. ItemsTyped' /\ \A u \in Users : dl[u] = "ACTIVE" <=> dl'[u] = "ACTIVE"
  <2>1. CASE Second
    BY <2>1, SecondStep
  <2>2. ASSUME NEW u \in Users, getDownloadConnection(u) PROVE <1>4!:
    BY <2>2, ConnectionAssumption DEF getDownloadConnection, TypeOK, ItemsTyped, ItemStates
  <2>3. ASSUME NEW u \in Users, force(u) PROVE <1>4!:
    BY <2>3, ConnectionAssumption DEF force, TypeOK, ItemsTyped
  <2>4. CASE UNCHANGED <<dl, age, protoErr, up, delayed>> /\ expected' \subseteq Users
             /\ sourcesToDrop' \subseteq Users
    BY <2>4 DEF TypeOK, ItemsTyped
  <2> QED
    BY <2>1, <2>2, <2>3, <2>4 DEF DropPassiveSource, nmdcExpect, disconnect,
       PeerComesOrGoes, QueueChanges, Minute, DownloadSlots, ShutFlag, ShutServers,
       ShutDisconnectAll, ShutDone, vars, TypeOK
<1>5. ActiveIffConnected'
  BY <1>1, <1>4, Frame
<1> QED
  BY <1>2, <1>3, <1>4, <1>5, Parts

LEMMA InductiveStep == IInv /\ [Next]_vars => IInv'
<1> SUFFICES ASSUME IInv, [Next]_vars PROVE IInv'
  OBVIOUS
<1>1. CASE \E c \in Conns : Handshake(c)
  BY <1>1, HandshakeStep
<1>2. CASE \E c \in Conns : \/ accept(c) \/ Called(c) \/ getConnection(c) \/ Blocked(c)
                            \/ Connect(c) \/ Connected(c) \/ Failed(c) \/ ProtocolError(c)
  BY <1>2, ConnectionStep
<1> QED
  BY <1>1, <1>2, OtherStep, Zenon DEF Next

LEMMA InitialState == Init => IInv
<1> SUFFICES ASSUME Init PROVE IInv
  OBVIOUS
<1>1. ItemsTyped
  BY ConnectionAssumption DEF Init, ItemsTyped, ItemStates
<1>2. ConnsTyped /\ Identified
  BY DEF Init, ConnsTyped, Identified, Phases
<1>3. EnvTyped
  <2>1. dlSlots \in BOOLEAN
    BY Zenon DEF Init
  <2> QED
    BY <2>1 DEF Init, EnvTyped
<1>4. ActiveIffConnected
  BY DEF Init, ActiveIffConnected, Downloading, Uploading
<1> QED
  BY <1>1, <1>2, <1>3, <1>4, Parts DEF IInv

\* Every variable keeps its type.
THEOREM TypeCorrect == Spec => []TypeOK
<1>1. IInv => TypeOK
  BY DEF IInv
<1> QED
  BY <1>1, InitialState, InductiveStep, PTL DEF Spec

\* An item is ACTIVE exactly while one connection owns it, whatever the
\* interleaving of handshakes, failures, the timer and the shutdown.
THEOREM ActiveIffConnectedHolds == Spec => []ActiveIffConnected
<1>1. IInv => ActiveIffConnected
  BY DEF IInv
<1> QED
  BY <1>1, InitialState, InductiveStep, PTL DEF Spec

-----------------------------------------------------------------------------
\* An accepted connection has its socket from the start, so that it hears
\* disconnectAll(); and none is accepted after that.
AcceptInv ==
    /\ \A c \in incoming : HasSocket(c)
    /\ shut \in {"waiting", "done"} => incoming \subseteq closing

\* A connection that goes takes both marks with it; one that stays keeps its
\* socket while its handshake goes on.
LEMMA PutAccept ==
    ASSUME ConnsTyped, AcceptInv, NEW c \in Conns, Put(c), shut' = shut
    PROVE  AcceptInv'
  BY DEF Put, ConnsTyped, AcceptInv, HasSocket

LEMMA KeepAccept ==
    ASSUME ConnsTyped, AcceptInv, NEW c \in Conns, NEW p \in Phases, shut' = shut,
           incoming' = incoming, closing' = closing,
           phase' = [phase EXCEPT ![c] = p],
           c \in incoming => p \notin {"none", "called", "opened", "leaked"}
    PROVE  AcceptInv'
  BY DEF ConnsTyped, AcceptInv, HasSocket

LEMMA AcceptStep == TypeOK /\ AcceptInv /\ [Next]_vars => AcceptInv'
<1> SUFFICES ASSUME TypeOK, AcceptInv, [Next]_vars PROVE AcceptInv'
  OBVIOUS
<1>0. ConnsTyped
  BY Parts
<1>1. CASE UNCHANGED <<connVars, shut>>
  BY <1>1 DEF AcceptInv, HasSocket
<1>2. ASSUME NEW c \in Conns, Handshake(c) PROVE AcceptInv'
  <2>0. phase[c] \notin {"none", "called", "opened", "leaked"} /\ shut' = shut
    BY <1>2 DEF Handshake, MyNick, CLock, Direction, Key, SUP, INF
  <2>1. CASE Put(c)
    BY <1>0, <2>0, <2>1, PutAccept
  <2>2. CASE /\ incoming' = incoming /\ closing' = closing
             /\ \E p \in Phases \ {"none", "called", "opened", "leaked"} :
                   phase' = [phase EXCEPT ![c] = p]
    BY <1>0, <2>0, <2>2, KeepAccept
  <2>3. CASE UNCHANGED <<phase, incoming, closing>>
    BY <2>0, <2>3 DEF AcceptInv, HasSocket
  <2>4. ASSUME NEW u \in Users \cup {"nobody"}, addDownloadConnection(c, u) PROVE AcceptInv'
    BY <2>1, <2>2, <2>4 DEF addDownloadConnection, Phases
  <2>5. ASSUME NEW u \in Users \cup {"nobody"}, addUploadConnection(c, u) PROVE AcceptInv'
    BY <2>1, <2>2, <2>5 DEF addUploadConnection, Phases
  <2>6. CASE \E u \in Users : MyNick(c, u)
    BY <2>1, <2>2, <2>6 DEF MyNick, Phases
  <2>7. CASE \E u \in Users : \E ours \in BOOLEAN : INF(c, u, ours)
    BY <2>1, <2>3, <2>4, <2>5, <2>7 DEF INF
  <2>8. CASE \E dir \in {"Upload", "Download"}, n \in {"lower", "equal", "higher"} : Direction(c, dir, n)
    BY <2>1, <2>2, <2>8 DEF Direction, Phases
  <2>9. CASE CLock(c) \/ SUP(c)
    BY <2>2, <2>9 DEF CLock, SUP, Phases
  <2>10. CASE Key(c)
    BY <1>0, <2>4, <2>5, <2>10 DEF Key, ConnsTyped
  <2> QED
    BY <1>2, <2>6, <2>7, <2>8, <2>9, <2>10 DEF Handshake
<1>3. ASSUME NEW c \in Conns,
             \/ accept(c) \/ Called(c) \/ getConnection(c) \/ Blocked(c)
             \/ Connect(c) \/ Connected(c) \/ Failed(c) \/ ProtocolError(c)
      PROVE  AcceptInv'
  <2>1. CASE accept(c)
    BY <1>0, <2>1 DEF accept, AcceptInv, HasSocket, ConnsTyped
  <2>2. CASE Called(c) \/ getConnection(c) \/ Blocked(c)
    <3>1. c \notin incoming /\ shut' = shut /\ incoming' = incoming /\ closing' = closing
      BY <2>2 DEF Called, getConnection, Blocked, AcceptInv, HasSocket
    <3>2. \E p \in Phases : phase' = [phase EXCEPT ![c] = p]
      BY <2>2 DEF Called, getConnection, Blocked, Phases
    <3> QED
      BY <1>0, <3>1, <3>2, KeepAccept
  <2>3. CASE Connect(c) \/ Connected(c)
    <3>1. shut' = shut
      BY <2>3 DEF Connect, Connected
    <3>2. CASE Put(c)
      BY <1>0, <3>1, <3>2, PutAccept
    <3>3. CASE ~Put(c)
      <4>1. /\ incoming' = incoming /\ closing' = closing
            /\ \E p \in Phases \ {"none", "called", "opened", "leaked"} :
                  phase' = [phase EXCEPT ![c] = p]
        BY <2>3, <3>3 DEF Connect, Connected, Phases
      <4> QED
        BY <1>0, <3>1, <4>1, KeepAccept
    <3> QED
      BY <3>2, <3>3
  <2>4. CASE Failed(c) \/ ProtocolError(c)
    BY <1>0, <2>4, PutAccept DEF Failed, ProtocolError
  <2> QED
    BY <1>3, <2>1, <2>2, <2>3, <2>4
<1>4. CASE ShutDisconnectAll
  <2>1. \A c \in incoming : c \in Conns /\ c \in userConnections
    BY <1>0 DEF AcceptInv, HasSocket, ConnsTyped, userConnections
  <2> QED
    BY <1>4, <2>1 DEF ShutDisconnectAll, AcceptInv, HasSocket
<1>5. CASE ShutFlag \/ ShutServers \/ ShutDone
  BY <1>5 DEF ShutFlag, ShutServers, ShutDone, AcceptInv, HasSocket
<1>6. CASE Minute \/ \E u \in Users : disconnect(u)
  <2>1. phase' = phase /\ incoming' = incoming /\ shut' = shut /\ closing \subseteq closing'
    BY <1>6 DEF Minute, disconnect
  <2> QED
    BY <2>1 DEF AcceptInv, HasSocket
<1>7. CASE \/ Second \/ DownloadSlots
           \/ \E u \in Users : \/ getDownloadConnection(u) \/ force(u) \/ DropPassiveSource(u)
                               \/ nmdcExpect(u) \/ PeerComesOrGoes(u) \/ QueueChanges(u)
  <2>1. UNCHANGED <<connVars, shut>>
    BY <1>7 DEF Second, DownloadSlots, getDownloadConnection, force, DropPassiveSource,
       nmdcExpect, PeerComesOrGoes, QueueChanges
  <2> QED
    BY <1>1, <2>1
<1>8. CASE UNCHANGED vars
  BY <1>1, <1>8 DEF vars
<1> QED
  BY <1>2, <1>3, <1>4, <1>5, <1>6, <1>7, <1>8, Zenon DEF Next

\* While shutdown() waits, every connection that was accepted has been told to
\* disconnect, for any number of connections in any state of the handshake.
THEOREM AcceptedHungUpHolds == Spec => []AcceptedHungUp
<1>1. Init => AcceptInv
  BY DEF Init, AcceptInv
<1>2. AcceptInv => AcceptedHungUp
  BY DEF AcceptInv, AcceptedHungUp
<1> QED
  BY <1>1, <1>2, AcceptStep, TypeCorrect, PTL DEF Spec
=============================================================================
