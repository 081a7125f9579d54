-------------------------- MODULE DownloadManagerProofs --------------------------
(***************************************************************************)
(* What the three records of who downloads what keep, for any number of    *)
(* peers, files, hubs and slots.                                           *)
(***************************************************************************)
EXTENDS DownloadManager, TLAPS

USE DEF queueVars, listVars, connVars, threadVars

-----------------------------------------------------------------------------
(* The types.                                                              *)

LEMMA OneOfAllHubs ==
    ASSUME NEW u \in Users, NEW h \in HubsOf[u]
    PROVE  h \in AllHubs
BY DEF AllHubs

LEMMA FirstHub ==
    ASSUME DownloadAssumption, NEW u \in Users
    PROVE  /\ (CHOOSE h \in HubsOf[u] : TRUE) \in HubsOf[u]
           /\ (CHOOSE h \in HubsOf[u] : TRUE) \in AllHubs
BY OneOfAllHubs DEF DownloadAssumption

\* Asking for a connection.
LEMMA AskType ==
    ASSUME TypeOK, NEW u \in Users, NEW h \in HubsOf[u], getDownloadConnection(u, h)
    PROVE  /\ item' \in [Users -> {"none", "WAITING", "ACTIVE"}]
           /\ hub' \in [Users -> AllHubs]
           /\ \A v \in Users : hub'[v] \in HubsOf[v]
           /\ calls' \subseteq Users
BY OneOfAllHubs DEF TypeOK, getDownloadConnection

\* The end of a Download.
LEMMA OverType ==
    ASSUME TypeOK, NEW u \in Users, NEW how \in Outcomes,
           NEW then \in {"rest", "check", "close", "check+close", "gone"}, Over(u, how, then)
    PROVE  /\ downloads' \subseteq Users \X Files
           /\ pc' \in [Users -> Pcs]
           /\ outcome' \in [Users -> Outcomes]
           /\ next' \in [Users -> {"rest", "check", "close", "check+close", "gone"}]
BY DEF TypeOK, Over, Pcs

\* The end of a connection.
LEMMA GoneType ==
    ASSUME TypeOK, DownloadAssumption, NEW u \in Users, Gone(u)
    PROVE  /\ pc' \in [Users -> Pcs]
           /\ next' \in [Users -> {"rest", "check", "close", "check+close", "gone"}]
           /\ closing' \subseteq Users /\ listening' \subseteq Users /\ calls' \subseteq Users
           /\ state' \in [Users -> {"IDLE", "SND", "RUNNING"}]
           /\ hub' \in [Users -> AllHubs]
           /\ \A v \in Users : hub'[v] \in HubsOf[v]
BY FirstHub DEF TypeOK, Gone, Pcs

\* DownloadManager lets a connection go.
LEMMA RemovedType ==
    ASSUME TypeOK, NEW u \in Users, removeConnection(u)
    PROVE  /\ pc' \in [Users -> Pcs]
           /\ next' \in [Users -> {"rest", "check", "close", "check+close", "gone"}]
           /\ closing' \subseteq Users /\ listening' \subseteq Users /\ idlers' \subseteq Users
BY DEF TypeOK, removeConnection, Pcs

LEMMA ReturnType ==
    ASSUME TypeOK, NEW u \in Users
    PROVE  Return(u) \in [Users -> Pcs]
BY DEF TypeOK, Return, Pcs

\* On its way to the list, and out of it, a thread has a Download.
Carries == \A u \in Users : pc[u] \in {"push", "put"} => download[u] # NoFile

TypeInv == TypeOK /\ Carries

LEMMA QueueStepType ==
    ASSUME TypeInv, DownloadAssumption, NEW f \in Files, NEW u \in Users,
           Add(f, u) \/ remove(f) \/ removeSource(f, u)
    PROVE  TypeInv'
<1> USE DEF TypeOK, TypeInv, Carries
<1>1. CASE Add(f, u)
  <2>1. source' \in [Files -> SUBSET Users]
    BY <1>1 DEF Add
  <2>2. CASE \E h \in HubsOf[u] : getDownloadConnection(u, h)
    BY <1>1, <2>1, <2>2, AskType DEF Add
  <2>3. CASE UNCHANGED <<item, hub, calls>>
    BY <1>1, <2>1, <2>3 DEF Add
  <2>4. QED
    BY <1>1, <2>2, <2>3 DEF Add
<1>2. ASSUME NEW gone \in SUBSET Users, Drop(f, gone) PROVE TypeInv'
  <2>1. source' \in [Files -> SUBSET Users] /\ running' \in [Users -> Files \cup {NoFile}]
    BY <1>2 DEF Drop
  <2>2. closing' \subseteq Users
    BY <1>2 DEF Drop
  <2>3. QED
    BY <1>2, <2>1, <2>2 DEF Drop
<1>3. QED
  BY <1>1, <1>2 DEF remove, removeSource

LEMMA ThreadStepType ==
    ASSUME TypeInv, DownloadAssumption, NEW u \in Users, Thread(u)
    PROVE  TypeInv'
<1> USE DEF TypeOK, TypeInv, Carries
<1>1. CASE Check(u)
  <2>1. CASE removeConnection(u)
    <3>1. Carries'
      BY <1>1, <2>1 DEF Check, removeConnection
    <3>2. QED
      BY <1>1, <2>1, <3>1, RemovedType DEF Check
  <2>2. CASE pc' = [pc EXCEPT ![u] = "get"] /\ UNCHANGED <<idlers, listening, closing, next>>
    BY <1>1, <2>2 DEF Check, Pcs
  <2>3. QED
    BY <1>1, <2>1, <2>2 DEF Check
<1>2. CASE Get(u)
  <2>1. CASE \E f \in getNext(u) : /\ running' = [running EXCEPT ![u] = f]
                                  /\ download' = [download EXCEPT ![u] = f]
                                  /\ pc' = [pc EXCEPT ![u] = "push"]
    <3>1. PICK f \in getNext(u) : /\ running' = [running EXCEPT ![u] = f]
                                 /\ download' = [download EXCEPT ![u] = f]
                                 /\ pc' = [pc EXCEPT ![u] = "push"]
      BY <2>1
    <3>2. f \in Files /\ f # NoFile
      BY DEF getNext, Waiting, DownloadAssumption
    <3>3. Carries'
      BY <3>1, <3>2
    <3>4. QED
      BY <1>2, <3>1, <3>2, <3>3 DEF Get, Pcs
  <2>2. CASE pc' = [pc EXCEPT ![u] = "idle"] /\ UNCHANGED <<running, download>>
    BY <1>2, <2>2 DEF Get, Pcs
  <2>3. QED
    BY <1>2, <2>1, <2>2 DEF Get
<1>3. CASE Idle(u)
  <2>1. Carries'
    BY <1>3 DEF Idle, Return
  <2>2. QED
    BY <1>3, <2>1, ReturnType DEF Idle
<1>4. CASE Push(u)
  <2>1. pc' \in [Users -> Pcs]
    BY <1>4, ReturnType DEF Push
  <2>2. state' \in [Users -> {"IDLE", "SND", "RUNNING"}]
    BY <1>4 DEF Push
  <2>3. downloads' \subseteq Users \X Files
    BY <1>4 DEF Push
  <2>4. Carries'
    BY <1>4 DEF Push, Return
  <2>5. QED
    BY <1>4, <2>1, <2>2, <2>3, <2>4 DEF Push
<1>5. CASE Put(u)
  <2>1. download[u] \in Files
    BY <1>5 DEF Put, Putting
  <2>2. source' \in [Files -> SUBSET Users]
    BY <1>5, <2>1 DEF Put, Finished
  <2>3. running' \in [Users -> Files \cup {NoFile}]
    BY <1>5 DEF Put, Finished
  <2>4. toAsk' \in [Users -> SUBSET Users]
    BY <1>5, <2>1 DEF Put, Putting
  <2>5. /\ download' \in [Users -> Files \cup {NoFile}] /\ outcome' \in [Users -> Outcomes]
        /\ pc' \in [Users -> Pcs]
    BY <1>5 DEF Put, Putting, Outcomes, Pcs
  <2>6. Carries'
    BY <1>5 DEF Put, Putting
  <2>7. QED
    BY <1>5, <2>2, <2>3, <2>4, <2>5, <2>6 DEF Put, Putting
<1>11. CASE Unsource(u)
  <2>1. download[u] \in Files
    BY <1>11 DEF Unsource
  <2>2. source' \in [Files -> SUBSET Users]
    BY <1>11, <2>1 DEF Unsource, queueVars
  <2>3. running' \in [Users -> Files \cup {NoFile}]
    BY <1>11 DEF Unsource, queueVars
  <2>4. outcome' \in [Users -> Outcomes]
    BY <1>11 DEF Unsource, Outcomes
  <2>5. Carries'
    BY <1>11 DEF Unsource
  <2>6. QED
    BY <1>11, <2>2, <2>3, <2>4, <2>5 DEF Unsource
<1>6. CASE \E v \in Users : Wake(u, v)
  <2>1. PICK v \in Users : Wake(u, v)
    BY <1>6
  <2>2. PICK h \in HubsOf[v] : getDownloadConnection(v, h)
    BY <2>1 DEF Wake
  <2>3. toAsk' \in [Users -> SUBSET Users]
    BY <2>1 DEF Wake
  <2>4. QED
    BY <2>1, <2>2, <2>3, AskType DEF Wake
<1>7. CASE GoOn(u)
  BY <1>7 DEF GoOn, Pcs
<1>8. CASE GiveUp(u)
  <2>1. Carries'
    BY <1>8 DEF GiveUp, removeConnection
  <2>2. removeConnection(u)
    BY <1>8 DEF GiveUp
  <2>3. QED
    BY <1>8, <2>1, <2>2, RemovedType DEF GiveUp
<1>9. CASE onFailed(u)
  <2>1. CASE download[u] = NoFile
    <3>1. Gone(u) /\ UNCHANGED <<downloads, outcome>>
      BY <1>9, <2>1 DEF onFailed
    <3>2. Carries'
      BY <1>9, <3>1 DEF onFailed, Gone
    <3>3. idlers' \subseteq Users
      BY <1>9 DEF onFailed
    <3>4. QED
      BY <1>9, <3>1, <3>2, <3>3, GoneType DEF onFailed
  <2>2. CASE download[u] # NoFile
    <3>1. /\ \E how \in Outcomes : Over(u, how, "gone")
          /\ UNCHANGED <<state, hub, listening, closing, calls>>
      BY <1>9, <2>2 DEF onFailed, Outcomes
    <3>2. Carries'
      BY <1>9, <2>2, <3>1 DEF onFailed, Over
    <3>3. idlers' \subseteq Users
      BY <1>9 DEF onFailed
    <3>4. QED
      BY <1>9, <3>1, <3>2, <3>3, OverType DEF onFailed
  <2>3. QED
    BY <2>1, <2>2
<1>10. CASE Delete(u)
  <2>1. Gone(u) /\ Carries'
    BY <1>10 DEF Delete, Gone
  <2>2. QED
    BY <1>10, <2>1, GoneType DEF Delete
<1>12. QED
  BY <1>1, <1>2, <1>3, <1>4, <1>5, <1>6, <1>7, <1>8, <1>9, <1>10, <1>11 DEF Thread

LEMMA PeerStepType ==
    ASSUME TypeInv, DownloadAssumption, NEW u \in Users,
           SND(u) \/ Data(u) \/ noSlots(u) \/ fileNotAvailable(u)
    PROVE  TypeInv'
<1> USE DEF TypeOK, TypeInv, Carries
<1>1. /\ download[u] # NoFile
      /\ UNCHANGED <<queueVars, item, idlers, download, hub, listening, calls, toAsk>>
      /\ \/ /\ \E how \in Outcomes, then \in {"check", "close", "check+close"} : Over(u, how, then)
            /\ UNCHANGED <<state, closing>>
         \/ disconnects(u)
         \/ /\ state' = [state EXCEPT ![u] = "RUNNING"]
            /\ UNCHANGED <<downloads, pc, outcome, next, closing>>
  <2>1. CASE SND(u)
    BY <2>1 DEF SND, Hears, failDownload, Outcomes
  <2>2. CASE Data(u)
    BY <2>2 DEF Data, Hears, failDownload, Outcomes
  <2>3. CASE noSlots(u)
    BY <2>3 DEF noSlots, Hears, failDownload, Outcomes
  <2>4. CASE fileNotAvailable(u)
    BY <2>4 DEF fileNotAvailable, Hears, Outcomes
  <2>5. QED
    BY <2>1, <2>2, <2>3, <2>4
<1>2. CASE disconnects(u)
  BY <1>1, <1>2 DEF disconnects
<1>3. CASE /\ state' = [state EXCEPT ![u] = "RUNNING"]
           /\ UNCHANGED <<downloads, pc, outcome, next, closing>>
  BY <1>1, <1>3
<1>4. CASE /\ \E how \in Outcomes, then \in {"check", "close", "check+close"} : Over(u, how, then)
           /\ UNCHANGED <<state, closing>>
  <2>1. PICK how \in Outcomes, then \in {"check", "close", "check+close"} : Over(u, how, then)
    BY <1>4
  <2>2. Carries'
    BY <1>1, <2>1 DEF Over
  <2>3. /\ downloads' \subseteq Users \X Files /\ pc' \in [Users -> Pcs]
        /\ outcome' \in [Users -> Outcomes]
        /\ next' \in [Users -> {"rest", "check", "close", "check+close", "gone"}]
    BY <2>1, OverType
  <2>4. QED
    BY <1>1, <1>4, <2>2, <2>3
<1>5. QED
  BY <1>1, <1>2, <1>3, <1>4

LEMMA LifeStepType ==
    ASSUME TypeInv, DownloadAssumption, NEW u \in Users,
           revive(u) \/ Second(u) \/ addConnection(u) \/ Minute(u) \/ Failed(u)
    PROVE  TypeInv'
<1> USE DEF TypeOK, TypeInv, Carries
<1>1. CASE revive(u)
  BY <1>1 DEF revive, Pcs
<1>2. CASE Second(u)
  BY <1>2 DEF Second
<1>3. CASE addConnection(u)
  <2>1. hub' \in [Users -> AllHubs] /\ \A v \in Users : hub'[v] \in HubsOf[v]
    BY <1>3, OneOfAllHubs DEF addConnection
  <2>2. /\ source' \in [Files -> SUBSET Users] /\ item' \in [Users -> {"none", "WAITING", "ACTIVE"}]
        /\ listening' \subseteq Users /\ closing' \subseteq Users
    BY <1>3 DEF addConnection
  <2>3. pc' \in [Users -> Pcs] /\ Carries'
    BY <1>3 DEF addConnection, Pcs
  <2>4. QED
    BY <1>3, <2>1, <2>2, <2>3 DEF addConnection
<1>4. CASE Minute(u)
  BY <1>4 DEF Minute
<1>5. CASE Failed(u)
  <2>1. CASE u \in listening
    BY <1>5, <2>1 DEF Failed, Pcs
  <2>2. CASE u \notin listening
    <3>1. /\ Gone(u) /\ download' = [download EXCEPT ![u] = NoFile]
          /\ item' = [item EXCEPT ![u] = "WAITING"]
          /\ UNCHANGED <<queueVars, listVars, outcome, toAsk>>
      BY <1>5, <2>2 DEF Failed
    <3>2. Carries'
      BY <3>1 DEF Gone
    <3>3. QED
      BY <3>1, <3>2, GoneType
  <2>3. QED
    BY <2>1, <2>2
<1>6. QED
  BY <1>1, <1>2, <1>3, <1>4, <1>5

LEMMA TypeInvInit == Init /\ DownloadAssumption => TypeInv
<1>1. SUFFICES ASSUME Init, DownloadAssumption PROVE TypeInv
  OBVIOUS
<1>2. hub \in [Users -> AllHubs] /\ \A u \in Users : hub[u] \in HubsOf[u]
  BY <1>1, FirstHub DEF Init
<1>3. QED
  BY <1>1, <1>2 DEF Init, TypeInv, TypeOK, Carries, Pcs, Outcomes

LEMMA TypeInvStep == TypeInv /\ DownloadAssumption /\ [Next]_vars => TypeInv'
<1>1. SUFFICES ASSUME TypeInv, DownloadAssumption, [Next]_vars PROVE TypeInv'
  OBVIOUS
<1>2. CASE UNCHANGED vars
  BY <1>1, <1>2 DEF vars, TypeInv, TypeOK, Carries
<1>3. CASE \E u \in Users : Thread(u)
  BY <1>1, <1>3, ThreadStepType
<1>4. CASE \E u \in Users : Peer(u) \/ revive(u) \/ Second(u) \/ addConnection(u) \/ Minute(u)
  BY <1>1, <1>4, PeerStepType, LifeStepType DEF Peer
<1>5. CASE \E f \in Files : remove(f) \/ \E u \in Users : Add(f, u) \/ removeSource(f, u)
  <2>1. PICK f \in Files : remove(f) \/ \E u \in Users : Add(f, u) \/ removeSource(f, u)
    BY <1>5
  <2>2. CASE \E u \in Users : Add(f, u) \/ removeSource(f, u)
    BY <1>1, <2>2, QueueStepType
  <2>3. CASE remove(f)
    <3>1. source[f] # {} /\ source[f] \subseteq Users
      BY <1>1, <2>3 DEF remove, Drop, TypeInv, TypeOK
    <3>2. QED
      BY <1>1, <2>3, <3>1, QueueStepType
  <2>4. QED
    BY <2>1, <2>2, <2>3
<1>6. QED
  BY <1>1, <1>2, <1>3, <1>4, <1>5 DEF Next

LEMMA TypeInvHolds == Spec => []TypeInv
<1>1. DownloadAssumption
  BY DownloadAssumption
<1>2. QED
  BY <1>1, TypeInvInit, TypeInvStep, PTL DEF Spec

\* Every variable of the download manager, and of what it shares with the queue
\* and the connections, stays in its type.
THEOREM TypeCorrect == Spec => []TypeOK
BY TypeInvHolds, PTL DEF TypeInv

-----------------------------------------------------------------------------
(* The three records: the list of Downloads, what the queue holds to be      *)
(* running, and the Download of a connection.                                *)

\* A connection's Download is in the list while the thread waits for the peer,
\* and out of it while the thread brings it there or reports its end; what is
\* running is that Download; who listens no more has none and is in no list.
Conn(u) ==
    /\ next[u] # "check+close" /\ pc[u] # "close"
    /\ pc[u] \notin {"put", "wake"} => next[u] = "rest"
    /\ pc[u] = "none" => u \notin listening
    /\ u \notin listening => u \notin idlers /\ download[u] = NoFile /\ pc[u] \in {"none", "rest"}
    /\ \A f \in Files : <<u, f>> \in downloads => download[u] = f /\ pc[u] \in {"rest", "failing"}
    /\ running[u] # NoFile =>
         /\ download[u] = running[u]
         /\ <<u, running[u]>> \in downloads \/ pc[u] \in {"push", "put"}
    /\ u \in idlers => pc[u] \in {"rest", "failing"} /\ state[u] = "IDLE" /\ download[u] = NoFile
    /\ download[u] # NoFile => pc[u] \in {"push", "put"} \/ <<u, download[u]>> \in downloads

RecordInv == \A u \in Users : Conn(u)

\* What the steps of others leave a peer's connection: everything, but its file
\* may be taken from it.
Spared(v) ==
    /\ pc'[v] = pc[v] /\ next'[v] = next[v] /\ download'[v] = download[v] /\ state'[v] = state[v]
    /\ running'[v] = running[v] \/ running'[v] = NoFile
    /\ v \in listening' <=> v \in listening
    /\ v \in idlers' <=> v \in idlers
    /\ \A f \in Files : <<v, f>> \in downloads' <=> <<v, f>> \in downloads

LEMMA SparedKeeps ==
    ASSUME TypeOK, NEW v \in Users, Conn(v), Spared(v)
    PROVE  Conn(v)'
<1>1. running[v] \in Files \cup {NoFile} /\ download[v] \in Files \cup {NoFile}
  BY DEF TypeOK
<1>2. QED
  BY <1>1 DEF Conn, Spared

LEMMA ThreadSpares ==
    ASSUME TypeOK, NEW u \in Users, Thread(u), NEW v \in Users \ {u}
    PROVE  Spared(v)
<1> USE DEF TypeOK, Spared
<1>1. CASE Check(u)
  BY <1>1 DEF Check, removeConnection
<1>2. CASE Get(u)
  BY <1>2 DEF Get
<1>3. CASE Idle(u)
  BY <1>3 DEF Idle, Return
<1>4. CASE Push(u)
  BY <1>4 DEF Push, Return
<1>5. CASE Put(u)
  BY <1>5 DEF Put, Putting, Finished
<1>11. CASE Unsource(u)
  BY <1>11 DEF Unsource
<1>6. CASE \E w \in Users : Wake(u, w)
  BY <1>6 DEF Wake
<1>7. CASE GoOn(u)
  BY <1>7 DEF GoOn
<1>8. CASE GiveUp(u)
  BY <1>8 DEF GiveUp, removeConnection
<1>9. CASE onFailed(u)
  BY <1>9 DEF onFailed, Gone, Over
<1>10. CASE Delete(u)
  BY <1>10 DEF Delete, Gone
<1>12. QED
  BY <1>1, <1>2, <1>3, <1>4, <1>5, <1>6, <1>7, <1>8, <1>9, <1>10, <1>11 DEF Thread

LEMMA PeerSpares ==
    ASSUME TypeOK, NEW u \in Users, NEW v \in Users \ {u},
           Peer(u) \/ revive(u) \/ Second(u) \/ addConnection(u) \/ Minute(u)
    PROVE  Spared(v)
<1> USE DEF TypeOK, Spared
<1>1. CASE SND(u)
  BY <1>1 DEF SND, disconnects, failDownload, Over
<1>2. CASE Data(u)
  BY <1>2 DEF Data, failDownload, Over
<1>3. CASE noSlots(u)
  BY <1>3 DEF noSlots, disconnects, failDownload, Over
<1>4. CASE fileNotAvailable(u)
  BY <1>4 DEF fileNotAvailable, disconnects, Over
<1>5. CASE Failed(u)
  BY <1>5 DEF Failed, Gone
<1>6. CASE revive(u) \/ Second(u) \/ Minute(u)
  BY <1>6 DEF revive, Second, Minute
<1>7. CASE addConnection(u)
  BY <1>7 DEF addConnection
<1>8. QED
  BY <1>1, <1>2, <1>3, <1>4, <1>5, <1>6, <1>7 DEF Peer

LEMMA QueueSpares ==
    ASSUME TypeOK, NEW f \in Files, NEW v \in Users,
           remove(f) \/ \E u \in Users : Add(f, u) \/ removeSource(f, u)
    PROVE  Spared(v)
BY DEF TypeOK, Spared, remove, removeSource, Drop, Add

\* A step of the connection's own thread.
LEMMA ThreadRecords ==
    ASSUME TypeInv, DownloadAssumption, TestSur = {}, NEW u \in Users, Conn(u), Thread(u)
    PROVE  Conn(u)'
<1> USE DEF Conn
<1>0. /\ running[u] \in Files \cup {NoFile} /\ download[u] \in Files \cup {NoFile}
      /\ NoFile \notin Files
      /\ u \in DOMAIN pc /\ u \in DOMAIN next /\ u \in DOMAIN download /\ u \in DOMAIN state
      /\ u \in DOMAIN running
  BY DEF TypeInv, TypeOK, DownloadAssumption
<1>00. pc[u] \notin {"rest", "failing", "push", "put"} => download[u] = NoFile /\ running[u] = NoFile
  BY <1>0
<1>1. CASE Check(u)
  BY <1>0, <1>00, <1>1 DEF Check, removeConnection
<1>2. CASE Get(u)
  <2>1. pc[u] = "get"
    BY <1>2 DEF Get
  <2>2. CASE pc' = [pc EXCEPT ![u] = "idle"] /\ UNCHANGED <<running, download>>
    BY <1>0, <1>00, <1>2, <2>2 DEF Get
  <2>3. CASE \E f \in getNext(u) : /\ running' = [running EXCEPT ![u] = f]
                                   /\ download' = [download EXCEPT ![u] = f]
                                   /\ pc' = [pc EXCEPT ![u] = "push"]
    BY <1>0, <1>00, <1>2, <2>1, <2>3 DEF Get
  <2>4. QED
    BY <1>2, <2>2, <2>3 DEF Get
<1>3. CASE Idle(u)
  BY <1>0, <1>00, <1>3 DEF Idle, Return
<1>4. CASE Push(u)
  BY <1>0, <1>4 DEF Push, Return
<1>5. CASE Put(u)
  <2>1. /\ pc[u] = "put" /\ pc'[u] = "wake" /\ download'[u] = NoFile /\ running'[u] = NoFile
        /\ UNCHANGED <<next, downloads, idlers, state, listening>>
    BY <1>0, <1>5 DEF Put, Putting, Finished
  <2>2. QED
    BY <1>0, <2>1
<1>11. CASE Unsource(u)
  <2>1. /\ pc[u] = "put" /\ running'[u] \in {running[u], NoFile}
        /\ UNCHANGED <<pc, download, next, downloads, idlers, state, listening>>
    BY <1>0, <1>11 DEF Unsource
  <2>2. QED
    BY <1>0, <2>1
<1>6. CASE \E v \in Users : Wake(u, v)
  BY <1>6 DEF Wake
<1>7. CASE GoOn(u)
  BY <1>0, <1>00, <1>7 DEF GoOn
<1>8. CASE GiveUp(u)
  BY <1>0, <1>00, <1>8 DEF GiveUp, removeConnection
<1>9. CASE onFailed(u)
  BY <1>0, <1>9 DEF onFailed, Gone, Over
<1>10. CASE Delete(u)
  BY <1>0, <1>00, <1>10 DEF Delete, Gone
<1>12. QED
  BY <1>1, <1>2, <1>3, <1>4, <1>5, <1>6, <1>7, <1>8, <1>9, <1>10, <1>11 DEF Thread

\* What comes from the peer, the timer and ConnectionManager.
LEMMA PeerRecords ==
    ASSUME TypeInv, DownloadAssumption, TestSur = {}, NEW u \in Users, Conn(u),
           Peer(u) \/ revive(u) \/ Second(u) \/ addConnection(u) \/ Minute(u)
    PROVE  Conn(u)'
<1> USE DEF Conn
<1>0. /\ running[u] \in Files \cup {NoFile} /\ download[u] \in Files \cup {NoFile}
      /\ NoFile \notin Files
      /\ u \in DOMAIN pc /\ u \in DOMAIN next /\ u \in DOMAIN download /\ u \in DOMAIN state
      /\ u \in DOMAIN running
  BY DEF TypeInv, TypeOK, DownloadAssumption
<1>1. CASE SND(u) \/ Data(u) \/ noSlots(u) \/ fileNotAvailable(u)
  <2>1. /\ pc[u] = "rest" /\ download[u] # NoFile /\ u \in listening
        /\ UNCHANGED <<running, download, idlers, listening>>
    BY <1>1 DEF SND, Data, noSlots, fileNotAvailable, Hears
  <2>2. \/ /\ \E how \in Outcomes, then \in {"check", "close"} : Over(u, how, then)
           /\ UNCHANGED state
        \/ UNCHANGED <<downloads, pc, next>>
    BY <1>1 DEF SND, Data, noSlots, fileNotAvailable, disconnects, failDownload, Outcomes
  <2>3. u \notin idlers
    BY <2>1
  <2>4. CASE /\ \E how \in Outcomes, then \in {"check", "close"} : Over(u, how, then)
             /\ UNCHANGED state
    BY <1>0, <2>1, <2>3, <2>4 DEF Over
  <2>5. CASE UNCHANGED <<downloads, pc, next>>
    BY <1>0, <2>1, <2>3, <2>5
  <2>6. QED
    BY <2>2, <2>4, <2>5
<1>2. CASE Failed(u)
  <2>1. CASE u \in listening
    BY <1>0, <1>2, <2>1 DEF Failed
  <2>2. CASE u \notin listening
    BY <1>0, <1>2, <2>2 DEF Failed, Gone
  <2>3. QED
    BY <2>1, <2>2
<1>3. CASE revive(u)
  BY <1>0, <1>3 DEF revive
<1>4. CASE Second(u) \/ Minute(u)
  BY <1>4 DEF Second, Minute
<1>5. CASE addConnection(u)
  BY <1>0, <1>5 DEF addConnection
<1>6. QED
  BY <1>1, <1>2, <1>3, <1>4, <1>5 DEF Peer

LEMMA RecordStep ==
    TypeInv /\ RecordInv /\ DownloadAssumption /\ TestSur = {} /\ [Next]_vars => RecordInv'
<1>1. SUFFICES ASSUME TypeInv, RecordInv, DownloadAssumption, TestSur = {}, [Next]_vars,
                      NEW v \in Users
               PROVE  Conn(v)'
  BY DEF RecordInv
<1>2. TypeOK /\ Conn(v) /\ \A u \in Users : Conn(u)
  BY <1>1 DEF TypeInv, RecordInv
<1>3. CASE UNCHANGED vars
  BY <1>2, <1>3 DEF vars, Conn
<1>4. ASSUME NEW u \in Users, Thread(u) PROVE Conn(v)'
  <2>1. CASE u = v
    BY <1>1, <1>2, <1>4, <2>1, ThreadRecords
  <2>2. CASE u # v
    BY <1>2, <1>4, <2>2, ThreadSpares, SparedKeeps
  <2>3. QED
    BY <2>1, <2>2
<1>5. ASSUME NEW u \in Users, Peer(u) \/ revive(u) \/ Second(u) \/ addConnection(u) \/ Minute(u)
      PROVE  Conn(v)'
  <2>1. CASE u = v
    BY <1>1, <1>2, <1>5, <2>1, PeerRecords
  <2>2. CASE u # v
    BY <1>2, <1>5, <2>2, PeerSpares, SparedKeeps
  <2>3. QED
    BY <2>1, <2>2
<1>6. ASSUME NEW f \in Files, remove(f) \/ \E u \in Users : Add(f, u) \/ removeSource(f, u)
      PROVE  Conn(v)'
  BY <1>2, <1>6, QueueSpares, SparedKeeps
<1>7. QED
  BY <1>1, <1>3, <1>4, <1>5, <1>6 DEF Next

LEMMA RecordsHold ==
    ASSUME TestSur = {}
    PROVE  Spec => []RecordInv
<1>1. Init => RecordInv
  BY DEF Init, RecordInv, Conn
<1>2. TypeInv /\ RecordInv /\ [Next]_vars => RecordInv'
  BY RecordStep, DownloadAssumption
<1>3. QED
  BY <1>1, <1>2, TypeInvHolds, PTL DEF Spec

\* Every Download of DownloadManager's list belongs to a connection that lives and
\* listens, whatever the peer sends, and whoever removes, fails or is closed: as
\* long as no peer is tested (TestSUR), whose refusal leaves one behind.
THEOREM DownloadsAliveHolds ==
    ASSUME TestSur = {}
    PROVE  Spec => []DownloadsAlive
<1>1. TypeInv /\ RecordInv => DownloadsAlive
  <2>1. SUFFICES ASSUME TypeInv, RecordInv, NEW u \in Users, NEW f \in Files, <<u, f>> \in downloads
                 PROVE  pc[u] # "none" /\ u \in listening /\ download[u] = f
    BY DEF TypeInv, TypeOK, DownloadsAlive
  <2>2. Conn(u) /\ f # NoFile
    BY <2>1, DownloadAssumption DEF RecordInv, DownloadAssumption
  <2>3. QED
    BY <2>1, <2>2 DEF Conn
<1>2. QED
  BY <1>1, RecordsHold, TypeInvHolds, PTL

\* What the queue holds to be running is always on its way to the list, in it, or
\* on its way to putDownload(); without the tests again.
THEOREM RunningIsReportedHolds ==
    ASSUME TestSur = {}
    PROVE  Spec => []RunningIsReported
<1>1. RecordInv => RunningIsReported
  BY DEF RecordInv, Conn, RunningIsReported
<1>2. QED
  BY <1>1, RecordsHold, PTL

\* idlers holds no connection that is at work or gone, and nobody who has work looks
\* for more; without the tests again.
THEOREM IdleOrBusyHolds ==
    ASSUME TestSur = {}
    PROVE  Spec => []IdleOrBusy
<1>1. TypeInv /\ RecordInv => IdleOrBusy
  BY DownloadAssumption
     DEF TypeInv, TypeOK, RecordInv, Conn, IdleOrBusy, DownloadAssumption
<1>2. QED
  BY <1>1, RecordsHold, TypeInvHolds, PTL
=============================================================================
