--------------------------- MODULE DownloadManager ---------------------------
(***************************************************************************)
(* dcpp/DownloadManager: what a download connection does from the moment   *)
(* ConnectionManager hands it over until it is gone, with the parts of     *)
(* QueueManager (who is a source of what, who is running what) and of      *)
(* ConnectionManager (the item of a peer, the inactivity sweep) it calls   *)
(* and is called by.                                                       *)
(*                                                                         *)
(* A connection is served by its own socket thread; each call of a manager *)
(* takes that manager's mutex and releases it again, so that a handler is  *)
(* as many steps as it makes calls.  ConnectionManager gives a peer one    *)
(* download connection at a time, which is known here by its peer.  It is  *)
(* taken to be gone before the peer's next one is established, which the   *)
(* retry of 60 s sees to unless its thread is held up for that long.       *)
(***************************************************************************)
EXTENDS Integers, FiniteSets

CONSTANTS
    Users,      \* the peers, all of them online
    Files,      \* what may be queued, each as one segment
    Priority,   \* QueueItem::getPriority() of a file
    TestSur,    \* the files with FLAG_TESTSUR
    HubsOf,     \* the hubs a peer is in, and is queued or connects from
    Slots,      \* SETTING(DOWNLOAD_SLOTS), 0 for no limit
    MaxSpeed,   \* there is a SETTING(MAX_DOWNLOAD_SPEED)
    Offers,     \* bound: the peers that may become sources of a file
    NoFile

ASSUME DownloadAssumption ==
    /\ IsFiniteSet(Users) /\ IsFiniteSet(Files)
    /\ \A u \in Users : HubsOf[u] # {}
    /\ Priority \in [Files -> {"LOWEST", "NORMAL", "HIGHEST"}]
    /\ TestSur \subseteq Files /\ Slots \in Nat /\ MaxSpeed \in BOOLEAN
    /\ Offers \in [Files -> SUBSET Users]
    /\ NoFile \notin Files

VARIABLES            \* QueueManager
    source,          \* the sources of a file, {} for one that is not queued
    running          \* UserQueue::running
VARIABLES            \* ConnectionManager
    item             \* ConnectionQueueItem::state of a peer, or "none"
VARIABLES            \* DownloadManager
    downloads,       \* the Downloads, as pairs of peer and file
    idlers
VARIABLES            \* the connection of a peer
    pc,              \* where its thread is, "none" if there is no connection
    state,           \* UserConnection::state
    download,        \* UserConnection::download
    hub,             \* UserConnection::hubUrl
    listening,       \* connections DownloadManager is a listener of
    closing,         \* connections told to disconnect()
    calls,           \* connections with a revive() in their task queue
    outcome,         \* how the thread reports a Download that is over
    toAsk,           \* the sources putDownload() asks connections for after it
    next             \* what the thread does then
queueVars == <<source, running>>
listVars  == <<downloads, idlers>>
connVars  == <<state, download, hub, listening, closing, calls>>
threadVars == <<pc, outcome, toAsk, next>>
vars == <<queueVars, item, listVars, connVars, threadVars>>

-----------------------------------------------------------------------------
Pcs == {"none", "rest", "check", "get", "idle", "push", "put", "wake", "close", "failing"}
AllHubs == UNION {HubsOf[u] : u \in Users}
Outcomes == {"none", "finished", "part", "failed", "unavailable"}

TypeOK ==
    /\ source \in [Files -> SUBSET Users]
    /\ running \in [Users -> Files \cup {NoFile}]
    /\ item \in [Users -> {"none", "WAITING", "ACTIVE"}]
    /\ downloads \subseteq Users \X Files /\ idlers \subseteq Users
    /\ pc \in [Users -> Pcs]
    /\ state \in [Users -> {"IDLE", "SND", "RUNNING"}]
    /\ download \in [Users -> Files \cup {NoFile}]
    /\ hub \in [Users -> AllHubs]
    /\ \A u \in Users : hub[u] \in HubsOf[u]
    /\ listening \subseteq Users /\ closing \subseteq Users /\ calls \subseteq Users
    /\ outcome \in [Users -> Outcomes]
    /\ toAsk \in [Users -> SUBSET Users]
    /\ next \in [Users -> {"rest", "check", "close", "check+close", "gone"}]

Init ==
    /\ source = [f \in Files |-> {}] /\ running = [u \in Users |-> NoFile]
    /\ item = [u \in Users |-> "none"]
    /\ downloads = {} /\ idlers = {}
    /\ pc = [u \in Users |-> "none"] /\ state = [u \in Users |-> "SND"]
    /\ download = [u \in Users |-> NoFile]
    /\ hub = [u \in Users |-> CHOOSE h \in HubsOf[u] : TRUE]
    /\ listening = {} /\ closing = {} /\ calls = {}
    /\ outcome = [u \in Users |-> "none"] /\ toAsk = [u \in Users |-> {}]
    /\ next = [u \in Users |-> "rest"]

-----------------------------------------------------------------------------
(* The queue.                                                              *)

\* UserQueue::getNext(): what a peer may be asked for, best priority first.
Waiting(u) == {f \in Files : u \in source[f] /\ \A v \in Users : running[v] # f}

Better(p, q) == p = "HIGHEST" \/ q = "LOWEST" \/ p = q
getNext(u) == {f \in Waiting(u) : \A g \in Waiting(u) : Better(Priority[f], Priority[g])}

hasDownload(u) ==
    IF getNext(u) = {} THEN "PAUSED" ELSE Priority[CHOOSE f \in getNext(u) : TRUE]

\* ConnectionManager::getDownloadConnection() and, with its mutex held,
\* checkIdle(): an idle connection is woken if it is of another hub.
getDownloadConnection(u, h) ==
    /\ item' = [item EXCEPT ![u] = IF @ = "none" THEN "WAITING" ELSE @]
    /\ IF item[u] # "none" /\ u \in idlers /\ hub[u] # h
       THEN hub' = [hub EXCEPT ![u] = h] /\ calls' = calls \cup {u}
       ELSE UNCHANGED <<hub, calls>>

\* Queueing a file, or a source of one, asks for a connection (once it has
\* let go of the queue) unless the peer is running something.
Add(f, u) ==
    /\ u \in Offers[f] \ source[f]
    /\ f \in TestSur => source[f] = {}
    /\ source' = [source EXCEPT ![f] = @ \cup {u}]
    /\ IF running[u] = NoFile THEN \E h \in HubsOf[u] : getDownloadConnection(u, h)
                              ELSE UNCHANGED <<item, hub, calls>>
    /\ UNCHANGED <<running, listVars, state, download, listening, closing, threadVars>>

\* remove(), removeSource() and the sources on(Second) drops as slow: those
\* that are running it are told to disconnect.
Drop(f, gone) ==
    LET cut == {u \in gone : running[u] = f} IN
    /\ gone # {}
    /\ source' = [source EXCEPT ![f] = @ \ gone]
    /\ running' = [u \in Users |-> IF u \in cut THEN NoFile ELSE running[u]]
    /\ closing' = closing \cup cut
    /\ UNCHANGED <<item, listVars, state, download, hub, listening, calls, threadVars>>

remove(f) == Drop(f, source[f])
removeSource(f, u) == Drop(f, source[f] \cap {u})

-----------------------------------------------------------------------------
(* DownloadManager's parts of the handlers.                                *)

\* Whether the downloads may be found to exceed the speed limit.
MayExceed == {FALSE, MaxSpeed /\ downloads # {}}

\* startDownload() with the number of downloads at the time of the call.
startDownload(prio, exceeds) ==
    LET count == Cardinality(downloads)
        full  == exceeds \/ (Slots # 0 /\ count >= Slots) IN
    IF full THEN (Slots # 0 => count < Slots + 3) /\ prio = "HIGHEST"
    ELSE count > 0 => prio # "LOWEST"

\* removeConnection(): the rest of the connection's life is no business of
\* this component.
removeConnection(u) ==
    /\ listening' = listening \ {u} /\ closing' = closing \cup {u}
    /\ idlers' = idlers \ {u}
    /\ pc' = [pc EXCEPT ![u] = "rest"] /\ next' = [next EXCEPT ![u] = "rest"]

\* removeDownload(), then the report to the queue, then `then`.
Over(u, how, then) ==
    /\ downloads' = downloads \ {<<u, download[u]>>}
    /\ pc' = [pc EXCEPT ![u] = "put"]
    /\ outcome' = [outcome EXCEPT ![u] = how]
    /\ next' = [next EXCEPT ![u] = then]

\* failDownload() of a connection with a Download.
failDownload(u) ==
    Over(u, IF download[u] \in TestSur THEN "finished" ELSE "failed", "close")

\* checkDownloads(): is there work, and a slot for it?
Check(u) ==
    /\ pc[u] = "check"
    /\ \E exceeds \in MayExceed :
          \/ /\ startDownload(hasDownload(u), exceeds)
             /\ pc' = [pc EXCEPT ![u] = "get"]
             /\ UNCHANGED <<idlers, listening, closing, next>>
          \/ ~startDownload(hasDownload(u), exceeds) /\ removeConnection(u)
    /\ UNCHANGED <<queueVars, item, downloads, state, download, hub, calls, outcome, toAsk>>

\* QueueManager::getDownload().
Get(u) ==
    /\ pc[u] = "get"
    /\ \/ /\ getNext(u) = {} /\ pc' = [pc EXCEPT ![u] = "idle"]
          /\ UNCHANGED <<running, download>>
       \/ \E f \in getNext(u) : /\ running' = [running EXCEPT ![u] = f]
                                /\ download' = [download EXCEPT ![u] = f]
                                /\ pc' = [pc EXCEPT ![u] = "push"]
    /\ UNCHANGED <<source, item, listVars, state, hub, listening, closing, calls, outcome, toAsk, next>>

\* After fileNotAvailable() of a tested peer checkDownloads() returns to a
\* removeConnection().
Return(u) == [pc EXCEPT ![u] = IF next[u] = "close" THEN "close" ELSE "rest"]

Idle(u) ==
    /\ pc[u] = "idle"
    /\ state' = [state EXCEPT ![u] = "IDLE"] /\ idlers' = idlers \cup {u}
    /\ pc' = Return(u)
    /\ UNCHANGED <<queueVars, item, downloads, download, hub, listening, closing, calls,
                   outcome, toAsk, next>>

Push(u) ==
    /\ pc[u] = "push"
    /\ state' = [state EXCEPT ![u] = "SND"]
    /\ downloads' = downloads \cup {<<u, download[u]>>}
    /\ pc' = Return(u)
    /\ UNCHANGED <<queueVars, item, idlers, download, hub, listening, closing, calls,
                   outcome, toAsk, next>>

-----------------------------------------------------------------------------
(* What the peer sends, and the end of a Download.                         *)

\* The connection's thread is in its loop and hands what it reads to this
\* component, which has a Download to do it with.
Hears(u, s) == pc[u] = "rest" /\ u \in listening /\ state[u] = s /\ download[u] # NoFile

disconnects(u) ==
    /\ closing' = closing \cup {u}
    /\ UNCHANGED <<downloads, pc, outcome, next, state>>

\* on(SND) and startData(): not what was asked for, a file that cannot be
\* opened, or the data.
SND(u) ==
    /\ Hears(u, "SND")
    /\ \/ disconnects(u)
       \/ failDownload(u) /\ UNCHANGED <<state, closing>>
       \/ /\ state' = [state EXCEPT ![u] = "RUNNING"]
          /\ UNCHANGED <<downloads, pc, outcome, next, closing>>
    /\ UNCHANGED <<queueVars, item, idlers, download, hub, listening, calls, toAsk>>

\* on(Data) up to the end: the segment or the whole file is there, the tree
\* is not that of the file, or something cannot be written.
Data(u) ==
    /\ Hears(u, "RUNNING")
    /\ \/ failDownload(u)
       \/ \E how \in {"finished", "part", "unavailable"} : Over(u, how, "check")
    /\ UNCHANGED <<queueVars, item, idlers, connVars, toAsk>>

\* $MaxedOut, or the ADC status.
noSlots(u) ==
    /\ \/ Hears(u, "SND") /\ failDownload(u) /\ UNCHANGED <<state, closing>>
       \/ Hears(u, "RUNNING") /\ disconnects(u)
    /\ UNCHANGED <<queueVars, item, idlers, download, hub, listening, calls, toAsk>>

\* A file list is reported as finished and so is a test, whose connection
\* is nevertheless given more work before it is given up.
fileNotAvailable(u) ==
    /\ \/ /\ Hears(u, "SND") /\ UNCHANGED <<state, closing>>
          /\ IF download[u] \in TestSur THEN Over(u, "finished", "check+close")
             ELSE Over(u, "unavailable", "check") \/ Over(u, "finished", "close")
       \/ Hears(u, "RUNNING") /\ disconnects(u)
    /\ UNCHANGED <<queueVars, item, idlers, download, hub, listening, calls, toAsk>>

\* removeSource() of a file the peer does not have, or has a wrong tree of,
\* before it is reported; a small file may keep a source without a tree.
Unsource(u) ==
    LET f == download[u] IN
    /\ pc[u] = "put" /\ outcome[u] = "unavailable"
    /\ \/ UNCHANGED queueVars
       \/ /\ u \in source[f] /\ source' = [source EXCEPT ![f] = @ \ {u}]
          /\ running' = [running EXCEPT ![u] = IF @ = f THEN NoFile ELSE @]
    /\ outcome' = [outcome EXCEPT ![u] = "failed"]
    /\ UNCHANGED <<item, listVars, connVars, pc, toAsk, next>>

\* putDownload() in the queue.
Putting(u) ==
    LET f == download[u] IN
    /\ pc[u] = "put" /\ outcome[u] # "unavailable"
    /\ toAsk' = [toAsk EXCEPT ![u] = IF outcome[u] = "failed" THEN source[f] ELSE {}]
    /\ download' = [download EXCEPT ![u] = NoFile]
    /\ outcome' = [outcome EXCEPT ![u] = "none"]
    /\ pc' = [pc EXCEPT ![u] = "wake"]
    /\ UNCHANGED <<item, listVars, state, hub, listening, closing, calls, next>>

\* All of the file is there, and it leaves the queue.
Finished(u) ==
    LET f == download[u] IN
    /\ outcome[u] = "finished"
    /\ source' = [source EXCEPT ![f] = {}]
    /\ running' = [v \in Users |-> IF v = u \/ running[v] = f THEN NoFile ELSE running[v]]

\* Mutant: a Download that failed stays the one its peer is running.
Put_KeepsRunning(u) ==
    /\ Putting(u)
    /\ \/ Finished(u)
       \/ outcome[u] = "failed" /\ UNCHANGED queueVars
       \/ outcome[u] = "part" /\ running' = [running EXCEPT ![u] = NoFile] /\ UNCHANGED source

Put(u) ==
    /\ Putting(u)
    /\ \/ Finished(u)
       \/ /\ outcome[u] # "finished"
          /\ running' = [running EXCEPT ![u] = NoFile] /\ UNCHANGED source

Wake(u, v) ==
    /\ pc[u] = "wake" /\ v \in toAsk[u]
    /\ toAsk' = [toAsk EXCEPT ![u] = @ \ {v}]
    /\ \E h \in HubsOf[v] : getDownloadConnection(v, h)
    /\ UNCHANGED <<queueVars, listVars, state, download, listening, closing,
                   pc, outcome, next>>

\* The connection is done with the Download that is over.
GoOn(u) ==
    /\ pc[u] = "wake" /\ toAsk[u] = {} /\ next[u] \in {"check", "check+close"}
    /\ pc' = [pc EXCEPT ![u] = "check"]
    /\ next' = [next EXCEPT ![u] = IF @ = "check" THEN "rest" ELSE "close"]
    /\ UNCHANGED <<queueVars, item, listVars, connVars, outcome, toAsk>>

GiveUp(u) ==
    /\ \/ pc[u] = "wake" /\ toAsk[u] = {} /\ next[u] = "close"
       \/ pc[u] = "close"
    /\ removeConnection(u)
    /\ UNCHANGED <<queueVars, item, downloads, state, download, hub, calls, outcome, toAsk>>

\* Mutant: the connection is not taken out of idlers.
revive_KeepsIdler(u) ==
    /\ pc[u] = "rest" /\ u \in calls /\ calls' = calls \ {u}
    /\ pc' = [pc EXCEPT ![u] = IF u \in idlers THEN "check" ELSE "rest"]
    /\ UNCHANGED <<queueVars, item, listVars, state, download, hub, listening, closing,
                   outcome, toAsk, next>>

revive(u) ==
    /\ pc[u] = "rest" /\ u \in calls /\ calls' = calls \ {u}
    /\ idlers' = idlers \ {u}
    /\ pc' = [pc EXCEPT ![u] = IF u \in idlers THEN "check" ELSE "rest"]
    /\ UNCHANGED <<queueVars, item, downloads, state, download, hub, listening, closing,
                   outcome, toAsk, next>>

-----------------------------------------------------------------------------
(* The connection's life.                                                  *)

\* Mutant: the item is told to connect instead of being dropped.
Second_Connects(u) ==
    /\ item[u] = "WAITING" /\ hasDownload(u) = "PAUSED"
    /\ item' = [item EXCEPT ![u] = "CONNECTING"]
    /\ UNCHANGED <<queueVars, listVars, connVars, threadVars>>

\* on(Second): an item nothing is queued for is dropped.
Second(u) ==
    /\ item[u] = "WAITING" /\ hasDownload(u) = "PAUSED"
    /\ item' = [item EXCEPT ![u] = "none"]
    /\ UNCHANGED <<queueVars, listVars, connVars, threadVars>>

\* addDownloadConnection() at the end of the handshake, and addConnection():
\* the peer is there, but may be a client that cannot be downloaded from.
addConnection(u) ==
    /\ item[u] = "WAITING" /\ pc[u] = "none"
    /\ item' = [item EXCEPT ![u] = "ACTIVE"]
    /\ \E h \in HubsOf[u] : hub' = [hub EXCEPT ![u] = h]
    /\ \/ /\ listening' = listening \cup {u}
          /\ pc' = [pc EXCEPT ![u] = "check"]
          /\ UNCHANGED <<source, closing>>
       \/ /\ source' = [f \in Files |-> source[f] \ {u}]
          /\ closing' = closing \cup {u}
          /\ pc' = [pc EXCEPT ![u] = "rest"]
          /\ UNCHANGED listening
    /\ UNCHANGED <<running, listVars, state, download, calls, outcome, toAsk, next>>

\* Mutant: idle connections may stay.
Minute_SparesIdle(u) ==
    /\ pc[u] = "rest" /\ u \notin closing \cup idlers
    /\ closing' = closing \cup {u}
    /\ UNCHANGED <<queueVars, item, listVars, state, download, hub, listening, calls, threadVars>>

\* on(Minute): a connection that has been silent for 180 s is closed.
Minute(u) ==
    /\ pc[u] = "rest" /\ u \notin closing
    /\ closing' = closing \cup {u}
    /\ UNCHANGED <<queueVars, item, listVars, state, download, hub, listening, calls, threadVars>>

\* UserConnection::on(Failed): ConnectionManager hears of it first, then, if
\* it still listens, DownloadManager; then the connection is deleted.
Gone(u) ==
    /\ pc' = [pc EXCEPT ![u] = "none"] /\ next' = [next EXCEPT ![u] = "rest"]
    /\ closing' = closing \ {u} /\ listening' = listening \ {u} /\ calls' = calls \ {u}
    /\ state' = [state EXCEPT ![u] = "SND"]
    /\ hub' = [hub EXCEPT ![u] = CHOOSE h \in HubsOf[u] : TRUE]

Failed(u) ==
    /\ pc[u] = "rest"
    /\ item' = [item EXCEPT ![u] = "WAITING"]
    /\ IF u \in listening
       THEN /\ pc' = [pc EXCEPT ![u] = "failing"]
            /\ UNCHANGED <<connVars, next>>
       ELSE Gone(u) /\ download' = [download EXCEPT ![u] = NoFile]
    /\ UNCHANGED <<queueVars, listVars, outcome, toAsk>>

\* Mutant: the Download of the connection is left to others.
onFailed_KeepsDownload(u) ==
    /\ pc[u] = "failing" /\ idlers' = idlers \ {u} /\ Gone(u)
    /\ UNCHANGED <<queueVars, item, downloads, download, outcome, toAsk>>

onFailed(u) ==
    /\ pc[u] = "failing"
    /\ idlers' = idlers \ {u}
    /\ IF download[u] = NoFile
       THEN Gone(u) /\ UNCHANGED <<downloads, outcome>>
       ELSE /\ Over(u, IF download[u] \in TestSur THEN "finished" ELSE "failed", "gone")
            /\ UNCHANGED <<state, hub, listening, closing, calls>>
    /\ UNCHANGED <<queueVars, item, download, toAsk>>

Delete(u) ==
    /\ pc[u] = "wake" /\ toAsk[u] = {} /\ next[u] = "gone" /\ Gone(u)
    /\ UNCHANGED <<queueVars, item, listVars, download, outcome, toAsk>>

-----------------------------------------------------------------------------
Thread(u) ==
    \/ Check(u) \/ Get(u) \/ Idle(u) \/ Push(u) \/ Unsource(u) \/ Put(u) \/ (\E v \in Users : Wake(u, v))
    \/ GoOn(u) \/ GiveUp(u) \/ onFailed(u) \/ Delete(u)

Peer(u) == SND(u) \/ Data(u) \/ noSlots(u) \/ fileNotAvailable(u) \/ Failed(u)

Next ==
    \/ \E u \in Users : \/ Thread(u) \/ Peer(u) \/ revive(u)
                        \/ Second(u) \/ addConnection(u) \/ Minute(u)
    \/ \E f \in Files : \/ remove(f)
                        \/ \E u \in Users : Add(f, u) \/ removeSource(f, u)

Spec == Init /\ [][Next]_vars

\* Threads go on, the timer fires, a socket told to disconnect fails, and a
\* peer that is tried again and again connects at last.  A peer need not
\* send anything, but silence is not kept up for ever (on(Minute)).
Fairness ==
    \A u \in Users :
        /\ WF_vars(Thread(u))
        /\ WF_vars(Second(u)) /\ SF_vars(addConnection(u))
        /\ WF_vars(Minute(u)) /\ WF_vars(u \in closing /\ Failed(u))

FairSpec == Spec /\ Fairness

-----------------------------------------------------------------------------
(* Properties.                                                             *)

\* Every Download of the list belongs to a connection that lives, has it and
\* will tell of its end: on(Second) reads the connection of each, and
\* getDownloadCount() is "Number of downloads".
DownloadsAlive ==
    \A d \in downloads : /\ pc[d[1]] # "none" /\ d[1] \in listening
                         /\ download[d[1]] = d[2]

\* What the queue holds to be running is in the list, or its thread is on
\* the way in or out: no file stays "running" with nobody to report it.
RunningIsReported ==
    \A u \in Users : running[u] # NoFile =>
        /\ download[u] = running[u]
        /\ <<u, running[u]>> \in downloads \/ pc[u] \in {"push", "put"}

\* idlers holds no connection that is at work or gone (revive() finds it by
\* its address), and work is looked for only when there is none: "Only one
\* download per user..."
IdleOrBusy ==
    \A u \in Users :
        /\ u \in idlers => /\ pc[u] \in {"rest", "close", "failing"} /\ u \in listening
                           /\ state[u] = "IDLE" /\ download[u] = NoFile
        /\ pc[u] \in {"check", "get", "idle"} => download[u] = NoFile /\ running[u] = NoFile

\* A connection that might start something is given up for the speed.
TooFast(u) == Check(u) /\ startDownload(hasDownload(u), FALSE) /\ pc'[u] = "rest"

\* A peer's work that may start is not left for ever: the idle connection
\* that checkIdle() does not wake, because it is of the same hub or because
\* it was not in idlers yet, is closed for its silence and made again.  It is
\* only if the speed forbids it again and again.
WorkTaken ==
    \A u \in Users :
        \/ []<>( \/ running[u] # NoFile \/ item[u] = "none"
                 \/ \A f \in Waiting(u) : ~startDownload(Priority[f], FALSE))
        \/ []<><<TooFast(u)>>_vars
=============================================================================
