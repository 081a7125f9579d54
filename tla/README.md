# bmdc: models and proofs

bmdc is a Direct Connect client: it joins hubs, shares files with their users,
and downloads from them over connections the two clients make to each other.
This directory holds TLA+ models of its transfer core (`src/dcpp`), the TLC
configurations that check them, and TLAPS proofs of the invariants that matter
most. Paths below are relative to the repository; `QM`, `CM`, `UM`, `DM` stand
for `dcpp/QueueManager.cpp`, `ConnectionManager.cpp`, `UploadManager.cpp` and
`DownloadManager.cpp`.

Contents: 1 the system, 2 the modules, 3 the runs, 4 the proofs, 5 what the
models found, 6 what is left out, 7 the plan.

## 1. The system

### 1.1 Threads and locks

Every connection (to a hub or to a peer) has a socket thread that calls its
listeners; a timer thread fires `Second` and `Minute`; the hasher, the share
refresh and the Rechecker have threads of their own; the user interface runs in
GTK's and one worker thread. The managers are singletons, each with a recursive
mutex `cs` taken by a `Lock` object. They call each other directly, or through
`Speaker::fire`, which holds the mutex of its listeners while it calls them all, besides whatever
the caller holds. So most handlers are atomic for the
state of their own manager and interleave with everything else, and what is hard
is where they are not: a lock released between a check and the action it
allows, a handler without the lock, an object found again by name, a step of
another manager in between.

### 1.2 Components

For each component: its state, its operations, how it interacts, what is hard,
and what makes it correct.

**UploadManager** (`UM`, `UploadManager.h`). State: `running` and `extra` (slots in
use), `uploads`, `reservedSlots`, `connectingUsers`, `waitingUsers` with
`waitingFiles`, `lastGrant`, and the slot flags of every connection. Operations: a request
(`prepareFile`), the end or failure of an upload, `removeConnection`, the notification
of waiting users (`Second`), expiry and auto kick (`Minute`), reservations, users
going offline. Called by socket threads, timer, hubs and the user interface. Hard:
`prepareFile` checks and commits in two critical sections, `removeConnection` has
none. Correct when each slot is counted once when it is gained and once when it is given back, the two
containers of waiting users agree, and who waits is served.

**ConnectionManager** (`CM`). State: `downloads` and `uploads` (one
`ConnectionQueueItem` per peer and direction), `userConnections`,
`expectedConnections`, `delayedTokens`, `shuttingDown`. Operations: an item is
asked for (`getDownloadConnection`), tried, timed out and removed (`Second`), an
incoming or outgoing connection passes the NMDC or ADC handshake and becomes a
download or an upload, fails, is closed; `shutdown` waits for the last one. Hard:
handshakes interleave with the timer and with each other, two peers decide
independently. Correct when an active item has exactly one connection, two
clients agree on who downloads, peers are tried again, and shutdown ends.

**QueueItem and segments** (`QueueItem.cpp`, `Segment.h`). State: the segments done, the
downloads under way. Operations: `getNextSegment`, `addSegment`, the accounting
of failed downloads by whole blocks. Hard: overlapping, touching and short
segments, block sizes that change with the hash tree. Correct when no byte is
fetched twice at once, none counts that was not written, and the file gets finished.

**QueueManager** (`QM`). State: `fileQueue` (items by target), `userQueue` and
`running` (items by user), the temporary files, `Queue.xml`, the Rechecker's
position. Operations: add, add a source, remove, remove a source, move, pause,
`getDownload`, `putDownload`, save, load, recheck. It is called by everyone. Hard:
three indexes kept in step by hand, operations that find the item again by
target, and a thread that reads a file without the lock. Correct when the indexes
agree, what counts as done is on disk, and a finished file is whole.

**DownloadManager** (`DM`). State: `downloads`, `idlers`, and the Download of each
connection. Operations: a connection comes (`addConnection`), looks for work
(`checkDownloads`), takes a file, is told of data, the end, a failure or "no slots", is
idle and revived, fails. It calls the queue and is called back by it, with no common
lock: a Download is in the list, in the queue's `running` and in its connection, and enters
and leaves each at a different time. Hard: the steps of one connection between those of the
others, `checkIdle` that finds a connection and `revive` that runs later, the decision
about a slot before the file is chosen. Correct when the three records agree, nothing
idle is at work, and work for a peer is taken up.

**UserConnection, BufferedSocket.** State: a queue of tasks, `state`
(STARTING, RUNNING, FAILED), `disconnecting`, two buffers. A socket thread takes the tasks that
others add, and calls the listener. A `UserConnection` deletes itself inside the call of `Failed`; a
`Client` gives its socket back from other threads. Hard: tasks, failures and the release
in any order. Correct when the owner hears the calls in order and none after the release,
no written byte is left behind, and every socket ends.

**ThrottleManager.** State: tokens for each direction, two mutexes of which the timer always
holds one. A transfer without a token locks that one and so sleeps. Hard: a waiter that chooses a
mutex while the timer hands over, and the end of the timer's thread. Correct when exactly one is
held, every waiter goes on after the next ticks, and shutdown lets all go.

**ClientManager and UsersManager** (`UserManager.h`). State: the open hub windows, the
`OnlineUser`s of all hubs, the flag `User::ONLINE`, the events. Hard: the list is changed under the
lock, flag and events come after it. Correct when the list holds just what the hubs own,
and flag and events say whether it has the user.

**Hubs** (`Client`, `NmdcHub`, `AdcHub`). State: `state`, `autoReconnect`, the socket, the map of users.
Operations: login, users that come and go, failure, the timer's reconnect, `disconnect`,
the opening and closing of a window. Hard: three threads (socket, timer, user interface)
work on one object that one of them deletes. Correct when each `OnlineUser` is given back once, and a
lost hub is tried again.

**HashManager**: files to hash, trees, an index that names
positions in a data file. **ShareManager**: the share, refreshed by a thread while it is
searched. **TimerManager, CommandQueue**: ticks and delayed commands. **SearchManager**,
**FinishedManager**, logs, `DirectoryListing`, **FavoriteManager**, settings,
**ConnectivityManager** and the port mappers, HTTP, cheat detection, plugins,
sockets and TLS, the GTK user interface, and vendored libraries: see
"components" in `PROJECT.json` for each one's reason to be left for later or left out.

### 1.3 How the modelled parts interact

    UI --getClient--> Client/NmdcHub/AdcHub --putOnline, putOffline--> UsersManager
                             |
                      BufferedSocket  (one thread each; also under a UserConnection)
                             |              `-- waits in --> ThrottleManager
                             v
    hub / UI --add--> QueueManager --getDownloadConnection--> ConnectionManager
                          ^   |                                |  (handshake with
        getDownload       |   | removeSource,                  |   the peer's own)
        putDownload       |   v abort                          v
    DownloadManager <-----+---------- addConnection ---------- + --> UploadManager

Where a model stands for the neighbours of its component:

- `ConnectionManager` asks the queue whether a peer is wanted (`hasDownload`): in that
  model the set `wanted`, changed freely. The connections it hands over are `AddConnection` in
  `UploadManager`, `addConnection` in `DownloadManager`, and the users of `DownloadQueue`.
- `DownloadManager` holds what it touches of its neighbours as state of its own: sources and `running` of
  the queue, the item of a peer in `ConnectionManager`, the life of the connection. Of a file it knows
  whether it is queued; what its parts are is in `QueueItem` and `DownloadQueue`, where the data that
  arrive are `Data`, `Finish` and `Fail`.
- Everything with a socket is called by it. What a component may rely on is `SocketLife`, which
  `BufferedSocket` is shown to implement: `Failed` at most once, nothing after it, nothing after
  the release. `Hubs`, `ConnectionManager` and `DownloadManager` are written against it.
- A peer that goes on- or offline is an action of the environment in the transfer
  models; `Hubs` shows what that signal is worth.

## 2. The modules

| module | models | composes |
|---|---|---|
| `UploadManager` | `UM` | |
| `ConnectionManager` | `CM`: one client with arbitrary peers | |
| `PeerHandshake` | two clients' `CM` with each other | the handlers of both sides and two channels |
| `Segments` | the arithmetic of `QueueItem.cpp`, `Segment.h` | operators only |
| `FetchedFile` | what the downloads of one file do for it | abstract specification |
| `QueueItem` | one file, byte by byte, several downloads | `Segments`; implements `FetchedFile` |
| `DownloadQueue` | `QM`: items, users, files, `Queue.xml`, Rechecker | `Segments` |
| `DownloadManager` | `DM` | with the parts of `QM` and `CM` that call it or are called |
| `SocketLife` | what an owner may expect of a socket | abstract specification |
| `ThrottleManager` | `ThrottleManager.cpp` | a part, without a specification of its own |
| `BufferedSocket` | `BufferedSocket.cpp`, the ownership of `UserConnection`, `shutdown()` | `ThrottleManager`; implements `SocketLife` |
| `Hubs` | `Client`, `NmdcHub`, `AdcHub`, `ClientManager`, `UserManager.h` | all hubs with the one list they share |
| `*Proofs` | theorems, section 4 | the module they are named for |
| `MC*` | values of the constants for TLC | |

A definition that translates code has its lines in "map" of `PROJECT.json`. A
definition whose name ends in `_Something` and whose comment says "Mutant" is a
deliberately wrong variant that is part of no specification; "mutants" says which
property it breaks. Two suffixes are ordinary: the later parts of a handler that is
several steps are named after it (`putOnline_Flag`, `on_Failed_End`), and `_` joins handlers of two
protocols that are one action (`Lock_SID`).

### 2.1 UploadManager

A connection's thread is at `pc[c]`; a handler that takes the lock once is one
action. A request is several: `Get` (is there a reserved slot?), `CheckFree` (the
locked test), `AutoGrant`, `MiniGrant` or `Reject` (the unlocked fallbacks),
`OpenFails` or `BeginCommit` (the file was opened without the lock, then
`Lock l(cs)`), `EndCommit` (counters and flags). The mutex is the variable `cs`
where it is held over more than one step. `running++` is a load (`Load`) and a
store (`Count`): the counters are plain integers, and
`removeConnection` (`ReadCounters`, `RemoveConnection`) does not take the lock, so the store may undo
what other threads counted since the load (`Seen`). `missed` records what is undone; `MaxMissed` bounds it. Time is abstract: 90 s of a promised slot are "not over at its first
Minute, over at its third", which is what ticks 61 s apart give; the 30 s of an automatic slot is
the action `GrantAges`. Upload speed, file kind and the size of a request are free choices.

### 2.2 ConnectionManager

`dl[u]` is the state of the download item of peer `u` or `"none"`, `age[u]` the
seconds since its last attempt (-1: never, 0..`RetryTicks`), `up` the upload items.
A connection is at `phase[c]`; `user`, `role` and `assoc` are set as the
handshake goes. `Second` is one action with the whole loop: what is removed, tried, timed
out or passed over; the position of an item in the vector is left open, with the
constraint that at most one item that is due connects and nothing is passed over
unless another connected. An outgoing connect is three steps
(`Called`, `getConnection`, `Connect`), since `shuttingDown` is read, the object registered
and the socket created at different times. `shutdown()` is
`ShutFlag`, `ShutServers`, `ShutDisconnectAll`, `ShutDone`.

### 2.3 PeerHandshake

The same handlers for two clients, `near` (accepts) and `far` (connects), with one FIFO
channel each way. Each has its own item for the other, which is queued, tried,
timed out and removed at any time. `Break` is a network failure or the user's
disconnect. `RolesFit` is what the code guarantees: over NMDC one side downloads and the
other uploads; over ADC the two never both upload, which is what `delayedTokens` is for,
but may both download (section 5). Bound: `MaxRounds` connections one after another.

### 2.4 Segments, QueueItem, DownloadQueue

`Segments` translates `addSegment` (the fold `Consolidated`, including its
replacement of a segment inside its predecessor by a shorter one), the search for a
free block (`Free`, `SegmentedNext`) and the unsegmented branch (`SingleNext`).
`QueueItem` runs them on a file counted in bytes with failures after any byte. `FetchedFile` says what comes of
it without segments or blocks: a connection takes bytes that no other is at and that are not all done, gets them one by one, and
has those counted that arrived, or fewer; `complete` is true when all are done, and the instance
`Fetched` maps it to `isFinished()`, which compares with the one segment of the whole file.

`DownloadQueue` counts in blocks. An item is a member of `Items`, its address:
`userQueue` and `running` hold addresses, so that a pointer to a deleted item
can be told from one to its successor. `disk` is the temporary
files, with the blocks written to each, and `final` the files at the targets, with the file each of their blocks
is of: at some of them somebody else's file is there from the beginning. A download that has a file
open which is deleted, moved away or replaced goes on writing to nowhere (`Orphaned`, `Replaced`), as with POSIX
files.

Where an item is written to is decided by `getTempTarget()` (`TempName`) when it is first asked: in a temporary file, but
where there is a file at the target (`QueueItem.cpp:74`) into that one, block by block. Every operation holds `cs` while it changes
the queue, but what they know of the disk is looser. `add()` looks for a file at the target before it takes `cs`
(`QM:597`, `QM:610`), and one may come in between: `Add` has no such condition. `move()` and
`loadQueue()` do not look at all: neither does `Restart`, and `Move` only without `overwrite` (`Vacant`). The Rechecker's three locked sections and the unlocked read between them are
`RecheckBegin`, `RecheckClear`, `RecheckRead`, `RecheckJudge`.

`Operations` names what may happen besides downloading. Six of its members are
ordinary use and are all in the passing run: `remove`, `removeSource`, `pause`, `move`,
`restart`, `recheck`. The six others, and two values of other constants, let in a
behaviour that breaks a property in this code; each but the last is a hazard in
`PROJECT.json` with its line, and the run to repeat is `DownloadQueue.cfg` with the one change:

| change | what it allows | breaks |
|---|---|---|
| `detach` | `removeSource` of a user that is downloading | `DroppedIsDisconnected`: the loop over `getNext` also drops the running item, and then nobody disconnects it |
| `hurry` | a new item, or a moved one, at the path or temporary file of a download that has not ended | `DoneIsOnDisk`: the old download reports to the new item |
| `recheckRaces` | the queue changes while a file is rechecked | `RunningMatches` |
| `crash` | a restart from an old `Queue.xml` | `DoneIsOnDisk`, `FinishedIsWhole` |
| `diskFull` | the output buffer is counted and lost | `DoneIsOnDisk`, `FinishedIsWhole` |
| `overwrite` | a move from or to a path at which there is a file | `DoneIsOnDisk`, `FinishedIsWhole`: the next download writes to another file than the last one did |
| `FileName <- OwnName` | a move that renames | `DoneIsOnDisk`, `FinishedIsWhole`: `putDownload` forgets the temporary name other downloads write to |
| `KeepFinished = TRUE` | finished items stay, and are rechecked | `NothingUnlisted` |

`detach`, `hurry` and `recheckRaces` break more than the row names (with `hurry` every
property but `OneItemPerFile` fails, `TypeOK` included); the theorems of section 4 say that without the
changes of this table nothing fails, for any number of targets, files, users and items.

Without `crash` a restart may still read an older `Queue.xml` (`saveQueue` runs at most every ten seconds), but
one that misses no removal, no file queued since for the same target, no reset of what is done, and no end of an
item, and that names no temporary file which the item has let go of. What is at the targets is no condition of it. `Wanted` bounds which files are queued for which
targets: in the run one file for the first target, from which it is moved to the other; the second file of the
run is what somebody else has put there.

`FinishedIsWhole` is of steps, the last segment's (`Finishes`) and the Rechecker's verdict that a file is whole
(`Restores`): what is at the target after it is whole and is the file that was queued. What users and other programs do with it later is
theirs. A file above `MOVER_LIMIT` is moved by a thread of its own: `MovesTo` is one step all the same, so what
the queue does while that move is under way is not modelled.

`Segments` is of the build in which `done` is a `std::set`. With clang (`QueueItem.h:110`, `QueueItem.cpp:181`) it is a vector in the
order of arrival, which the same loop consolidates as if it were sorted; that build is not modelled.

### 2.5 DownloadManager

A peer has one download connection at a time, so connections are known by their peer. Its thread is at
`pc[u]`: each call of a manager takes that manager's mutex and lets it go, so a handler
is as many steps as it makes calls: `Check` (slots), `Get` (the queue), `Push` or `Idle` (the list);
and at the end `Over` (out of the list), `Unsource` (a peer that does not have the file is
no source of it any more), `Put` (the report), `Wake` (connections for the other
sources, one by one), `GoOn`, `GiveUp`. `next[u]` is what the handler does after the report.
A failure is two calls, ConnectionManager's (`Failed`) and this component's (`onFailed`). A `revive()`
waits in the socket's task queue (`calls`). `TestSur` are files that are a client test: a refusal
of one takes another way through the code, see section 5. A speed limit (`MaxSpeed`) may be found exceeded at any
time that something is downloaded; the speed itself is not modelled. `WorkTaken` allows for a
connection that the speed turns away again and again.

### 2.6 BufferedSocket, ThrottleManager, SocketLife

A socket's thread is at `pc[s]`, in its event loop or in the function of a task; tasks are
the queue. A buffer is empty or not. `fire` appends to `heard` what the owner hears, runs of
equal calls counted once, so that order and repetition of `Connected` and `Failed` are visible.
A peer's socket is given back inside the call of `Failed` (`fail`), a hub's at any time (`Released`).
The throttle's two mutexes are counted as the timer's thread holds them; a waiter
chooses one (`waitToken_Chooses`) and locks it in a later step. `shutdown()` runs on the main thread
after the timer's has ended and unlocks a mutex it does not own: undefined, so the mutex may be
released or stay held, and a thread that sleeps on one that stays held is `Stuck`. `HungUp` excepts that
case, and `SocketsEnd` a thread that the throttle still holds when the timer has stopped: they say of every other
socket that it ends, and `ShutdownLetsGo`, that those end too, fails (section 5). A peer's socket can still be
made while the program shuts down, by the servers until `disconnectAll()` and by a hub's request after it (`getSocket`).

`SocketLife` has two variables, the phase of each socket and what its listener was told: `Connecting`,
`Connected`, `Failed`, and `Line` for every call of a connection at work. The
refinement mapping is the instance `Life` in `BufferedSocket`: "released" once the owner has called
`putSocket()`, "gone" when the thread has deleted the object.

### 2.7 Hubs

A hub has the state of its `Client`, its socket (`none`, `new`, `up`, `failing`, `down`), its map of users,
what `clearUsers()` swapped out and has still to put offline, and the call to the
UsersManager its thread is in (`op`): `putOnline()` and `putOffline()` are three steps each, the list under the
lock, the flag, the event. `deciding` is the timer between the condition of `on(Second)` and its
`connect()`. A `Client` that `connect()` reaches when it is being deleted is `crashed` (section 5); what
it does then is not defined, and the model leaves it alone.

## 3. The runs

Every property of a passing run has a mutant of the code that breaks it under the
same configuration.

| run | shows | instance |
|---|---|---|
| `UploadSlots` | `TypeOK`; `SlotAccounting`, `OneSlotEach`, `UploadMatchesState`, `WaitingConsistent` | 2 peers with one connection each, 1 full and 1 mini slot, auto kick, one peer leaves and comes back, one lost update of a counter (4,669,288 states) |
| `UploadServed` | `WaitingServed` (liveness) | 2 peers, 1 full slot, a reservation for one, nobody leaves |
| `ConnQueue` | `TypeOK`; `ActiveIffConnected`, `AcceptedHungUp` | 1 peer, 2 connections, both protocols, incoming and outgoing, forced attempts, shutdown |
| `ConnLive` | `AskedAgain` (liveness) | 2 peers, 1 incoming connection, time-out 2 and retry 3 ticks |
| `ConnShutdownLeak` | violation of `ShutdownEnds` | 1 outgoing NMDC connection, a blocked address |
| `PeerHandshake` | `TypeOK`; `RolesFit`; `HandshakeEnds` (liveness) | 2 clients, both protocols, 2 numbers, 2 rounds |
| `QueueItem` | `TypeOK`; `NoByteTwice`, `DoneIsStored`; `FetchedSpec` (refinement of `FetchedFile`); `GetsFinished` (liveness) | 7 bytes, blocks of 2, 2 connections |
| `DownloadQueue` | `TypeOK`; `NothingUnlisted`, `OneItemPerFile`, `RunningMatches`, `DoneIsOnDisk`, `DroppedIsDisconnected`; `FinishedIsWhole` (action property) | 2 targets, 1 file that is queued and one that is there, 2 users, 2 items, 2 blocks (635,647 states) |
| `DownloadManager` | `TypeOK`; `DownloadsAlive`, `RunningIsReported`, `IdleOrBusy`; `WorkTaken` (liveness) | 2 peers, one of them in 2 hubs; a shared file of lowest and one peer's file of highest priority; 1 slot and a speed limit |
| `Sockets` | `TypeOK`; `WriteNotLost`; `LifeSpec` (refinement of `SocketLife`); `HungUp`, `SocketsEnd`, `WaitersGo` (liveness) | 1 socket, of a peer or of a hub, 2 tasks before the owner holds back, the whole shutdown |
| `Hubs` | `TypeOK`; `ListsAgree`, `GoneIsOffline`; `Reconnects` (liveness) | an NMDC and an ADC hub, 1 user |
| `OnlineRace` | violation of `ListedIsOnline` | as `Hubs` |

Why the bounds are enough for the cases that matter:

- *Uploads.* Two peers and one slot of each kind give every competition there is: one holds
  what the other wants, one waits while the other is notified, both run their requests at the same
  time. A third peer adds length to the queue but no new relation (the theorems of section 4
  cover any number).
- *Connections.* What can go wrong with an item involves its peer and two
  connections; the two-peer run is for the scan of `Second`, which is shared. `RetryTicks` is
  larger than the number of peers, as 60 s is for fewer than 60 waiting peers; with more peers than
  ticks `AskedAgain` fails, and the code starves them too.
- *Handshake.* Two numbers give equal, lower and higher; two rounds let an item
  change between connections.
- *Segments.* Seven bytes in blocks of two have a short last block, gaps of one
  and several blocks and every partial block; the initial states include a file
  stopped at any byte.
- *Queue.* Two users per file give parallel downloads, two targets give moves, two
  addresses give an item that replaces a deleted one, two files a target that holds the wrong one. `FileName <- SameName`,
  `Wanted` and two blocks are limits, named above.
- *DownloadManager.* Two peers that share a file give the races for it, one peer's second hub the only
  case in which `checkIdle` wakes a connection, one slot the refusals, and the two
  extreme priorities both exceptions of `startDownload`.
- *Sockets.* Sockets share nothing but the throttle, whose waiters do not see each other; the theorems
  of section 4 are for any number. `MaxTasks` lets one task wait behind another; tasks that the thread or
  the shutdown adds are not bounded by it.
- *Hubs.* The one user is `getMe()`, whom every hub tells of, and so the one the hubs race for; two
  hubs are the least with a race. The theorems are for any number of both.

Deadlock is checked except in the run of `DownloadQueue`: once every file is downloaded
and the queue saved the system may rest. In `BufferedSocket` and `Hubs` the states in which the program is over,
or in which its behaviour is undefined, are named (`Done`, `Crashed`) and nothing else may stop. `SYMMETRY` is used only where no
liveness property is checked and the permuted values are interchangeable in Init, Next and the
properties.

### 3.1 Fairness

- `UploadManager`: a thread inside a handler goes on (WF of `EndCommit`, `ReadCounters`,
  `RemoveConnection`): it waits for nothing but a mutex. A connection told to disconnect fails
  (SF: its thread reads the closed socket in each of its rounds). The timer thread runs for ever,
  and gets the mutex although others take it again and again (SF of `Second`, `MinuteBegin`;
  POSIX mutexes promise no more than that somebody gets it, so this assumes the scheduler does not
  always prefer others in 1 s intervals). No peer is assumed to answer, connect, or end.
- `ConnectionManager`: the timer fires, the queue asks for what it wants, a
  thread inside a connect goes on, a socket told to disconnect fails, the steps of `shutdown` are
  taken. Nothing is assumed of a peer.
- `PeerHandshake`: what was sent is delivered or the connection breaks; `Minute` closes
  a connection that stayed without a role.
- `QueueItem`: `GetsFinished` assumes that sources send and free connections ask, and only
  of behaviours in which failures stop.

- `DownloadManager`: a thread inside a handler goes on; the timer drops items nothing is queued for and
  closes silent connections (WF of `Second`, `Minute`); a socket told to disconnect fails; a peer
  that is tried again and again is connected to at last (SF of `addConnection`: each attempt may
  fail, and the item may be dropped in between). Nothing is assumed of what a peer sends.
- `BufferedSocket`: a task that waits is taken, connecting and a look at the socket have time-outs
  (WF of `Takes_Task`, `checkSocket`, `Looks`), the timer ticks until it is stopped (WF of `on_Second`). The
  loops look at `disconnecting` in each round, but between two rounds the thread may wait for a token (SF of
  `Stops`), and a mutex that is let go of stays free for a second (SF of `waitToken`).
- `Hubs`: a call that has begun goes on (WF of `Works`); the timer gets its turn between the
  calls (SF of `on_Second`, `on_Second_Connects`). No hub is assumed to answer.

`DownloadQueue` and the violation runs of safety properties use no fairness.

## 4. The proofs

Checked by TLAPS for every value of the constants that satisfies the module's assumption
(for uploads and connections: finite sets of peers and connections, subsets where a constant is one, and nothing about sizes).

| theorem | module | argument |
|---|---|---|
| `TypeCorrect` | `UploadManagerProofs` | `TypeOK` is inductive; `Without` on a sequence keeps its type (`WithoutLemma`) |
| `OneSlotEachHolds` | | inductive by itself: only `EndCommit` and `RemoveConnection` touch the flags (`SlotFrame`), and both change both |
| `SlotAccountingHolds` | | each of the same two steps adds or removes one connection, and one from the counter or from what it `missed`; cardinalities from `FiniteSetTheorems` |
| `WaitingConsistentHolds` | | inductive with `TypeOK`: the queue has no duplicates because only `Reject` appends, after a test; popping a prefix and removing one keep the set equal to the file map |
| `UploadMatchesStateHolds` | | with `UploadInv`: while the counters are updated (`pc = "grant"`) the Upload is there, and a connection begins at `STATE_GET`; the timer and the hubs touch neither (`UploadFrame`) |
| `TypeCorrect` | `ConnectionManagerProofs` | from the same invariant `IInv` |
| `ActiveIffConnectedHolds` | | see below |
| `AcceptedHungUpHolds` | | with `AcceptInv`: an accepted connection has its socket from the beginning, so that `disconnectAll()` reaches it, and none is accepted afterwards, for the servers are joined first |
| `RolesFitHolds`, `TypeOKHolds` | `PeerHandshakeProofs` | see below |
| `TypeOKHolds`, `NoByteTwiceHolds`, `DoneIsStoredHolds`, `NothingForgottenHolds` | `QueueItemProofs` | `Inv`: see below. `SegmentedNext` chooses a least free start and a greatest free length; both exist (well-foundedness of `<`), so what it returns is `Free`, which no busy segment overlaps; the other branch gives nothing while anything is busy |
| `FetchedHolds` | | every step of `QueueItem` maps to a step of `FetchedFile` or a stutter: see below |
| `OneItemPerFileHolds` | `DownloadQueueProofs` | see below; for every subset of `Operations`, so also with the steps the run leaves out |
| `TypeOKHolds`, `RunningMatchesHolds`, `DroppedIsDisconnectedHolds`, `NothingUnlistedHolds` | | `Inv`, assuming `Orderly`: see below |
| `OnlyRecheckDangles`, `UserQueueIsCacheHolds` | | `Inv`, assuming `Orderly`, and the second one that nothing is rechecked: see below |
| `DoneIsOnDiskHolds`, `FinishedIsWholeHolds` | | `Inv` and `Files`, assuming `Orderly` and `Intact`: see below |
| `TypeCorrect` | `DownloadManagerProofs` | `TypeOK` and `Carries` (a thread that has a Download to list or report has one) |
| `DownloadsAliveHolds`, `RunningIsReportedHolds`, `IdleOrBusyHolds` | | `RecordInv`, for `TestSur = {}`: see below |
| `TypeCorrect`, `OneGateShutHolds`, `WriteNotLostHolds` | `BufferedSocketProofs` | the invariant of the gates is the throttle's alone, the rest is said of each socket (`Good`), whose steps leave the others alone (`SocketStepOthers`) |
| `LifeHolds` | | every step of a socket maps to a step of `SocketLife` or a stutter (`SocketStepLife`): see below |
| `TypeCorrect`, `ListsAgreeHolds`, `GoneIsOfflineHolds` | `HubsProofs` | `IInv`: see below |

`ActiveIffConnected` is not inductive. `failed()` releases the item of `user[c]`,
so a connection that is associated must have a user and a role, and a
connection that is not associated must have no claim on an item; and a handshake
step of a connection that already owns an item would take a second. The invariant `IInv`
adds `Identified`: who is past the step that identifies the peer has one, only associated
connections are in phase `added`, and those have a role. `Second`, the one
large action, neither makes nor ends an `ACTIVE` item (`SecondStep`), so it falls
under the frame lemma (`Frame`) with all that leaves associations alone; what is left
are the steps that add (`AddDownloadStep`, `AddUploadStep`) and release (`ReleaseStep`).
`OneItemPerFile` says that two targets never have items of the same file, from which it
follows that they never share an item, so that `FileQueue::remove` (which finds the
target of an item) takes out the right one (`Removing`). `QInv` adds what carries this through a
restart and a lookup: `Queue.xml` holds each file once (`SavedOnce`: `Save` writes what
the queue has, `SaveStep`, and `Restart` gives each entry an item of its own, `RestartStep`), and the
paths by which downloads and the Rechecker find their item are targets (`Placed`, `Aimed`). All
steps but `Add`, `Move`, the removals, `Save` and `Restart` change other fields of an item (`ItemChanged`).
What the segments become in them is irrelevant here, and so is which operations there are.

*What `addSegment` computes.* It is a fold over the segments in their order. What it returns for every set is induction over data,
and the library's induction theorems take an operator that the installed provers cannot instantiate; but a non-empty set of
numbers has a least member (`WFMin`). So every fact about the fold is proved by a least counterexample: of
the sets of segments for which it fails take one with the fewest, take its latest segment out, and unfold once
(`RecExists`, `RecAgrees`, `ConsolidationUnfolds`, `AllListed`, `AllFolded`, `NoneLost`). What is left after `addSegment` is finite, covers
nothing new (`Added`) and is `Separate`, no two segments touching (`AddedSeparate`); and it still has every
byte that was done unless the new segment lies inside one that is done, which the loop would cut short (`NoneLost`; a new
segment that holds an old one may itself be cut short, so that `Report` may count less than arrived). `Inv` excludes that case: the first block of what a connection
was given holds a byte that is not done (`Works`, from `SegmentedIsNew` and `SingleIsNew`), and as no other connection
can be given it, it stays so until the connection reports. The rest of `Inv` is that what is done is `Separate` and stored, and that
what has arrived is stored.

`QueueItem` implements `FetchedFile`. `Start` is `Claim` by `NextIsFree` and `NextIsNew`, `Finish` and `Fail` are `Report` by
`Added` and `Inv`; and `isFinished()` is true exactly when every byte is done (`CompleteIs`): the segment that holds byte 0 either ends with the
file, or the byte after it is not done because segments do not touch.

*The queue without its races.* `Orderly` excludes `hurry`, `detach`, `recheckRaces`, and `recheck` where
`KeepFinished`. Each is necessary: TLC finds the theorems' properties violated where one is let in (section 2.4). `Inv`
is `QInv`, the types (`Typed`, which needs that segments stay in the file) and `Structure`:

- `Runs`, `Known`: whom `running` names downloads for the target where that item is queued, is in the item's downloads, and
  a download whose target is queued is of the item that is queued there. Without the latter an old
  download would report to a new item, which is what `hurry` does.
- `Told`: who is told to end has a download, and a download that belongs to no item is told to.
- `Listed`: a live item's downloads are among its sources and name it back, a finished one has none, and
  `userQueue` has just the sources of the unfinished ones.
- `Fetching`, `Disjoint`: a running download's segment holds nothing that is done, and no two of one item overlap; so
  the blocks that arrive extend what is done without the case that forgets.
- `Rechecked`: the item the Rechecker is at is not running, is not finished and, once what was done is cleared, has nothing done.

What the segments become is not proved again: through `Item`, an instance of `QueueItemProofs`, its lemmas about `Segments`
are cited for the segments of the queue's items. They are about sets of segments, not about the variables and
constants that the instance fills in.

*The cache.* `UserQueueIsCache` is what `QueueManager.h:255` says of `userQueue`, and the model violates it (section 5). The theorems say
that the verdict of the Rechecker is the only step that can: `Listed` makes the lists of an item the ones of its
sources, so that `remove()` and `putDownload()` take it out of all of them before it is deleted.

*The files.* `Intact` excludes `crash`, `diskFull`, `overwrite`, and `move` between targets of different
file names (each of them violates both properties, section 2.4). Nothing is assumed of what `add()` and `loadQueue()` find at a target:
a file may be there when an item is queued, whatever it holds, and `FinishedIsWhole` says that it
has become the right one when the item is reported as finished. `There` is what is there of an item where it is
written to: the blocks of the file at its target that are its own, if there is a file, and otherwise the blocks of its temporary
file. `Files` adds to `Inv` that a name an item or `Queue.xml` remembers is the one it would be given anew, and
that none is remembered of an item that is written into its target (`Named`); that a download writes to the file of an item if and only if
the item is the one it runs, and writes what that item is (`OwnFile`, with `HomeAt` for where that is); that what arrived is
`There` (`Opened`); that what is done is, and that nothing is done of an item that is downloaded while there is no file of it (`Stored`); and that the Rechecker
looks only at temporary files, and what it has read and found good is in the one of the item it judges (`ReadAgain`). Each
was checked by TLC as an invariant first. `FinishedIsWhole` follows: when the last segment ends, what was done and the segment are `There`, they are all
blocks, and either the temporary file is moved to the target or the file at the target is the one that was written
to (`CompletedFiles`); the Rechecker's verdict moves a whole temporary file (`MoveStuckFiles`). `DoneIsOnDisk` is not inductive without `OwnFile`: a download that
writes to the file of an item it does not run could move or delete it. `OneItemPerFile` is needed here too, for two items of one file
and file name would share it. TLC refuted earlier forms of `Restart`: one compared its
older `Queue.xml` with what is done at a target, and not with which file is queued there, so that
a removal was missed after all.

`RolesFit`. Over NMDC a side settles its role when it hears the other's `$Direction`, and by then
the other may have settled its own. `Nmdc(s)` says what a `$Direction` on its way means (`Told`): it is
the only one, its number is the sender's, and its role is still what the sender wants or, if the
sender has settled, what it wanted of the two that it resolved against the present role of the one who has yet to
hear it. From this, when the second side settles, the two answers differ. Which other
messages are in the channels does not matter. Over ADC `AdcInv` says that the item of the
side that asked is there or its token is delayed, so that this side never uploads.
`TypeOK` there bounds the channels by five messages. `Flow` says that what is on its
way to a side is in the order in which a client speaks, without repetition, and no further than the phase of the
one that said it has come; there are five ranks in that order, hence five messages.

`RecordInv` says for each connection what `pc` allows of the three records: listed exactly
between `Push` and `Over`, running from `Get` to `Put` (or dropped by the queue), idle
only when neither. A step of one connection leaves the other connections as they were, except that its
`Put` or a removal may take their file from them (`Spared`); so each action is
checked against its own connection and the frame lemma does the rest.

`BufferedSocket` implements `SocketLife`. A thread that connects has not called yet and its owner has
not been told of anything (`InOrder`), a socket in STARTING or FAILED makes no call of the kinds that are
over (`Owned`, `InOrder`), and `fire` calls nobody after the release. `OneSocket` is the abstract step of one
socket, with the others unchanged.

`IInv` of `Hubs`: what is listed for a hub is what it owns (its map, what is being cleared, and the one its thread
is in the middle of), the user of a call under way is where that call needs it (`Orderly`), and who is ONLINE or
was last announced is listed or has a thread on its way to say otherwise (`Accounted`). `GoneIsOffline` follows when no
thread is in the list with the user. `ListedIsOnline`, its converse, is false (section 5).

The assumptions bound no set, so no bound of section 3 matters to these theorems. The three of
`DownloadManagerProofs` that say so assume `TestSur = {}`. `SlotAccountingHolds` assumes nothing of how often updates are lost.

Every invariant, action property and refinement that a run checks is so stated by a theorem. Without proof,
only model-checked, are the liveness properties: `WaitingServed`, `AskedAgain`, `HandshakeEnds`,
`GetsFinished`, `WorkTaken`, `HungUp`, `SocketsEnd`, `WaitersGo`, `Reconnects`; fairness and `ENABLED` are outside what the prover
handles. `DownloadQueue` with its races, and without `Intact`, is for TLC, which shows what they break.

## 5. What the models found

Two runs end with a counterexample, listed with their lines under "findings":

1. `ConnShutdownLeak`: a connect request to a blocked address registers a connection object and
   returns (`CM:336`); `shutdown` then waits for it for ever.
2. `OnlineRace`: `putOffline()` counts the hubs of a user under the lock, clears the flag and fires
   the event after it (`UserManager.h:193`); a `putOnline()` by another hub in between is overtaken, and the user
   stays listed, flagged and reported as offline.

More disagreements are reproduced by changing a constant or adding a property of the module to a run, besides
the members of `Operations` in section 2.4; the hazards in `PROJECT.json` name the lines.

| take | change | fails |
|---|---|---|
| `UploadSlots` | the property `FreeSlotsCounted` | `removeConnection` counts slots down without the lock (`UM:493`): an update is lost, and from then on the number of free slots is wrong |
| `ConnLive` | `Outgoing = TRUE`, `MayShutdown = TRUE`, the property `ShutdownEnds` | as in `ConnShutdownLeak`; and so does a connection that gets its socket after `disconnectAll()` (`CM:823`), which nobody tells to end |
| `PeerHandshake` | `Protocols <- Adc`, the property `RolesComplementary` | two clients that have queued each other both download (`CM:716`) and the connection idles |
| `DownloadQueue` | one target, item and user, `restart` and `recheck`, the property `UserQueueIsCache` | a file that is whole on disk and not in the queue's count is rechecked: `moveStuckFile()` takes the item out of its users' lists if it is finished (`QM:1082`), which it is not since the Rechecker cleared its segments, and deletes it; the lists hold a pointer to a deleted item |
| `DownloadManager` | `TestSur <- SecondFile`, `Users <- OneUser`, `HubsOf <- OneHub`, `Slots = 0`, `Offers <- Everybody` | `DownloadsAlive`: a tested peer that refuses is given its next file and then dropped, and that Download is never reported (`DM:577`) |
| `Sockets` | the property `ShutdownLetsGo` | `shutdown()` unlocks a mutex of the ended timer's thread (`ThrottleManager.cpp:193`); where that fails a waiter sleeps for ever |

Three that are in the models and no property forbids: the timer may connect a `Client` that is
being deleted (`Client.cpp:274`, `crashed` in `Hubs`); a reconnect that replaces a socket before its
failure was heard keeps the users of the old session (`Client.cpp:140`); and a DISCONNECT that
reaches a socket before its CONNECT was taken is dropped (`BufferedSocket.cpp:485`). Two in the code that the models
leave out: `CommandQueue.cpp:39` erases from the queue inside a loop that then advances the iterator, and
`UserManager.h:187` searches and changes `onlineHubUsers` after the lock was let go.

## 6. What is left out

- Text: the protocols' commands, XML, file names, messages. Their contents are
  choices between the cases the handlers distinguish.
- `ConnectionManager`: flood counter, server sockets, TLS beyond "may refuse".
- `QueueManager`: file lists and partial lists, directory downloads, automatic
  search, the `FileMover` thread, SFV, and what other programs do to the files after the beginning. The priority of an item is "paused or not" in `DownloadQueue` and
  three classes in `DownloadManager`; the order in which a user's items of a class are chosen is left open.
- `UploadManager`: file lists and trees differ only in which slots they may use.
- `DownloadManager`: the speeds themselves and the slow-source rule's numbers (that a source may be dropped as slow is
  `removeSource`), `$ListLen`, the filter of a transfer.
- `BufferedSocket`: bytes, line parsing, compression, TLS, proxies. `ThrottleManager`: how many bytes
  a token is worth.
- `Hubs`: chat, searches, connection requests, user commands, the ADC hub's own pseudo-user (which `clearUsers()` skips,
  `AdcHub.cpp:133`), passwords as a state of their own, the delay between reconnects as a number. A user of an NMDC hub is put online only if its CID
  is not zero (`NmdcHub.cpp:97`), which a Tiger hash can be taken never to be; a Client that is shut down finishes the call it is in first (`shutdown`).

Not modelled, and why:

- *Mutexes across managers.* A model whose handlers are single steps cannot deadlock on them. What is needed is the
  graph of which mutex is held across which call; the known cycle is `CM:172` with `QueueManager`'s removals.
  It is the next thing to build, from the call sites and not from these models.
- *HashManager, ShareManager.* Planned. Their effect on the modelled parts is there: trees vanish
  (`TreeVanishes`), files are shared or not.
- *CommandQueue, TimerManager.* Ticks are actions; that the timer's thread ends before the managers is in
  `BufferedSocket`. A delayed command is a search or a message, which nothing modelled depends on.
- The user interface, plugins, vendored code, data tables (two thirds of the lines) and the parsers hold no state that the
  modelled parts share; their calls are the environment's actions.

## 7. The plan

Done: 1 `UploadManager` with proofs; 2 `ConnectionManager` with proofs,
`PeerHandshake` with proofs; 3 `Segments`, `QueueItem`, `DownloadQueue` with proofs; 4 `DownloadManager` with proofs; 5 `UsersManager` with the hubs, with proofs; 6 `BufferedSocket` with
`ThrottleManager`, as a refinement of `SocketLife`, with proofs.

Next, in this order:

7. The mutexes of the managers and the callbacks taken under them, as one
   composition that looks for a deadlock.
8. `HashManager`: the index against the data file over a crash; `ShareManager` refresh.
9. `QueueManager`: directory downloads, the `FileMover`, partial lists.
10. An abstract specification of the slots: a resource with acquire and release is not what
    `UploadManager` implements (two requests may take the last one, `UM:263`), so it has to say by how much they may be overdrawn.

Proofs to come: action properties of `DownloadManager` and `ConnectionManager` from their invariants, and what
still holds of `DownloadManager` where there are TestSUR downloads.
