---------------------------- MODULE UploadManager ----------------------------
(***************************************************************************)
(* dcpp/UploadManager: the slots a client gives to the peers that download *)
(* from it, and the queue of the peers that wait for one.                  *)
(*                                                                         *)
(* Every upload connection is served by its own socket thread, the timer   *)
(* thread runs on(Second) and on(Minute), hub threads report that a user   *)
(* left, the user interface reserves slots.  They share this component's   *)
(* state under the mutex cs, but prepareFile() releases cs between its     *)
(* check and its commit, and removeConnection() takes no lock at all.      *)
(***************************************************************************)
EXTENDS Integers, FiniteSets, Sequences

CONSTANTS
    Users,           \* the peers
    Conns,           \* upload connections (UserConnection objects)
    UserOf,          \* the peer at the other end of a connection
    Slots,           \* SETTING(SLOTS)
    ExtraSlots,      \* the 3 of getFreeExtraSlots()
    Favs,            \* the peers FavoriteManager::hasSlot() grants a slot
    KickExempt,      \* favourites the AUTO_KICK_NO_FAVS setting protects
    Leavers,         \* bound: the peers that may go offline
    Returners,       \* bound: the peers that may come back
    Grantees,        \* bound: the peers slots are reserved for
    Ops,             \* the peers whose connections carry FLAG_OP
    AutoSlots,       \* SETTING(MIN_UPLOAD_SPEED) is not 0
    AutoKick,        \* SETTING(AUTO_KICK)
    MaxMissed        \* bound: how far off lost updates may leave a counter

ASSUME UploadAssumption ==
    /\ IsFiniteSet(Users) /\ IsFiniteSet(Conns)
    /\ UserOf \in [Conns -> Users]
    /\ Slots \in Nat /\ ExtraSlots \in Nat
    /\ Leavers \subseteq Users /\ Returners \subseteq Users /\ Grantees \subseteq Users
    /\ Favs \subseteq Users /\ KickExempt \subseteq Users /\ Ops \subseteq Users
    /\ {AutoSlots, AutoKick} \subseteq BOOLEAN
    /\ MaxMissed \in Nat
    /\ "timer" \notin Conns

VARIABLES
    running,         \* full slots in use
    extra,           \* mini slots in use
    grantRecent,     \* lastGrant is less than 30 s old
    reservedSlots,
    connectingUsers, \* notified peers that have not asked for a file yet
    minutes,         \* on(Minute) calls a connecting peer has survived
    waitingUsers,    \* FIFO of the peers refused a slot
    waitingFiles,    \* the keys of the map of the files they asked for
    uploads,         \* the connections that own an Upload
    pendingKick,     \* the uploads with FLAG_PENDING_KICK
    lastFreeSlots,   \* the free slots announced at the last minute
    cs               \* who holds the mutex: {} or a singleton
VARIABLES
    state,           \* UserConnection::state as far as uploads go
    hasSlot,         \* connections with FLAG_HASSLOT
    hasExtra,        \* connections with FLAG_HASEXTRASLOT
    pc,              \* where the connection's thread is in a handler
    choice,          \* what prepareFile() decided for the request
    loaded,          \* the counters as the thread last read them
    missed,          \* history: what the counters lost to stale stores
    closing          \* connections told to disconnect()
VARIABLES
    online,          \* the peers with User::ONLINE
    leaving,         \* UserDisconnected notifications not delivered yet
    timerPc,         \* where the timer thread is in a handler
    todo,            \* connecting peers the Minute loop has not seen
    kicks            \* the peers the Minute handler will disconnect

slotVars  == <<running, extra, missed, grantRecent, reservedSlots, hasSlot, hasExtra>>
queueVars == <<connectingUsers, minutes, waitingUsers, waitingFiles>>
xferVars  == <<uploads, pendingKick, state>>
connVars  == <<pc, choice, loaded, closing>>
timerVars == <<timerPc, todo, kicks, lastFreeSlots>>
userVars  == <<online, leaving>>
vars == <<slotVars, queueVars, xferVars, connVars, timerVars, userVars, cs>>

-----------------------------------------------------------------------------
States  == {"GET", "SEND", "RUNNING"}
Pcs     == {"absent", "idle", "free", "auto", "open", "grant", "remove", "removed"}
Choices == {"none", "keep", "reserved", "free", "auto", "mini"}

TypeOK ==
    /\ running \in Int /\ extra \in Int /\ lastFreeSlots \in Int
    /\ grantRecent \in BOOLEAN
    /\ reservedSlots \subseteq Users
    /\ connectingUsers \subseteq Users
    /\ minutes \in [Users -> 0..2]
    /\ waitingUsers \in Seq(Users)
    /\ waitingFiles \subseteq Users
    /\ uploads \subseteq Conns /\ pendingKick \subseteq uploads
    /\ cs \subseteq Conns \cup {"timer"}
    /\ state \in [Conns -> States]
    /\ hasSlot \subseteq Conns /\ hasExtra \subseteq Conns
    /\ pc \in [Conns -> Pcs]
    /\ choice \in [Conns -> Choices]
    /\ loaded \in [Conns -> [run : Int, ext : Int]]
    /\ missed \in [run : Int, ext : Int]
    /\ closing \subseteq Conns
    /\ online \subseteq Users /\ leaving \subseteq Users
    /\ timerPc \in {"idle", "expire", "kick"}
    /\ todo \subseteq Users /\ kicks \subseteq Users

Init ==
    /\ running = 0 /\ extra = 0 /\ missed = [run |-> 0, ext |-> 0]
    /\ grantRecent = FALSE
    /\ reservedSlots = {} /\ connectingUsers = {}
    /\ minutes = [u \in Users |-> 0]
    /\ waitingUsers = <<>> /\ waitingFiles = {}
    /\ uploads = {} /\ pendingKick = {}
    /\ lastFreeSlots = -1 /\ cs = {}
    /\ state = [c \in Conns |-> "GET"]
    /\ hasSlot = {} /\ hasExtra = {}
    /\ pc = [c \in Conns |-> "absent"]
    /\ choice = [c \in Conns |-> "none"]
    /\ loaded = [c \in Conns |-> [run |-> 0, ext |-> 0]]
    /\ closing = {}
    /\ online = Users /\ leaving = {}
    /\ timerPc = "idle" /\ todo = {} /\ kicks = {}

-----------------------------------------------------------------------------
(* Helpers.                                                                *)

getFreeSlots == IF Slots > running THEN Slots - running ELSE 0

getFreeExtraSlots == IF ExtraSlots > extra THEN ExtraSlots - extra ELSE 0

\* running and extra are plain ints: an update of thread c starts from the
\* value it read, and what other threads counted since then is lost (until
\* the counters are as far off as the bound allows).
Seen(c) ==
    LET now  == [run |-> running, ext |-> extra]
        off  == <<missed.run + running - loaded[c].run, missed.ext + extra - loaded[c].ext>>
        Abs(n) == IF n < 0 THEN -n ELSE n
    IN  IF Abs(off[1]) + Abs(off[2]) <= MaxMissed THEN loaded[c] ELSE now

\* Thread c adds dr to running and de to extra, where it changes them.
Count(c, dr, de) ==
    /\ running' = IF dr = 0 THEN running ELSE Seen(c).run + dr
    /\ extra' = IF de = 0 THEN extra ELSE Seen(c).ext + de
    /\ missed' = [run |-> missed.run + running + dr - running',
                  ext |-> missed.ext + extra + de - extra']

Step(c, from, to) == pc[c] = from /\ pc' = [pc EXCEPT ![c] = to]

IsWaiting(u) == \E i \in DOMAIN waitingUsers : waitingUsers[i] = u

Without(s, u) ==
    LET i == CHOOSE i \in DOMAIN s : s[i] = u
    IN  [j \in 1..(Len(s) - 1) |-> IF j < i THEN s[j] ELSE s[j + 1]]

\* Mutant: the files are forgotten to be erased.
clearUserFiles_KeepsFiles(u) ==
    /\ waitingUsers' = IF IsWaiting(u) THEN Without(waitingUsers, u) ELSE waitingUsers
    /\ UNCHANGED waitingFiles

\* Run when a user got a slot, gave up or went offline.
clearUserFiles(u) ==
    IF IsWaiting(u)
    THEN /\ waitingUsers' = Without(waitingUsers, u)
         /\ waitingFiles' = waitingFiles \ {u}
    ELSE UNCHANGED <<waitingUsers, waitingFiles>>

-----------------------------------------------------------------------------
(* A connection's thread.                                                  *)

\* ConnectionManager::addUploadConnection() hands over a new connection.
AddConnection(c) ==
    /\ Step(c, "absent", "idle")
    /\ UNCHANGED <<slotVars, queueVars, xferVars, choice, loaded,
                   closing, timerVars, userVars, cs>>

\* A $Get or GET that passes the checks on its arguments.  A connection
\* that has a full slot keeps it; the others look for a reserved one first.
Get(c) ==
    /\ pc[c] = "idle" /\ state[c] = "GET" /\ cs = {}
    /\ IF c \in hasSlot
       THEN /\ choice' = [choice EXCEPT ![c] = "keep"]
            /\ pc' = [pc EXCEPT ![c] = "open"]
       ELSE /\ choice' = [choice EXCEPT ![c] =
                   IF UserOf[c] \in reservedSlots \cup Favs THEN "reserved" ELSE "none"]
            /\ pc' = [pc EXCEPT ![c] = "free"]
    /\ UNCHANGED <<slotVars, queueVars, xferVars, loaded, closing, timerVars, userVars, cs>>

\* A free slot goes to anyone only while nobody waits for it, and otherwise
\* to a peer that was told to connect.
MayTakeFreeSlot(u) ==
    /\ getFreeSlots > 0
    /\ \/ waitingFiles = {} /\ connectingUsers = {}
       \/ u \in connectingUsers

CheckFree(c) ==
    /\ pc[c] = "free" /\ cs = {}
    /\ IF choice[c] = "reserved"
       THEN pc' = [pc EXCEPT ![c] = "open"] /\ UNCHANGED choice
       ELSE IF MayTakeFreeSlot(UserOf[c])
            THEN /\ pc' = [pc EXCEPT ![c] = "open"]
                 /\ choice' = [choice EXCEPT ![c] = "free"]
            ELSE pc' = [pc EXCEPT ![c] = "auto"] /\ UNCHANGED choice
    /\ UNCHANGED <<slotVars, queueVars, xferVars, loaded, closing, timerVars, userVars, cs>>

\* getAutoSlot() reads lastGrant without the lock; the upload speed is free.
AutoGrant(c) ==
    /\ Step(c, "auto", "open")
    /\ AutoSlots /\ ~grantRecent
    /\ choice' = [choice EXCEPT ![c] = "auto"]
    /\ UNCHANGED <<slotVars, queueVars, xferVars, loaded, closing, timerVars, userVars, cs>>

\* Small files, trees and lists may use a mini slot; whether this request
\* is one of them, from a client that supports them, is free.
MiniGrant(c) ==
    /\ Step(c, "auto", "open")
    /\ c \in hasExtra \/ UserOf[c] \in Ops \/ getFreeExtraSlots > 0
    /\ choice' = [choice EXCEPT ![c] = "mini"]
    /\ UNCHANGED <<slotVars, queueVars, xferVars, loaded, closing, timerVars, userVars, cs>>

\* addFailedUpload(), maxedOut() and disconnect().
Reject(c) ==
    LET u == UserOf[c] IN
    /\ Step(c, "auto", "idle") /\ cs = {}
    /\ waitingUsers' = IF IsWaiting(u) THEN waitingUsers ELSE Append(waitingUsers, u)
    /\ waitingFiles' = waitingFiles \cup {u}
    /\ closing' = closing \cup {c}
    /\ UNCHANGED <<slotVars, connectingUsers, minutes, xferVars, choice, loaded,
                   timerVars, userVars, cs>>

\* The file is opened without the lock; failure answers fileNotAvail().
OpenFails(c) ==
    /\ Step(c, "open", "idle")
    /\ choice' = [choice EXCEPT ![c] = "none"]
    /\ UNCHANGED <<slotVars, queueVars, xferVars, loaded, closing, timerVars, userVars, cs>>

\* The update of a counter starts by reading it.
Load(c) == loaded' = [loaded EXCEPT ![c] = [run |-> running, ext |-> extra]]

Unload(c) == loaded' = [loaded EXCEPT ![c] = [run |-> 0, ext |-> 0]]

\* The file is open: Lock l(cs), uploads.push_back(u).
BeginCommit(c) ==
    /\ Step(c, "open", "grant") /\ cs = {}
    /\ cs' = {c}
    /\ uploads' = uploads \cup {c}
    /\ IF c \in hasSlot THEN UNCHANGED loaded ELSE Load(c)
    /\ UNCHANGED <<slotVars, queueVars, pendingKick, state, choice, closing,
                   timerVars, userVars>>

\* The update of the counters and flags for the slot the user just gained.
GainMini(c) ==
    /\ hasExtra' = hasExtra \cup {c}
    /\ Count(c, 0, IF c \in hasExtra THEN 0 ELSE 1)
    /\ UNCHANGED hasSlot

\* Mutant: FLAG_HASEXTRASLOT is not unset when a mini slot becomes a full one.
GainFull_KeepsMini(c) ==
    /\ hasSlot' = hasSlot \cup {c}
    /\ Count(c, 1, 0)
    /\ UNCHANGED hasExtra

GainFull(c) ==
    /\ hasExtra' = hasExtra \ {c}
    /\ hasSlot' = hasSlot \cup {c}
    /\ Count(c, 1, IF c \in hasExtra THEN -1 ELSE 0)

\* A user that uses a full slot neither waits nor connects any more.
LeaveQueue(u) ==
    /\ clearUserFiles(u)
    /\ connectingUsers' = connectingUsers \ {u}
    /\ minutes' = [minutes EXCEPT ![u] = 0]

EndCommit(c) ==
    LET u == UserOf[c] IN
    /\ Step(c, "grant", "idle") /\ cs = {c}
    /\ cs' = {}
    /\ \E next \in {"SEND", "RUNNING"} : state' = [state EXCEPT ![c] = next]
    /\ IF c \in hasSlot
       THEN UNCHANGED <<slotVars, queueVars>>
       ELSE /\ grantRecent' = TRUE
            /\ IF choice[c] = "mini" THEN GainMini(c) ELSE GainFull(c)
            /\ reservedSlots' = reservedSlots \ {u}
            /\ IF choice[c] = "mini" THEN UNCHANGED queueVars ELSE LeaveQueue(u)
    /\ choice' = [choice EXCEPT ![c] = "none"] /\ Unload(c)
    /\ UNCHANGED <<uploads, pendingKick, closing, timerVars, userVars>>

\* NMDC: the peer confirms with $Send.
Send(c) ==
    /\ pc[c] = "idle" /\ state[c] = "SEND"
    /\ state' = [state EXCEPT ![c] = "RUNNING"]
    /\ UNCHANGED <<slotVars, queueVars, uploads, pendingKick, connVars, timerVars,
                   userVars, cs>>

\* The whole segment was sent: the upload goes, the slot stays.
TransmitDone(c) ==
    /\ pc[c] = "idle" /\ state[c] = "RUNNING" /\ cs = {}
    /\ state' = [state EXCEPT ![c] = "GET"]
    /\ uploads' = uploads \ {c} /\ pendingKick' = pendingKick \ {c}
    /\ UNCHANGED <<slotVars, queueVars, connVars, timerVars, userVars, cs>>

\* Mutant: the upload of a connection that failed is not removed.
Failed_KeepsUpload(c) ==
    /\ Step(c, "idle", "remove") /\ cs = {}
    /\ UNCHANGED <<slotVars, queueVars, xferVars, choice, loaded, closing,
                   timerVars, userVars, cs>>

\* on(Failed): the upload is removed under the lock ...
Failed(c) ==
    /\ Step(c, "idle", "remove") /\ cs = {}
    /\ uploads' = uploads \ {c} /\ pendingKick' = pendingKick \ {c}
    /\ UNCHANGED <<slotVars, queueVars, state, choice, loaded, closing,
                   timerVars, userVars, cs>>

\* ... and removeConnection() returns the slots without it.
ReadCounters(c) ==
    /\ Step(c, "remove", "removed")
    /\ IF c \in hasSlot \cup hasExtra THEN Load(c) ELSE UNCHANGED loaded
    /\ UNCHANGED <<slotVars, queueVars, xferVars, choice, closing, timerVars, userVars, cs>>

\* Mutant: only the full slot is counted down.
ReturnSlots_FullOnly(c) ==
    /\ Count(c, IF c \in hasSlot THEN -1 ELSE 0, 0)
    /\ hasSlot' = hasSlot \ {c}
    /\ hasExtra' = hasExtra \ {c}

ReturnSlots(c) ==
    /\ Count(c, IF c \in hasSlot THEN -1 ELSE 0, IF c \in hasExtra THEN -1 ELSE 0)
    /\ hasSlot' = hasSlot \ {c}
    /\ hasExtra' = hasExtra \ {c}

RemoveConnection(c) ==
    /\ Step(c, "removed", "absent")
    /\ ReturnSlots(c)
    /\ closing' = closing \ {c}
    /\ Unload(c) /\ state' = [state EXCEPT ![c] = "GET"]
    /\ UNCHANGED <<grantRecent, reservedSlots, queueVars, uploads, pendingKick, choice,
                   timerVars, userVars, cs>>

-----------------------------------------------------------------------------
(* The timer thread.                                                       *)

OnlineAmong(n) == Cardinality({i \in 1..n : waitingUsers[i] \in online})

\* Slots not yet promised to a peer that is connecting.
Unpromised == getFreeSlots - Cardinality(connectingUsers)

\* notifyQueuedUsers() pops peers until it told as many as there are slots.
StopsAfter(n) ==
    IF Unpromised <= 0
    THEN n = 0
    ELSE /\ n = Len(waitingUsers) \/ OnlineAmong(n) = Unpromised
         /\ \A m \in 0..(n - 1) : OnlineAmong(m) < Unpromised

\* on(Second) holds cs while notifyQueuedUsers() asks the peers to connect.
Second ==
    /\ timerPc = "idle" /\ cs = {}
    /\ \E n \in 0..Len(waitingUsers) :
           LET popped == {waitingUsers[i] : i \in 1..n} IN
           /\ StopsAfter(n)
           /\ waitingUsers' = SubSeq(waitingUsers, n + 1, Len(waitingUsers))
           /\ waitingFiles' = waitingFiles \ popped
           /\ connectingUsers' = connectingUsers \cup (popped \cap online)
           /\ minutes' = [u \in Users |-> IF u \in popped \cap online THEN 0 ELSE minutes[u]]
    /\ UNCHANGED <<slotVars, xferVars, connVars, timerVars, userVars, cs>>

MinuteBegin ==
    /\ timerPc = "idle" /\ cs = {}
    /\ timerPc' = "expire" /\ cs' = {"timer"} /\ todo' = connectingUsers
    /\ UNCHANGED <<slotVars, queueVars, xferVars, connVars, kicks, lastFreeSlots, userVars>>

\* Mutant: the peer that never came is not erased from connectingUsers.
MinuteExpire_KeepsEntry(u) ==
    /\ timerPc = "expire" /\ u \in todo
    /\ todo' = todo \ {u}
    /\ IF minutes[u] = 2 THEN clearUserFiles(u) ELSE UNCHANGED <<waitingUsers, waitingFiles>>
    /\ minutes' = [minutes EXCEPT ![u] = IF @ = 2 THEN 2 ELSE @ + 1]
    /\ UNCHANGED <<connectingUsers, slotVars, xferVars, connVars, timerPc, kicks,
                   lastFreeSlots, userVars, cs>>

\* Mutant: the age test lets an entry live for another Minute.
MinuteExpire_Late(u) ==
    /\ timerPc = "expire" /\ u \in todo
    /\ todo' = todo \ {u}
    /\ minutes' = [minutes EXCEPT ![u] = @ + 1]
    /\ UNCHANGED <<slotVars, connectingUsers, waitingUsers, waitingFiles, xferVars,
                   connVars, timerPc, kicks, lastFreeSlots, userVars, cs>>

\* The loop over connectingUsers, under the lock.  A Minute comes every 61 s
\* and an entry lives 90 s: never over at its first, always at its third.
MinuteExpire(u) ==
    /\ timerPc = "expire" /\ u \in todo
    /\ todo' = todo \ {u}
    /\ \/ /\ minutes[u] >= 1
          /\ clearUserFiles(u)
          /\ connectingUsers' = connectingUsers \ {u}
          /\ minutes' = [minutes EXCEPT ![u] = 0]
       \/ /\ minutes[u] <= 1
          /\ minutes' = [minutes EXCEPT ![u] = @ + 1]
          /\ UNCHANGED <<connectingUsers, waitingUsers, waitingFiles>>
    /\ UNCHANGED <<slotVars, xferVars, connVars, timerPc, kicks, lastFreeSlots, userVars, cs>>

\* AUTO_KICK: an upload to a peer that left is marked, and the peer is
\* disconnected if the mark is still there a Minute later.
MinuteKickList ==
    LET offline == {c \in uploads : UserOf[c] \notin online} IN
    /\ timerPc = "expire" /\ todo = {}
    /\ timerPc' = "kick" /\ cs' = {}
    /\ kicks' = IF AutoKick THEN {UserOf[c] : c \in offline \cap pendingKick} ELSE {}
    /\ pendingKick' = IF AutoKick
                      THEN {c \in offline : c \in pendingKick \/ UserOf[c] \notin KickExempt}
                      ELSE pendingKick
    /\ UNCHANGED <<slotVars, queueVars, uploads, state, connVars, todo, lastFreeSlots, userVars>>

\* ConnectionManager::disconnect(user, false), after the lock is released:
\* it closes the first upload connection of the user it finds.
MinuteKick(u) ==
    LET open == {c \in Conns : UserOf[c] = u /\ pc[c] # "absent"} IN
    /\ timerPc = "kick" /\ u \in kicks
    /\ kicks' = kicks \ {u}
    /\ \/ open = {} /\ UNCHANGED closing
       \/ \E c \in open : closing' = closing \cup {c}
    /\ UNCHANGED <<slotVars, queueVars, xferVars, pc, choice, loaded, timerPc, todo,
                   lastFreeSlots, userVars, cs>>

MinuteEnd ==
    /\ timerPc = "kick" /\ kicks = {}
    /\ timerPc' = "idle" /\ lastFreeSlots' = getFreeSlots
    /\ UNCHANGED <<slotVars, queueVars, xferVars, connVars, todo, kicks, userVars, cs>>

\* Thirty seconds pass since the last grant, which only getAutoSlot() asks.
GrantAges ==
    /\ AutoSlots /\ grantRecent /\ grantRecent' = FALSE
    /\ UNCHANGED <<running, extra, missed, reservedSlots, hasSlot, hasExtra, queueVars,
                   xferVars, connVars, timerVars, userVars, cs>>

-----------------------------------------------------------------------------
(* The user interface and the hubs.                                        *)

reserveSlot(u) ==
    /\ u \in Grantees /\ cs = {}
    /\ reservedSlots' = reservedSlots \cup {u}
    /\ UNCHANGED <<running, extra, missed, grantRecent, hasSlot, hasExtra, queueVars,
                   xferVars, connVars, timerVars, userVars, cs>>

GoOnline(u) ==
    /\ u \in Returners \ online
    /\ online' = online \cup {u}
    /\ UNCHANGED <<slotVars, queueVars, xferVars, connVars, timerVars, leaving, cs>>

GoOffline(u) ==
    /\ u \in online \cap Leavers
    /\ online' = online \ {u} /\ leaving' = leaving \cup {u}
    /\ UNCHANGED <<slotVars, queueVars, xferVars, connVars, timerVars, cs>>

UserDisconnected(u) ==
    /\ u \in leaving /\ cs = {}
    /\ leaving' = leaving \ {u}
    /\ IF u \in online THEN UNCHANGED <<waitingUsers, waitingFiles>> ELSE clearUserFiles(u)
    /\ UNCHANGED <<slotVars, connectingUsers, minutes, xferVars, connVars, timerVars, online, cs>>

-----------------------------------------------------------------------------
Connection(c) ==
    \/ AddConnection(c) \/ Get(c) \/ CheckFree(c) \/ AutoGrant(c) \/ MiniGrant(c)
    \/ Reject(c) \/ OpenFails(c) \/ BeginCommit(c) \/ EndCommit(c) \/ Send(c)
    \/ TransmitDone(c) \/ Failed(c) \/ ReadCounters(c) \/ RemoveConnection(c)

Timer ==
    \/ Second \/ MinuteBegin \/ MinuteKickList \/ MinuteEnd
    \/ \E u \in Users : MinuteExpire(u) \/ MinuteKick(u)

Environment ==
    \/ GrantAges
    \/ \E u \in Users : reserveSlot(u) \/ GoOnline(u) \/ GoOffline(u) \/ UserDisconnected(u)

Next == (\E c \in Conns : Connection(c)) \/ Timer \/ Environment

Spec == Init /\ [][Next]_vars

\* A thread inside a handler goes on; a connection told to close fails; the
\* timer thread runs for ever and gets the mutex now and then.
Fairness ==
    /\ \A c \in Conns : /\ WF_vars(EndCommit(c))
                        /\ WF_vars(ReadCounters(c)) /\ WF_vars(RemoveConnection(c))
                        /\ SF_vars(c \in closing /\ Failed(c))
    /\ SF_vars(Second) /\ SF_vars(MinuteBegin)
    /\ WF_vars(MinuteKickList) /\ WF_vars(MinuteEnd)
    /\ \A u \in Users : WF_vars(MinuteExpire(u)) /\ WF_vars(MinuteKick(u))

FairSpec == Spec /\ Fairness

-----------------------------------------------------------------------------
(* Properties.                                                             *)

\* Every slot is counted once when a connection gains it and once when it
\* goes, over reuse of the connection, a mini slot turned into a full one and
\* failures in any state: the counters are off the numbers of connections that
\* hold a slot by exactly the updates that stores of stale values undid.
SlotAccounting ==
    /\ running + missed.run = Cardinality(hasSlot)
    /\ extra + missed.ext = Cardinality(hasExtra)

\* What the comment on getFreeSlots() says, "Number of free slots": all but
\* those that connections hold.  removeConnection() counts without the lock.
FreeSlotsCounted ==
    getFreeSlots = IF Slots > Cardinality(hasSlot) THEN Slots - Cardinality(hasSlot) ELSE 0

\* No connection holds a full and a mini slot at once: removeConnection()
\* would return both.
OneSlotEach == hasSlot \cap hasExtra = {}

\* A connection owns an Upload exactly while it sends or waits for $Send, so
\* that `new Upload` never overwrites one (the thread that commits or fails
\* is between the two).
UploadMatchesState ==
    \A c \in Conns :
        /\ pc[c] \in {"free", "auto", "open"} =>
               c \notin uploads /\ state[c] = "GET"
        /\ pc[c] = "idle" => (c \in uploads <=> state[c] # "GET")
        /\ pc[c] \in {"remove", "removed", "absent"} => c \notin uploads

\* waitingUsers and the keys of waitingFiles name the same users, once each:
\* a user with files but no place in the queue would block the free slots of
\* everyone for ever (the waitingFiles.empty() test of prepareFile()).
WaitingConsistent ==
    /\ \A i, j \in DOMAIN waitingUsers : waitingUsers[i] = waitingUsers[j] => i = j
    /\ waitingFiles = {waitingUsers[i] : i \in DOMAIN waitingUsers}

\* While slots stay free, every waiting user leaves the queue: it is told to
\* connect, gets a slot, or is found offline.
WaitingServed ==
    <>[](getFreeSlots > 0) =>
        \A u \in Users : []( u \in waitingFiles => <>(u \notin waitingFiles))

\* AUTO_KICK: an upload to a peer that left the hubs for good comes to an
\* end, although nothing tells this component when the peer left: the mark of
\* one Minute and the disconnection of the next do.
OfflineKicked ==
    \A c \in Conns : <>[](UserOf[c] \notin online) => []<>(c \notin uploads)
=============================================================================
