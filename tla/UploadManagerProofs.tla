-------------------------- MODULE UploadManagerProofs --------------------------
(***************************************************************************)
(* What holds of the slots and of the waiting queue of UploadManager for   *)
(* any number of peers, connections and slots.                             *)
(***************************************************************************)
EXTENDS UploadManager, TLAPS, FiniteSetTheorems

NoDup(s) == \A i, j \in DOMAIN s : s[i] = s[j] => i = j
Elems(s) == {s[i] : i \in DOMAIN s}

USE DEF slotVars, queueVars, xferVars, connVars, timerVars, userVars

\* Erasing the one entry of a user leaves a queue without it, in order.
LEMMA WithoutLemma ==
    ASSUME NEW S, NEW s \in Seq(S), NEW u, NEW k \in DOMAIN s, s[k] = u
    PROVE  /\ Without(s, u) \in Seq(S)
           /\ NoDup(s) => /\ NoDup(Without(s, u))
                          /\ Elems(Without(s, u)) = Elems(s) \ {u}
<1> DEFINE i == CHOOSE i \in DOMAIN s : s[i] = u
           t == [j \in 1..(Len(s) - 1) |-> IF j < i THEN s[j] ELSE s[j + 1]]
<1>1. i \in 1..Len(s) /\ s[i] = u
  OBVIOUS
<1>2. Without(s, u) = t
  BY DEF Without
<1> HIDE DEF i
<1>3. t \in Seq(S) /\ DOMAIN t = 1..(Len(s) - 1)
  BY <1>1
<1>4. ASSUME NoDup(s) PROVE NoDup(t)
  BY <1>1, <1>3, <1>4 DEF NoDup
<1>5. ASSUME NoDup(s) PROVE Elems(t) = Elems(s) \ {u}
  <2>1. ASSUME NEW j \in DOMAIN t PROVE t[j] \in Elems(s) /\ t[j] # u
    BY <1>1, <1>3, <1>5, <2>1 DEF NoDup, Elems
  <2>2. ASSUME NEW j \in DOMAIN s, s[j] # u PROVE s[j] \in Elems(t)
    <3>1. CASE j < i
      BY <1>1, <1>3, <2>2, <3>1 DEF Elems
    <3>2. CASE j > i
      <4>1. (j - 1) \in DOMAIN t /\ t[j - 1] = s[j]
        BY <1>1, <1>3, <2>2, <3>2
      <4> QED
        BY <4>1 DEF Elems
    <3> QED
      BY <1>1, <2>2, <3>1, <3>2
  <2> QED
    BY <2>1, <2>2 DEF Elems
<1> QED
  BY <1>2, <1>3, <1>4, <1>5

-----------------------------------------------------------------------------
\* A store changes a counter by what it is meant to, and by what it undoes.
LEMMA CountLemma ==
    ASSUME TypeOK, NEW c \in Conns, NEW dr \in Int, NEW de \in Int, Count(c, dr, de)
    PROVE  /\ running' \in Int /\ extra' \in Int /\ missed' \in [run : Int, ext : Int]
           /\ running' + missed'.run = running + missed.run + dr
           /\ extra' + missed'.ext = extra + missed.ext + de
<1>1. /\ running \in Int /\ extra \in Int /\ missed \in [run : Int, ext : Int]
      /\ loaded[c] \in [run : Int, ext : Int]
  BY DEF TypeOK
<1>2. Seen(c).run \in Int /\ Seen(c).ext \in Int
  BY <1>1 DEF Seen
<1>3. running' \in Int /\ extra' \in Int
  BY <1>1, <1>2 DEF Count
<1>4. missed' = [run |-> missed.run + running + dr - running',
                 ext |-> missed.ext + extra + de - extra']
  BY DEF Count
<1> QED
  BY <1>1, <1>3, <1>4

LEMMA LoadLemma ==
    ASSUME TypeOK, NEW c \in Conns, Load(c) \/ UNCHANGED loaded
    PROVE  loaded' \in [Conns -> [run : Int, ext : Int]]
<1>1. [run |-> running, ext |-> extra] \in [run : Int, ext : Int]
  BY DEF TypeOK
<1>2. loaded \in [Conns -> [run : Int, ext : Int]]
  BY DEF TypeOK
<1> QED
  BY <1>1, <1>2 DEF Load

\* Every variable keeps its type: the counters stay integers, an upload that
\* is marked for a kick exists, an entry of connectingUsers is never older
\* than three Minutes.
LEMMA TypeStep == TypeOK /\ [Next]_vars => TypeOK'
<1> SUFFICES ASSUME TypeOK, [Next]_vars PROVE TypeOK'
  OBVIOUS
<1> USE UploadAssumption DEF TypeOK, States, Pcs, Choices, Step, Unload
<1>0. ASSUME NEW u \in Users, clearUserFiles(u)
      PROVE  waitingUsers' \in Seq(Users) /\ waitingFiles' \subseteq Users
  BY <1>0, WithoutLemma DEF clearUserFiles, IsWaiting
<1>00. ASSUME NEW c \in Conns, NEW dr \in Int, NEW de \in Int, Count(c, dr, de)
       PROVE  running' \in Int /\ extra' \in Int /\ missed' \in [run : Int, ext : Int]
  BY <1>00, CountLemma
<1>1. ASSUME NEW c \in Conns, Connection(c) PROVE TypeOK'
  <2>1. CASE AddConnection(c)
    BY <2>1 DEF AddConnection
  <2>2. CASE Get(c)
    BY <2>2 DEF Get
  <2>3. CASE CheckFree(c)
    BY <2>3 DEF CheckFree
  <2>4. CASE AutoGrant(c)
    BY <2>4 DEF AutoGrant
  <2>5. CASE MiniGrant(c)
    BY <2>5 DEF MiniGrant
  <2>6. CASE Reject(c)
    BY <2>6 DEF Reject
  <2>7. CASE OpenFails(c)
    BY <2>7 DEF OpenFails
  <2>8. CASE BeginCommit(c)
    <3>1. loaded' \in [Conns -> [run : Int, ext : Int]]
      BY <2>8, LoadLemma DEF BeginCommit
    <3> QED
      BY <2>8, <3>1 DEF BeginCommit
  <2>9. CASE EndCommit(c)
    <3> DEFINE u == UserOf[c]
    <3>1. u \in Users
      OBVIOUS
    <3>2. /\ running' \in Int /\ extra' \in Int /\ missed' \in [run : Int, ext : Int]
          /\ hasSlot' \subseteq Conns /\ hasExtra' \subseteq Conns
      <4>3. CASE UNCHANGED slotVars
        BY <4>3
      <4>4. CASE GainMini(c)
        BY <1>00, <4>4 DEF GainMini
      <4>5. CASE GainFull(c)
        BY <1>00, <4>5 DEF GainFull
      <4> QED
        BY <2>9, <4>3, <4>4, <4>5 DEF EndCommit
    <3>6. grantRecent' \in BOOLEAN
      BY <2>9, Zenon DEF EndCommit
    <3>7. reservedSlots' \subseteq Users
      BY <2>9 DEF EndCommit
    <3>3. /\ waitingUsers' \in Seq(Users) /\ waitingFiles' \subseteq Users
          /\ connectingUsers' \subseteq Users /\ minutes' \in [Users -> 0..2]
      <4>1. CASE UNCHANGED queueVars
        BY <4>1
      <4>2. CASE LeaveQueue(u)
        BY <4>2, <3>1, <1>0 DEF LeaveQueue
      <4> QED
        BY <2>9, <4>1, <4>2 DEF EndCommit
    <3>4. /\ loaded' \in [Conns -> [run : Int, ext : Int]]
          /\ pc' \in [Conns -> Pcs] /\ choice' \in [Conns -> Choices]
          /\ state' \in [Conns -> States]
      BY <2>9 DEF EndCommit
    <3>5. UNCHANGED <<uploads, pendingKick, closing, timerVars, userVars>> /\ cs' = {}
      BY <2>9 DEF EndCommit
    <3> QED
      BY <3>2, <3>3, <3>4, <3>5, <3>6, <3>7
  <2>10. CASE Send(c)
    BY <2>10 DEF Send
  <2>11. CASE TransmitDone(c)
    BY <2>11 DEF TransmitDone
  <2>12. CASE Failed(c)
    BY <2>12 DEF Failed
  <2>13. CASE ReadCounters(c)
    <3>1. loaded' \in [Conns -> [run : Int, ext : Int]]
      BY <2>13, LoadLemma DEF ReadCounters
    <3> QED
      BY <2>13, <3>1 DEF ReadCounters
  <2>14. CASE RemoveConnection(c)
    <3>1. /\ running' \in Int /\ extra' \in Int /\ missed' \in [run : Int, ext : Int]
          /\ hasSlot' \subseteq Conns /\ hasExtra' \subseteq Conns
      BY <1>00, <2>14 DEF RemoveConnection, ReturnSlots
    <3> QED
      BY <2>14, <3>1 DEF RemoveConnection
  <2> QED
    BY <1>1, <2>1, <2>2, <2>3, <2>4, <2>5, <2>6, <2>7, <2>8, <2>9, <2>10,
       <2>11, <2>12, <2>13, <2>14 DEF Connection
<1>2. CASE Timer
  <2>1. CASE Second
    BY <2>1 DEF Second
  <2>2. CASE MinuteBegin
    BY <2>2 DEF MinuteBegin
  <2>3. CASE MinuteKickList
    BY <2>3 DEF MinuteKickList
  <2>4. CASE MinuteEnd
    BY <2>4 DEF MinuteEnd, getFreeSlots
  <2>5. ASSUME NEW u \in Users, MinuteExpire(u) PROVE TypeOK'
    <3>1. CASE clearUserFiles(u) /\ connectingUsers' = connectingUsers \ {u}
                 /\ minutes' = [minutes EXCEPT ![u] = 0]
      BY <2>5, <3>1, <1>0 DEF MinuteExpire
    <3>2. CASE /\ minutes[u] <= 1 /\ minutes' = [minutes EXCEPT ![u] = @ + 1]
               /\ UNCHANGED <<connectingUsers, waitingUsers, waitingFiles>>
      <4>0. minutes[u] \in 0..2
        BY Zenon
      <4>1. minutes[u] + 1 \in 0..2
        <5> HIDE UploadAssumption DEF TypeOK, States, Pcs, Choices, Step, Unload
        <5> QED
          BY <3>2, <4>0
      <4>2. minutes' \in [Users -> 0..2]
        BY <3>2, <4>1
      <4> QED
        BY <2>5, <3>2, <4>2 DEF MinuteExpire
    <3> QED
      BY <2>5, <3>1, <3>2 DEF MinuteExpire
  <2>6. ASSUME NEW u \in Users, MinuteKick(u) PROVE TypeOK'
    BY <2>6 DEF MinuteKick
  <2> QED
    BY <1>2, <2>1, <2>2, <2>3, <2>4, <2>5, <2>6 DEF Timer
<1>3. CASE Environment
  <2>1. CASE GrantAges
    BY <2>1 DEF GrantAges
  <2>2. ASSUME NEW u \in Users, reserveSlot(u) PROVE TypeOK'
    BY <2>2 DEF reserveSlot
  <2>3. ASSUME NEW u \in Users, GoOnline(u) PROVE TypeOK'
    BY <2>3 DEF GoOnline
  <2>4. ASSUME NEW u \in Users, GoOffline(u) PROVE TypeOK'
    BY <2>4 DEF GoOffline
  <2>5. ASSUME NEW u \in Users, UserDisconnected(u) PROVE TypeOK'
    BY <2>5, <1>0 DEF UserDisconnected
  <2> QED
    BY <1>3, <2>1, <2>2, <2>3, <2>4, <2>5 DEF Environment
<1>4. CASE UNCHANGED vars
  BY <1>4 DEF vars
<1> QED
  BY <1>1, <1>2, <1>3, <1>4 DEF Next

THEOREM TypeCorrect == Spec => []TypeOK
<1>1. Init => TypeOK
  <2> SUFFICES ASSUME Init PROVE TypeOK
    OBVIOUS
  <2>1. waitingUsers \in Seq(Users)
    BY DEF Init
  <2>2. minutes \in [Users -> 0..2] /\ loaded \in [Conns -> [run : Int, ext : Int]]
    BY DEF Init
  <2>3. state \in [Conns -> States] /\ pc \in [Conns -> Pcs] /\ choice \in [Conns -> Choices]
    BY DEF Init, States, Pcs, Choices
  <2>4. grantRecent \in BOOLEAN
    BY Zenon DEF Init
  <2>5. /\ running \in Int /\ extra \in Int /\ missed \in [run : Int, ext : Int]
        /\ lastFreeSlots \in Int
        /\ timerPc \in {"idle", "expire", "kick"}
    BY DEF Init
  <2>6. /\ reservedSlots \subseteq Users /\ connectingUsers \subseteq Users
        /\ waitingFiles \subseteq Users
        /\ uploads \subseteq Conns /\ pendingKick \subseteq uploads
        /\ cs \subseteq Conns \cup {"timer"}
        /\ hasSlot \subseteq Conns /\ hasExtra \subseteq Conns /\ closing \subseteq Conns
        /\ online \subseteq Users /\ leaving \subseteq Users
        /\ todo \subseteq Users /\ kicks \subseteq Users
    BY DEF Init
  <2> QED
    BY <2>1, <2>2, <2>3, <2>4, <2>5, <2>6 DEF TypeOK
<1> QED
  BY <1>1, TypeStep, PTL DEF Spec

-----------------------------------------------------------------------------
\* Only the commit of prepareFile() and removeConnection() touch the slots.
LEMMA SlotFrame ==
    ASSUME [Next]_vars
    PROVE  \/ \E c \in Conns : EndCommit(c) \/ RemoveConnection(c)
           \/ UNCHANGED <<running, extra, missed, hasSlot, hasExtra>>
<1>1. ASSUME NEW c \in Conns, Connection(c)
      PROVE  \/ EndCommit(c) \/ RemoveConnection(c)
             \/ UNCHANGED <<running, extra, missed, hasSlot, hasExtra>>
  BY <1>1 DEF Connection, AddConnection, Get, CheckFree, AutoGrant, MiniGrant, Reject,
     OpenFails, BeginCommit, Send, TransmitDone, Failed, ReadCounters
<1>2. CASE Timer
  BY <1>2 DEF Timer, Second, MinuteBegin, MinuteExpire, MinuteKickList, MinuteKick, MinuteEnd
<1>3. CASE Environment
  BY <1>3 DEF Environment, GrantAges, reserveSlot, GoOnline, GoOffline, UserDisconnected
<1>4. CASE UNCHANGED vars
  BY <1>4 DEF vars
<1> QED
  BY <1>1, <1>2, <1>3, <1>4 DEF Next

\* A connection never holds a full and a mini slot at once, whatever the
\* build makes of the unlocked counters: prepareFile() unsets
\* FLAG_HASEXTRASLOT in the commit that sets FLAG_HASSLOT.
THEOREM OneSlotEachHolds == Spec => []OneSlotEach
<1>1. Init => OneSlotEach
  BY DEF Init, OneSlotEach
<1>2. OneSlotEach /\ [Next]_vars => OneSlotEach'
  <2> SUFFICES ASSUME OneSlotEach, [Next]_vars PROVE OneSlotEach'
    OBVIOUS
  <2>1. CASE UNCHANGED <<running, extra, missed, hasSlot, hasExtra>>
    BY <2>1 DEF OneSlotEach
  <2>2. ASSUME NEW c \in Conns, EndCommit(c) PROVE OneSlotEach'
    <3>1. CASE c \in hasSlot
      BY <2>2, <3>1 DEF EndCommit, OneSlotEach
    <3>2. CASE c \notin hasSlot /\ GainMini(c)
      BY <3>2 DEF GainMini, OneSlotEach
    <3>3. CASE c \notin hasSlot /\ GainFull(c)
      BY <3>3 DEF GainFull, OneSlotEach
    <3> QED
      BY <2>2, <3>1, <3>2, <3>3 DEF EndCommit
  <2>3. ASSUME NEW c \in Conns, RemoveConnection(c) PROVE OneSlotEach'
    BY <2>3 DEF RemoveConnection, ReturnSlots, OneSlotEach
  <2> QED
    BY <2>1, <2>2, <2>3, SlotFrame
<1> QED
  BY <1>1, <1>2, PTL DEF Spec

\* The counters and the flags move together: for any number of connections,
\* whatever stores of stale values undo, each slot is counted once when it is
\* gained and once when it goes; the check of prepareFile() is racy, but no
\* slot is ever returned twice or forgotten by the connection that held it.
THEOREM SlotAccountingHolds == Spec => []SlotAccounting
<1>1. Init => SlotAccounting
  BY FS_EmptySet DEF Init, SlotAccounting
<1>2. TypeOK /\ SlotAccounting /\ [Next]_vars => SlotAccounting'
  <2> SUFFICES ASSUME TypeOK, SlotAccounting, [Next]_vars PROVE SlotAccounting'
    OBVIOUS
  <2>1. CASE UNCHANGED <<running, extra, missed, hasSlot, hasExtra>>
    BY <2>1 DEF SlotAccounting
  <2> DEFINE Counted(n, S) == IsFiniteSet(S) /\ n = Cardinality(S)
             full == running + missed.run
             mini == extra + missed.ext
  <2>2. Counted(full, hasSlot) /\ Counted(mini, hasExtra)
    <3>1. IsFiniteSet(hasSlot) /\ IsFiniteSet(hasExtra)
      BY UploadAssumption, FS_Subset DEF TypeOK
    <3> QED
      BY <3>1 DEF SlotAccounting
  <2>3. ASSUME NEW n, NEW S, Counted(n, S), NEW c, c \notin S
        PROVE  Counted(n + 1, S \cup {c})
    BY <2>3, FS_AddElement
  <2>4. ASSUME NEW n, NEW S, Counted(n, S), NEW c, c \in S
        PROVE  Counted(n - 1, S \ {c})
    BY <2>4, FS_RemoveElement
  <2>5. full \in Int /\ mini \in Int
    BY DEF TypeOK
  <2>6. ASSUME NEW c \in Conns, NEW dr \in Int, NEW de \in Int, Count(c, dr, de)
        PROVE  full' = full + dr /\ mini' = mini + de
    BY <2>6, CountLemma
  <2>7. Counted(full', hasSlot') /\ Counted(mini', hasExtra') => SlotAccounting'
    BY DEF SlotAccounting
  <2> HIDE DEF Counted, full, mini
  <2>8. ASSUME NEW c \in Conns, EndCommit(c)
        PROVE  Counted(full', hasSlot') /\ Counted(mini', hasExtra')
    <3>1. CASE c \in hasSlot
      <4>1. UNCHANGED <<running, extra, missed, hasSlot, hasExtra>>
        BY <2>8, <3>1 DEF EndCommit
      <4>2. full' = full /\ mini' = mini
        BY <4>1 DEF full, mini
      <4> QED
        BY <2>2, <4>1, <4>2
    <3>2. CASE c \notin hasSlot /\ GainMini(c)
      <4>1. /\ hasSlot' = hasSlot /\ hasExtra' = hasExtra \cup {c}
            /\ Count(c, 0, IF c \in hasExtra THEN 0 ELSE 1)
        BY <3>2 DEF GainMini
      <4>2. CASE c \in hasExtra
        <5>1. full' = full + 0 /\ mini' = mini + 0 /\ hasExtra' = hasExtra
          BY <2>6, <4>1, <4>2
        <5> QED
          BY <2>2, <2>5, <4>1, <5>1
      <4>3. CASE c \notin hasExtra
        <5>1. full' = full + 0 /\ mini' = mini + 1
          BY <2>6, <4>1, <4>3
        <5> QED
          BY <2>2, <2>3, <2>5, <4>1, <4>3, <5>1
      <4> QED
        BY <4>2, <4>3
    <3>3. CASE c \notin hasSlot /\ GainFull(c)
      <4>1. /\ hasSlot' = hasSlot \cup {c} /\ hasExtra' = hasExtra \ {c}
            /\ Count(c, 1, IF c \in hasExtra THEN -1 ELSE 0)
        BY <3>3 DEF GainFull
      <4>2. full' = full + 1
        BY <2>6, <4>1
      <4>3. Counted(full', hasSlot')
        BY <2>2, <2>3, <3>3, <4>1, <4>2
      <4>4. CASE c \in hasExtra
        <5>1. mini' = mini - 1
          BY <2>5, <2>6, <4>1, <4>4
        <5> QED
          BY <2>2, <2>4, <4>1, <4>3, <4>4, <5>1
      <4>5. CASE c \notin hasExtra
        <5>1. mini' = mini /\ hasExtra' = hasExtra
          BY <2>5, <2>6, <4>1, <4>5
        <5> QED
          BY <2>2, <4>3, <5>1
      <4> QED
        BY <4>4, <4>5
    <3> QED
      BY <2>8, <3>1, <3>2, <3>3 DEF EndCommit
  <2>9. ASSUME NEW c \in Conns, RemoveConnection(c)
        PROVE  Counted(full', hasSlot') /\ Counted(mini', hasExtra')
    <3>1. /\ hasSlot' = hasSlot \ {c} /\ hasExtra' = hasExtra \ {c}
          /\ Count(c, IF c \in hasSlot THEN -1 ELSE 0, IF c \in hasExtra THEN -1 ELSE 0)
      BY <2>9 DEF RemoveConnection, ReturnSlots
    <3>2. Counted(full', hasSlot')
      <4>1. CASE c \in hasSlot
        <5>1. full' = full - 1
          BY <2>5, <2>6, <3>1, <4>1
        <5> QED
          BY <2>2, <2>4, <3>1, <4>1, <5>1
      <4>2. CASE c \notin hasSlot
        <5>1. full' = full /\ hasSlot' = hasSlot
          BY <2>5, <2>6, <3>1, <4>2
        <5> QED
          BY <2>2, <5>1
      <4> QED
        BY <4>1, <4>2
    <3>3. Counted(mini', hasExtra')
      <4>1. CASE c \in hasExtra
        <5>1. mini' = mini - 1
          BY <2>5, <2>6, <3>1, <4>1
        <5> QED
          BY <2>2, <2>4, <3>1, <4>1, <5>1
      <4>2. CASE c \notin hasExtra
        <5>1. mini' = mini /\ hasExtra' = hasExtra
          BY <2>5, <2>6, <3>1, <4>2
        <5> QED
          BY <2>2, <5>1
      <4> QED
        BY <4>1, <4>2
    <3> QED
      BY <3>2, <3>3
  <2> QED
    BY <2>1, <2>7, <2>8, <2>9, SlotFrame
<1> QED
  BY <1>1, <1>2, TypeCorrect, PTL DEF Spec

-----------------------------------------------------------------------------
\* The queue and the map of files change together: by an entry more, by an
\* entry less, or by the entries notifyQueuedUsers() popped.
LEMMA QueueFrame ==
    ASSUME [Next]_vars
    PROVE  \/ \E c \in Conns : Reject(c)
           \/ \E u \in Users : clearUserFiles(u)
           \/ Second
           \/ UNCHANGED <<waitingUsers, waitingFiles>>
<1>1. ASSUME NEW c \in Conns, Connection(c)
      PROVE  \/ Reject(c)
             \/ \E u \in Users : clearUserFiles(u)
             \/ UNCHANGED <<waitingUsers, waitingFiles>>
  <2>1. CASE EndCommit(c)
    BY <2>1, UploadAssumption DEF EndCommit, LeaveQueue
  <2> QED
    BY <1>1, <2>1 DEF Connection, AddConnection, Get, CheckFree, AutoGrant, MiniGrant,
       OpenFails, BeginCommit, Send, TransmitDone, Failed, ReadCounters, RemoveConnection
<1>2. ASSUME Timer
      PROVE  \/ \E u \in Users : clearUserFiles(u)
             \/ Second
             \/ UNCHANGED <<waitingUsers, waitingFiles>>
  BY <1>2 DEF Timer, MinuteBegin, MinuteExpire, MinuteKickList, MinuteKick, MinuteEnd
<1>3. ASSUME Environment
      PROVE  \/ \E u \in Users : clearUserFiles(u)
             \/ UNCHANGED <<waitingUsers, waitingFiles>>
  BY <1>3 DEF Environment, GrantAges, reserveSlot, GoOnline, GoOffline, UserDisconnected
<1>4. CASE UNCHANGED vars
  BY <1>4 DEF vars
<1> QED
  BY <1>1, <1>2, <1>3, <1>4 DEF Next

\* waitingUsers never names a user twice, and the users with an entry in
\* waitingFiles are the users in it: nobody blocks the free slots of the
\* others without a place in the queue from which notifyQueuedUsers() or
\* clearUserFiles() would take it.
THEOREM WaitingConsistentHolds == Spec => []WaitingConsistent
<1>1. Init => WaitingConsistent
  BY DEF Init, WaitingConsistent
<1>2. TypeOK /\ WaitingConsistent /\ [Next]_vars => WaitingConsistent'
  <2> SUFFICES ASSUME TypeOK, WaitingConsistent, [Next]_vars PROVE WaitingConsistent'
    OBVIOUS
  <2>0. /\ waitingUsers \in Seq(Users)
        /\ NoDup(waitingUsers) /\ waitingFiles = Elems(waitingUsers)
    BY DEF TypeOK, WaitingConsistent, NoDup, Elems
  <2> SUFFICES NoDup(waitingUsers') /\ waitingFiles' = Elems(waitingUsers')
    BY DEF WaitingConsistent, NoDup, Elems
  <2>1. CASE UNCHANGED <<waitingUsers, waitingFiles>>
    BY <2>0, <2>1
  <2>2. ASSUME NEW u \in Users, clearUserFiles(u)
        PROVE  NoDup(waitingUsers') /\ waitingFiles' = Elems(waitingUsers')
    <3>1. CASE IsWaiting(u)
      <4>1. PICK k \in DOMAIN waitingUsers : waitingUsers[k] = u
        BY <3>1 DEF IsWaiting
      <4>2. /\ waitingUsers' = Without(waitingUsers, u)
            /\ waitingFiles' = waitingFiles \ {u}
        BY <2>2, <3>1 DEF clearUserFiles
      <4> QED
        BY <2>0, <4>1, <4>2, WithoutLemma
    <3>2. CASE ~IsWaiting(u)
      BY <2>0, <2>2, <3>2 DEF clearUserFiles
    <3> QED
      BY <3>1, <3>2
  <2>3. ASSUME NEW c \in Conns, Reject(c)
        PROVE  NoDup(waitingUsers') /\ waitingFiles' = Elems(waitingUsers')
    <3> DEFINE u == UserOf[c]
    <3>1. u \in Users
      BY UploadAssumption
    <3>2. CASE IsWaiting(u)
      <4>1. waitingUsers' = waitingUsers /\ u \in Elems(waitingUsers)
        BY <2>3, <3>2 DEF Reject, IsWaiting, Elems
      <4>2. waitingFiles' = waitingFiles \cup {u}
        BY <2>3 DEF Reject
      <4> QED
        BY <2>0, <4>1, <4>2
    <3>3. CASE ~IsWaiting(u)
      <4>1. waitingUsers' = Append(waitingUsers, u) /\ waitingFiles' = waitingFiles \cup {u}
        BY <2>3, <3>3 DEF Reject
      <4>2. \A i \in DOMAIN waitingUsers : waitingUsers[i] # u
        BY <3>3 DEF IsWaiting
      <4>3. NoDup(waitingUsers')
        BY <2>0, <3>1, <4>1, <4>2 DEF NoDup
      <4>4. Elems(waitingUsers') = Elems(waitingUsers) \cup {u}
        <5> DEFINE n == Len(waitingUsers)
        <5>1. /\ DOMAIN waitingUsers = 1..n /\ DOMAIN waitingUsers' = 1..(n + 1)
              /\ n \in Nat /\ waitingUsers'[n + 1] = u
              /\ \A i \in 1..n : waitingUsers'[i] = waitingUsers[i]
          BY <2>0, <3>1, <4>1
        <5> HIDE DEF n
        <5>2. \A i \in 1..(n + 1) : i \in 1..n \/ i = n + 1
          BY <5>1
        <5> QED
          BY <5>1, <5>2 DEF Elems
      <4> QED
        BY <2>0, <4>1, <4>3, <4>4
    <3> QED
      BY <3>2, <3>3
  <2>4. CASE Second
    <3>1. PICK n \in 0..Len(waitingUsers) :
             /\ waitingUsers' = SubSeq(waitingUsers, n + 1, Len(waitingUsers))
             /\ waitingFiles' = waitingFiles \ {waitingUsers[i] : i \in 1..n}
      BY <2>4 DEF Second
    <3> DEFINE m == Len(waitingUsers) - n
    <3>2. /\ m \in Nat /\ DOMAIN waitingUsers' = 1..m
          /\ \A i \in 1..m : waitingUsers'[i] = waitingUsers[n + i]
      BY <2>0, <3>1
    <3>3. NoDup(waitingUsers')
      BY <2>0, <3>1, <3>2 DEF NoDup
    <3>4. \A i \in 1..m : n + i \in DOMAIN waitingUsers /\ n + i \notin 1..n
      BY <2>0, <3>1, <3>2
    <3>5. \A j \in DOMAIN waitingUsers : j \in 1..n \/ (j - n \in 1..m /\ j = n + (j - n))
      BY <2>0, <3>1, <3>2
    <3>6. 1..n \subseteq DOMAIN waitingUsers
      BY <2>0, <3>1
    <3> HIDE DEF m
    <3>7. Elems(waitingUsers') \subseteq waitingFiles'
      <4> SUFFICES ASSUME NEW i \in 1..m
                   PROVE  waitingUsers[n + i] \in waitingFiles'
        BY <3>2 DEF Elems
      <4>1. waitingUsers[n + i] \in waitingFiles
        BY <2>0, <3>4 DEF Elems
      <4>2. \A k \in 1..n : waitingUsers[k] # waitingUsers[n + i]
        BY <2>0, <3>4, <3>6 DEF NoDup
      <4> QED
        BY <3>1, <4>1, <4>2
    <3>8. waitingFiles' \subseteq Elems(waitingUsers')
      <4> SUFFICES ASSUME NEW j \in DOMAIN waitingUsers, j \notin 1..n
                   PROVE  waitingUsers[j] \in Elems(waitingUsers')
        BY <2>0, <3>1 DEF Elems
      <4>1. j - n \in 1..m /\ waitingUsers[j] = waitingUsers'[j - n]
        BY <3>2, <3>5
      <4> QED
        BY <3>2, <4>1 DEF Elems
    <3> QED
      BY <3>3, <3>7, <3>8
  <2> QED
    BY <2>1, <2>2, <2>3, <2>4, QueueFrame
<1> QED
  BY <1>1, <1>2, TypeCorrect, PTL DEF Spec

-----------------------------------------------------------------------------
\* The two moments UploadMatchesState leaves out: while the counters are
\* updated the Upload is there, and a new connection starts at STATE_GET.
UploadInv ==
    /\ UploadMatchesState
    /\ \A c \in Conns : /\ pc[c] = "grant" => c \in uploads
                        /\ pc[c] = "absent" => state[c] = "GET"

\* The timer, the hubs and the user interface leave the uploads alone.
LEMMA UploadFrame ==
    ASSUME [Next]_vars
    PROVE  \/ \E c \in Conns : Connection(c)
           \/ UNCHANGED <<uploads, state, pc>>
<1>1. CASE Timer
  BY <1>1 DEF Timer, Second, MinuteBegin, MinuteExpire, MinuteKickList, MinuteKick, MinuteEnd
<1>2. CASE Environment
  BY <1>2 DEF Environment, GrantAges, reserveSlot, GoOnline, GoOffline, UserDisconnected
<1>3. CASE UNCHANGED vars
  BY <1>3 DEF vars
<1> QED
  BY <1>1, <1>2, <1>3 DEF Next

\* A connection owns an Upload exactly while it sends or waits for $Send:
\* prepareFile() never runs for a connection that has one (its `new Upload`
\* would lose it), and none is left behind in `uploads` by a connection that
\* failed, however the timer and the other connections interleave.
THEOREM UploadMatchesStateHolds == Spec => []UploadMatchesState
<1>1. Init => UploadInv
  BY DEF Init, UploadInv, UploadMatchesState
<1>2. TypeOK /\ UploadInv /\ [Next]_vars => UploadInv'
  <2> SUFFICES ASSUME TypeOK, UploadInv, [Next]_vars PROVE UploadInv'
    OBVIOUS
  <2> USE DEF UploadInv, UploadMatchesState
  <2>0. /\ pc \in [Conns -> Pcs] /\ state \in [Conns -> States]
    BY DEF TypeOK
  <2>1. CASE UNCHANGED <<uploads, state, pc>>
    BY <2>1
  <2>2. ASSUME NEW c \in Conns, Connection(c) PROVE UploadInv'
    <3>1. CASE \/ AddConnection(c) \/ CheckFree(c) \/ AutoGrant(c) \/ MiniGrant(c)
               \/ Reject(c) \/ OpenFails(c) \/ ReadCounters(c)
      BY <2>0, <3>1 DEF AddConnection, CheckFree, AutoGrant, MiniGrant, Reject, OpenFails,
         ReadCounters, Step
    <3>2. CASE Get(c)
      BY <2>0, <3>2 DEF Get
    <3>3. CASE BeginCommit(c)
      BY <2>0, <3>3 DEF BeginCommit, Step
    <3>4. CASE EndCommit(c)
      BY <2>0, <3>4 DEF EndCommit, Step
    <3>5. CASE Send(c)
      BY <2>0, <3>5 DEF Send
    <3>6. CASE TransmitDone(c)
      BY <2>0, <3>6 DEF TransmitDone
    <3>7. CASE Failed(c)
      BY <2>0, <3>7 DEF Failed, Step
    <3>8. CASE RemoveConnection(c)
      BY <2>0, <3>8 DEF RemoveConnection, Step
    <3> QED
      BY <2>2, <3>1, <3>2, <3>3, <3>4, <3>5, <3>6, <3>7, <3>8 DEF Connection
  <2> QED
    BY <2>1, <2>2, UploadFrame
<1>3. UploadInv => UploadMatchesState
  BY DEF UploadInv
<1> QED
  BY <1>1, <1>2, <1>3, TypeCorrect, PTL DEF Spec
=============================================================================
