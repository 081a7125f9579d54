------------------------------- MODULE HubsProofs -------------------------------
(***************************************************************************)
(* What the hubs and the list of online users they share keep, for any     *)
(* number of hubs and users.                                               *)
(***************************************************************************)
EXTENDS Hubs, FiniteSetTheorems, TLAPS

USE DEF clientVars, listVars

\* The users of the hub that are in the shared list.
Entered(h) == {u \in Users : <<h, u>> \in onlineUsers}

\* What the hub owns, and the thread of its socket has entered.
Owned(h) == (users[h] \cup clearing[h] \cup (IF op[h].does = "erases" THEN {op[h].user} ELSE {}))
              \ (IF op[h].does = "inserts" THEN {op[h].user} ELSE {})

\* The user that is being put online is in the map of the hub, the one that
\* is being put offline is in it no more; what clearUsers() swapped out is
\* apart; before the destructor nothing is under way; the timer does not know
\* of a Client that is gone.
Orderly(h) ==
    /\ op[h].does \in {"inserts", "sets", "announces"} => op[h].user \in users[h]
    /\ op[h].does = "erases" => op[h].user \notin users[h] \cup clearing[h]
    /\ users[h] \cap clearing[h] = {}
    /\ client[h] = "shut" => op[h].does = "idle" /\ clearing[h] = {}
    /\ deciding[h] => client[h] # "none"

\* A user that is ONLINE, or was announced, is listed, or the thread that took
\* it off the list is about to tell.
Leaving(u, does) == \E h \in Hubs : op[h].does \in does /\ op[h].user = u

Accounted(u) ==
    /\ u \in online => Listed(u) # {} \/ Leaving(u, {"unsets"})
    /\ told[u] = "UserConnected" => Listed(u) # {} \/ Leaving(u, {"unsets", "withdraws"})

IInv == /\ TypeOK
        /\ \A h \in Hubs : Entered(h) = Owned(h) /\ Orderly(h)
        /\ \A u \in Users : Accounted(u)

LEMMA InitInv == Init => IInv
  BY HubsAssumption DEF Init, Idle, IInv, TypeOK, States, Steps, Entered, Owned, Orderly, Accounted

-----------------------------------------------------------------------------
\* What an operation of hub h may change: its own maps, and its own entries.
Elsewhere(h) ==
    /\ \A k \in Hubs \ {h} :
         /\ client'[k] = client[k] /\ deciding'[k] = deciding[k]
         /\ users'[k] = users[k] /\ clearing'[k] = clearing[k] /\ op'[k] = op[k]
    /\ \A k \in Hubs \ {h}, u \in Users : <<k, u>> \in onlineUsers' <=> <<k, u>> \in onlineUsers

\* The other hubs keep what they had.
LEMMA OthersKeep ==
    ASSUME IInv, NEW h \in Hubs, Elsewhere(h), Entered(h)' = Owned(h)', Orderly(h)'
    PROVE  \A k \in Hubs : Entered(k)' = Owned(k)' /\ Orderly(k)'
<1>1. \A k \in Hubs \ {h} : Entered(k)' = Entered(k) /\ Owned(k)' = Owned(k)
  BY DEF Elsewhere, Entered, Owned
<1>2. \A k \in Hubs \ {h} : Orderly(k)' <=> Orderly(k)
  BY DEF Elsewhere, Orderly
<1>3. QED
  BY <1>1, <1>2 DEF IInv

\* The list, the flags and the events stay, and nobody who was about to tell
\* forgets it.
LEMMA AccountsKeep ==
    ASSUME IInv, NEW h \in Hubs, UNCHANGED listVars, TypeOK',
           op[h].does \notin {"unsets", "withdraws"} \/ op'[h] = op[h],
           \A k \in Hubs \ {h} : op'[k] = op[k]
    PROVE  \A u \in Users : Accounted(u)'
<1>1. \A u \in Users, does \in SUBSET {"unsets", "withdraws"} : Leaving(u, does) => Leaving(u, does)'
  BY DEF Leaving
<1>2. \A u \in Users : Listed(u)' = Listed(u)
  BY DEF Listed
<1>3. QED
  BY <1>1, <1>2 DEF IInv, Accounted

\* Steps of a hub that leave the shared list, the users and the call alone.
LEMMA ClientStep ==
    ASSUME IInv, NEW h \in Hubs, UNCHANGED <<users, clearing, op, listVars>>, TypeOK',
           \A k \in Hubs \ {h} : client'[k] = client[k] /\ deciding'[k] = deciding[k],
           client'[h] = "shut" => op[h].does = "idle" /\ clearing[h] = {},
           deciding'[h] => client'[h] # "none"
    PROVE  IInv'
<1>1. Elsewhere(h)
  BY DEF Elsewhere
<1>2. Entered(h)' = Owned(h)' /\ Orderly(h)'
  BY DEF IInv, Entered, Owned, Orderly
<1>3. \A u \in Users : Accounted(u)'
  BY AccountsKeep
<1>4. QED
  BY <1>1, <1>2, <1>3, OthersKeep DEF IInv

-----------------------------------------------------------------------------
(* The UsersManager.                                                       *)

\* The next step of a call: it ends, or goes on with the same user.
LEMMA GoesStep ==
    ASSUME TypeOK, NEW h \in Hubs, NEW does \in Steps, Goes(h, does)
    PROVE  /\ op' \in [Hubs -> [does : Steps, user : Users]]
           /\ op'[h].does = does /\ (does # "idle" => op'[h].user = op[h].user)
           /\ \A k \in Hubs \ {h} : op'[k] = op[k]
<1>1. op[h] \in [does : Steps, user : Users] /\ Idle \in [does : Steps, user : Users]
  BY HubsAssumption DEF TypeOK, Idle, Steps
<1>2. [op[h] EXCEPT !.does = does] \in [does : Steps, user : Users]
  BY <1>1
<1>3. QED
  BY <1>1, <1>2 DEF TypeOK, Goes, Idle

LEMMA PutOnlineStep ==
    ASSUME IInv, NEW h \in Hubs, putOnline(h)
    PROVE  IInv'
<1> DEFINE u == op[h].user
<1>1. TypeOK' /\ u \in Users
  BY DEF IInv, TypeOK, putOnline, Goes, Idle, Steps
<1>2. op'[h] = [does |-> "sets", user |-> u] /\ \A k \in Hubs \ {h} : op'[k] = op[k]
  BY DEF IInv, TypeOK, putOnline, Goes
<1>3. \A k \in Hubs, v \in Users : <<k, v>> \in onlineUsers' <=> <<k, v>> \in onlineUsers \/ (k = h /\ v = u)
  BY DEF putOnline
<1>4. Elsewhere(h)
  BY <1>2, <1>3 DEF Elsewhere, putOnline
<1>5. Entered(h)' = Owned(h)' /\ Orderly(h)'
  <2>1. Entered(h)' = Entered(h) \cup {u}
    BY <1>1, <1>3 DEF Entered
  <2>2. Entered(h) = (users[h] \cup clearing[h]) \ {u} /\ Orderly(h)
    BY DEF IInv, Owned, putOnline
  <2>3. Owned(h)' = users[h] \cup clearing[h]
    BY <1>2 DEF Owned, putOnline
  <2>4. u \in users[h]
    BY <2>2 DEF Orderly, putOnline
  <2>5. Orderly(h)'
    BY <1>2, <2>2, <2>4 DEF Orderly, putOnline
  <2>6. QED
    BY <2>1, <2>2, <2>3, <2>4, <2>5
<1>6. ASSUME NEW v \in Users PROVE Accounted(v)'
  <2>1. Listed(v) \subseteq Listed(v)'
    BY DEF Listed, putOnline
  <2>2. \A does \in SUBSET {"unsets", "withdraws"} : Leaving(v, does) => Leaving(v, does)'
    BY <1>2 DEF Leaving, putOnline
  <2>3. QED
    BY <2>1, <2>2 DEF IInv, Accounted, putOnline
<1>7. QED
  BY <1>1, <1>4, <1>5, <1>6, OthersKeep DEF IInv

LEMMA PutOnlineFlagStep ==
    ASSUME IInv, NEW h \in Hubs, putOnline_Flag(h) \/ putOnline_Fire(h)
    PROVE  IInv'
<1> DEFINE u == op[h].user
<1>1. TypeOK' /\ u \in Users
  <2>1. u \in Users /\ op[h].does \in Steps
    BY DEF IInv, TypeOK
  <2>2. op' \in [Hubs -> [does : Steps, user : Users]]
    BY GoesStep DEF IInv, putOnline_Flag, putOnline_Fire, Steps
  <2>3. online' \subseteq Users /\ told' \in [Users -> {"nothing", "UserConnected", "UserDisconnected"}]
    BY <2>1 DEF IInv, TypeOK, putOnline_Flag, putOnline_Fire
  <2>4. QED
    BY <2>1, <2>2, <2>3 DEF IInv, TypeOK, putOnline_Flag, putOnline_Fire
<1>2. /\ op'[h].does \in {"idle", "announces"}
      /\ op'[h].does = "announces" => op'[h].user = u
      /\ \A k \in Hubs \ {h} : op'[k] = op[k]
      /\ op[h].does \in {"sets", "announces"}
      /\ UNCHANGED <<client, deciding, users, clearing, onlineUsers>>
  BY GoesStep DEF IInv, putOnline_Flag, putOnline_Fire, Steps
<1>3. Elsewhere(h)
  BY <1>2 DEF Elsewhere
<1>4. Entered(h)' = Owned(h)' /\ Orderly(h)'
  BY <1>2 DEF IInv, Entered, Owned, Orderly
<1>5. <<h, u>> \in onlineUsers
  <2>1. u \in Owned(h)
    BY <1>1, <1>2 DEF IInv, Orderly, Owned
  <2>2. QED
    BY <2>1 DEF IInv, Entered
<1>6. ASSUME NEW v \in Users PROVE Accounted(v)'
  <2>1. Listed(v)' = Listed(v)
    BY <1>2 DEF Listed
  <2>2. \A does \in SUBSET {"unsets", "withdraws"} : Leaving(v, does) => Leaving(v, does)'
    BY <1>2 DEF Leaving
  <2>3. CASE v = u
    BY <1>5, <2>1, <2>3 DEF Accounted, Listed
  <2>4. CASE v # u
    <3>1. (v \in online' <=> v \in online) /\ told'[v] = told[v]
      BY <2>4 DEF IInv, TypeOK, putOnline_Flag, putOnline_Fire
    <3>2. QED
      BY <2>1, <2>2, <3>1 DEF IInv, Accounted
  <2>5. QED
    BY <2>3, <2>4
<1>7. QED
  BY <1>1, <1>3, <1>4, <1>6, OthersKeep DEF IInv

\* Whoever takes the last entry of a user away is the one to tell.
LEMMA LastEntry ==
    ASSUME NEW u \in Users, NEW h \in Hubs, <<h, u>> \in onlineUsers, Listed(u) \ {<<h, u>>} = {}
    PROVE  Cardinality(Listed(u)) = 1
<1>1. Listed(u) = {<<h, u>>}
  BY DEF Listed
<1>2. QED
  BY <1>1, FS_Singleton

LEMMA PutOfflineStep ==
    ASSUME IInv, NEW h \in Hubs, putOffline(h)
    PROVE  IInv'
<1> DEFINE u == op[h].user
<1> DEFINE next == IF <<h, u>> \in onlineUsers /\ Cardinality(Listed(u)) = 1 THEN "unsets" ELSE "idle"
<1>0. /\ op' \in [Hubs -> [does : Steps, user : Users]]
      /\ op'[h].does = next /\ (next # "idle" => op'[h].user = u)
      /\ \A k \in Hubs \ {h} : op'[k] = op[k]
  BY GoesStep DEF IInv, putOffline, Steps
<1>1. TypeOK' /\ u \in Users
  BY <1>0 DEF IInv, TypeOK, putOffline
<1>2. /\ op'[h].does \in {"idle", "unsets"} /\ (op'[h].does = "unsets" => op'[h].user = u)
      /\ \A k \in Hubs \ {h} : op'[k] = op[k]
  BY <1>0
<1>3. \A k \in Hubs, v \in Users : <<k, v>> \in onlineUsers' <=> <<k, v>> \in onlineUsers /\ ~(k = h /\ v = u)
  BY DEF putOffline
<1>4. Elsewhere(h)
  BY <1>2, <1>3 DEF Elsewhere, putOffline
<1>5. Entered(h) = users[h] \cup clearing[h] \cup {u} /\ u \notin users[h] \cup clearing[h]
  BY DEF IInv, Owned, Orderly, putOffline
<1>6. Entered(h)' = Owned(h)' /\ Orderly(h)'
  <2>1. Entered(h)' = Entered(h) \ {u}
    BY <1>3 DEF Entered
  <2>2. Owned(h)' = users[h] \cup clearing[h]
    BY <1>2 DEF Owned, putOffline
  <2>3. Orderly(h)'
    BY <1>2 DEF IInv, Orderly, putOffline
  <2>4. QED
    BY <1>5, <2>1, <2>2, <2>3
<1>7. ASSUME NEW v \in Users PROVE Accounted(v)'
  <2>1. Listed(v)' = Listed(v) \ {<<h, u>>}
    BY DEF Listed, putOffline
  <2>2. \A does \in SUBSET {"unsets", "withdraws"} : Leaving(v, does) => Leaving(v, does)'
    BY <1>2 DEF Leaving, putOffline
  <2>3. ASSUME Listed(v)' = {}, Listed(v) # {} PROVE Leaving(v, {"unsets"})' /\ Leaving(v, {"unsets", "withdraws"})'
    <3>1. v = u
      BY <2>1, <2>3 DEF Listed
    <3>2. <<h, u>> \in onlineUsers /\ Cardinality(Listed(u)) = 1
      BY <1>1, <1>5, <2>1, <2>3, <3>1, LastEntry DEF Entered
    <3>3. op'[h].does = "unsets"
      BY <1>0, <3>2
    <3>4. QED
      BY <1>2, <3>1, <3>3 DEF Leaving
  <2>4. QED
    BY <2>2, <2>3 DEF IInv, Accounted, putOffline
<1>8. QED
  BY <1>1, <1>4, <1>6, <1>7, OthersKeep DEF IInv

\* The last two parts of putOffline().
LEMMA PutOfflineFlagStep ==
    ASSUME IInv, NEW h \in Hubs, putOffline_Flag(h) \/ putOffline_Fire(h)
    PROVE  IInv'
<1> DEFINE u == op[h].user
<1>1. /\ op' \in [Hubs -> [does : Steps, user : Users]]
      /\ \A k \in Hubs \ {h} : op'[k] = op[k]
      /\ putOffline_Flag(h) => op'[h].does = "withdraws" /\ op'[h].user = u
      /\ putOffline_Fire(h) => op'[h].does = "idle"
      /\ UNCHANGED <<client, deciding, users, clearing, onlineUsers>>
  BY GoesStep DEF IInv, putOffline_Flag, putOffline_Fire, Steps
<1>2. TypeOK' /\ u \in Users
  <2>1. u \in Users
    BY DEF IInv, TypeOK
  <2>2. online' \subseteq Users /\ told' \in [Users -> {"nothing", "UserConnected", "UserDisconnected"}]
    BY <2>1 DEF IInv, TypeOK, putOffline_Flag, putOffline_Fire
  <2>3. QED
    BY <1>1, <2>1, <2>2 DEF IInv, TypeOK, putOffline_Flag, putOffline_Fire
<1>3. Elsewhere(h)
  BY <1>1 DEF Elsewhere
<1>4. Entered(h)' = Owned(h)' /\ Orderly(h)'
  BY <1>1 DEF IInv, Entered, Owned, Orderly, putOffline_Flag, putOffline_Fire
<1>5. ASSUME NEW v \in Users PROVE Accounted(v)'
  <2>1. Listed(v)' = Listed(v)
    BY <1>1 DEF Listed
  <2>2. CASE v = u /\ putOffline_Flag(h)
    <3>1. v \notin online' /\ Leaving(v, {"unsets", "withdraws"})'
      BY <1>1, <2>2 DEF Leaving, putOffline_Flag
    <3>2. QED
      BY <3>1 DEF Accounted
  <2>3. CASE v = u /\ putOffline_Fire(h)
    <3>1. told'[v] = "UserDisconnected" /\ online' = online
      BY <2>3 DEF IInv, TypeOK, putOffline_Fire
    <3>2. Leaving(v, {"unsets"}) => Leaving(v, {"unsets"})'
      BY <1>1, <2>3 DEF Leaving, putOffline_Fire
    <3>3. QED
      BY <2>1, <3>1, <3>2 DEF IInv, Accounted
  <2>4. CASE v # u
    <3>1. (v \in online' <=> v \in online) /\ told'[v] = told[v]
      BY <2>4 DEF IInv, TypeOK, putOffline_Flag, putOffline_Fire
    <3>2. \A does \in SUBSET {"unsets", "withdraws"} : Leaving(v, does) => Leaving(v, does)'
      BY <1>1, <2>4 DEF Leaving
    <3>3. QED
      BY <2>1, <3>1, <3>2 DEF IInv, Accounted
  <2>5. QED
    BY <2>2, <2>3, <2>4
<1>6. QED
  BY <1>2, <1>3, <1>4, <1>5, OthersKeep DEF IInv

-----------------------------------------------------------------------------
(* The hub's map.                                                          *)

\* While nothing is under way an operation may take a user into the map or out
\* of it, or all of them, and begins or leaves to the next step what is to be
\* told the UsersManager.
LEMMA MapStep ==
    ASSUME IInv, NEW h \in Hubs, TypeOK', op[h].does = "idle",
           UNCHANGED <<client, deciding, listVars>>, client[h] = "shut" => UNCHANGED op /\ clearing'[h] = {},
           \A k \in Hubs \ {h} : users'[k] = users[k] /\ clearing'[k] = clearing[k] /\ op'[k] = op[k],
           op'[h].does \in {"idle", "inserts", "erases"},
           op'[h].does = "inserts" => op'[h].user \in users'[h],
           op'[h].does = "erases" => op'[h].user \notin users'[h] \cup clearing'[h],
           users'[h] \cap clearing'[h] = {},
           Owned(h)' = users[h] \cup clearing[h]
    PROVE  IInv'
<1>1. Elsewhere(h)
  BY DEF Elsewhere
<1>2. Entered(h)' = Owned(h)'
  <2>1. Entered(h)' = Entered(h)
    BY DEF Entered
  <2>2. Entered(h) = users[h] \cup clearing[h]
    BY DEF IInv, Owned
  <2>3. QED
    BY <2>1, <2>2
<1>3. Orderly(h)'
  BY DEF IInv, Orderly
<1>4. \A u \in Users : Accounted(u)'
  BY AccountsKeep
<1>5. QED
  BY <1>1, <1>2, <1>3, <1>4, OthersKeep DEF IInv

LEMMA GetUserTyped ==
    ASSUME TypeOK, NEW h \in Hubs, NEW u \in Users, getUser(h, u)
    PROVE  users' \in [Hubs -> SUBSET Users] /\ op' \in [Hubs -> [does : Steps, user : Users]]
<1>1. [does |-> "inserts", user |-> u] \in [does : Steps, user : Users]
  BY DEF Steps
<1>2. CASE u \in users[h]
  BY <1>2 DEF TypeOK, getUser
<1>3. CASE u \notin users[h]
  <2>1. users' = [users EXCEPT ![h] = users[h] \cup {u}]
    BY <1>3 DEF getUser
  <2>2. op' = [op EXCEPT ![h] = [does |-> "inserts", user |-> u]]
    BY <1>3 DEF getUser, Begins
  <2>3. op' \in [Hubs -> [does : Steps, user : Users]]
    BY <1>1, <2>2 DEF TypeOK
  <2>4. users \in [Hubs -> SUBSET Users]
    BY DEF TypeOK
  <2>5. QED
    BY <2>1, <2>3, <2>4
<1>4. QED
  BY <1>2, <1>3

\* A user of the hub's map is new, or it was there.
LEMMA GetUserStep ==
    ASSUME IInv, NEW h \in Hubs, NEW u \in Users, ~busy(h), client[h] = "live", getUser(h, u), TypeOK',
           UNCHANGED <<client, deciding, clearing, listVars>>
    PROVE  IInv'
<1>1. op[h].does = "idle" /\ clearing[h] = {}
  BY DEF busy
<1>2. CASE u \in users[h]
  BY <1>1, <1>2, ClientStep DEF getUser, IInv, Orderly
<1>3. CASE u \notin users[h]
  <2>1. /\ users'[h] = users[h] \cup {u} /\ op'[h] = [does |-> "inserts", user |-> u]
        /\ \A k \in Hubs \ {h} : users'[k] = users[k] /\ op'[k] = op[k]
    BY <1>3 DEF IInv, TypeOK, getUser, Begins
  <2>2. Owned(h)' = users[h] \cup clearing[h]
    BY <1>1, <1>3, <2>1 DEF Owned
  <2>3. QED
    BY <1>1, <2>1, <2>2, MapStep
<1>4. QED
  BY <1>2, <1>3

LEMMA LoginStep ==
    ASSUME IInv, NEW h \in Hubs, Lock_SID(h) \/ \E u \in Users : Hello_INF(h, u)
    PROVE  IInv'
<1>1. CASE Lock_SID(h)
  <2>1. TypeOK'
    <3>1. users' \in [Hubs -> SUBSET Users] /\ op' \in [Hubs -> [does : Steps, user : Users]]
      BY <1>1, GetUserTyped, HubsAssumption DEF IInv, TypeOK, Lock_SID
    <3>2. QED
      BY <1>1, <3>1 DEF IInv, TypeOK, Lock_SID, States
  <2>2. CASE h \in Adc
    BY <1>1, <2>1, <2>2, ClientStep DEF Lock_SID, IInv, Orderly
  <2>3. CASE h \notin Adc
    BY <1>1, <2>1, <2>3, GetUserStep, HubsAssumption DEF Lock_SID, Calls
  <2>4. QED
    BY <2>2, <2>3
<1>2. ASSUME NEW u \in Users, Hello_INF(h, u) PROVE IInv'
  <2>1. users' \in [Hubs -> SUBSET Users] /\ op' \in [Hubs -> [does : Steps, user : Users]]
    BY <1>2, GetUserTyped DEF IInv, TypeOK, Hello_INF
  <2>2. state' \in [Hubs -> States] /\ autoReconnect' \in [Hubs -> BOOLEAN]
    BY <1>2 DEF IInv, TypeOK, Hello_INF, States
  <2>3. TypeOK'
    BY <1>2, <2>1, <2>2 DEF IInv, TypeOK, Hello_INF
  <2>4. QED
    BY <1>2, <2>3, GetUserStep DEF Hello_INF, Calls
<1>3. QED
  BY <1>1, <1>2

LEMMA QuitStep ==
    ASSUME IInv, NEW h \in Hubs, NEW u \in Users, Quit(h, u)
    PROVE  IInv'
<1>1. TypeOK' /\ op[h].does = "idle" /\ clearing[h] = {} /\ client[h] = "live"
  BY DEF IInv, TypeOK, Quit, Begins, Calls, busy, Steps
<1>2. /\ users'[h] = users[h] \ {u} /\ op'[h] = [does |-> "erases", user |-> u]
      /\ \A k \in Hubs \ {h} : users'[k] = users[k] /\ op'[k] = op[k]
  BY DEF IInv, TypeOK, Quit, Begins
<1>3. Owned(h)' = users[h] \cup clearing[h]
  BY <1>1, <1>2 DEF Owned, Quit
<1>4. QED
  BY <1>1, <1>2, <1>3, MapStep DEF Quit

LEMMA ClearStep ==
    ASSUME IInv, NEW h \in Hubs, clearUsers_Next(h)
    PROVE  IInv'
<1>1. PICK u \in clearing[h] : clearing' = [clearing EXCEPT ![h] = @ \ {u}] /\ Begins(h, "erases", u)
  BY DEF clearUsers_Next
<1>2. TypeOK' /\ op[h].does = "idle" /\ client[h] # "shut"
  BY <1>1 DEF IInv, TypeOK, Orderly, clearUsers_Next, Begins, Steps
<1>3. /\ clearing'[h] = clearing[h] \ {u} /\ op'[h] = [does |-> "erases", user |-> u]
      /\ \A k \in Hubs \ {h} : clearing'[k] = clearing[k] /\ op'[k] = op[k]
  BY <1>1 DEF IInv, TypeOK, Begins
<1>4. Owned(h)' = users[h] \cup clearing[h] /\ users[h] \cap clearing[h] = {}
  BY <1>3 DEF IInv, Orderly, Owned, clearUsers_Next
<1>5. QED
  BY <1>2, <1>3, <1>4, MapStep DEF clearUsers_Next

\* on(Failed) of a hub that calls, and the destructor.
LEMMA FailedStep ==
    ASSUME IInv, NEW h \in Hubs, on_Failed(h)
    PROVE  IInv'
<1>1. TypeOK' /\ op[h].does = "idle" /\ clearing[h] = {} /\ client[h] = "live"
  BY DEF IInv, TypeOK, on_Failed, clearUsers, Calls, busy
<1>2. /\ users'[h] = {} /\ clearing'[h] = users[h]
      /\ \A k \in Hubs \ {h} : users'[k] = users[k] /\ clearing'[k] = clearing[k]
  BY DEF IInv, TypeOK, on_Failed, clearUsers
<1>3. Owned(h)' = users[h] \cup clearing[h]
  BY <1>1, <1>2 DEF Owned, on_Failed
<1>4. QED
  BY <1>1, <1>2, <1>3, MapStep DEF on_Failed

LEMMA DestroyStep ==
    ASSUME IInv, NEW h \in Hubs, destroy(h)
    PROVE  IInv'
<1>1. TypeOK' /\ op[h].does = "idle" /\ clearing[h] = {}
  BY DEF IInv, TypeOK, Orderly, destroy, clearUsers
<1>2. /\ users'[h] = {} /\ clearing'[h] = users[h] /\ client'[h] = "dying"
      /\ \A k \in Hubs \ {h} : users'[k] = users[k] /\ clearing'[k] = clearing[k] /\ client'[k] = client[k]
  BY DEF IInv, TypeOK, destroy, clearUsers
<1>3. Owned(h)' = users[h] \cup clearing[h]
  BY <1>1, <1>2 DEF Owned, destroy
<1>4. Elsewhere(h)
  BY <1>2 DEF Elsewhere, destroy
<1>5. Entered(h)' = Owned(h)' /\ Orderly(h)'
  <2>1. Entered(h)' = Entered(h) /\ Entered(h) = users[h] \cup clearing[h]
    BY <1>1 DEF IInv, Entered, Owned, destroy
  <2>2. Orderly(h)'
    BY <1>1, <1>2 DEF Orderly, destroy
  <2>3. QED
    BY <1>3, <2>1, <2>2
<1>6. \A u \in Users : Accounted(u)'
  BY <1>1, AccountsKeep DEF destroy
<1>7. QED
  BY <1>1, <1>4, <1>5, <1>6, OthersKeep DEF IInv

-----------------------------------------------------------------------------
(* The Client: its state, its socket, its end.                             *)

LEMMA ConnectStep ==
    ASSUME IInv, NEW h \in Hubs, getClient(h) \/ on_Second_Connects(h)
    PROVE  IInv'
<1>1. client'[h] \in {"live", "crashed"}
  BY DEF IInv, TypeOK, Orderly, getClient, on_Second_Connects
<1>2. /\ state' \in [Hubs -> States] /\ autoReconnect' \in [Hubs -> BOOLEAN]
      /\ sock' \in [Hubs -> {"none", "new", "up", "failing", "down"}] /\ sock'[h] # "none"
      /\ \A k \in Hubs \ {h} : sock'[k] = sock[k]
  <2>1. connect(h)
    BY DEF getClient, on_Second_Connects
  <2>2. QED
    BY <2>1 DEF IInv, TypeOK, connect, States
<1>3. /\ client' \in [Hubs -> {"none", "live", "shut", "dying", "crashed"}]
      /\ deciding' \in [Hubs -> BOOLEAN]
      /\ \A k \in Hubs \ {h} : client'[k] = client[k] /\ deciding'[k] = deciding[k]
  BY DEF IInv, TypeOK, getClient, on_Second_Connects
<1>4. UNCHANGED <<users, clearing, op, listVars>>
  BY DEF getClient, on_Second_Connects, connect
<1>5. TypeOK'
  BY <1>1, <1>2, <1>3, <1>4 DEF IInv, TypeOK
<1>6. QED
  BY <1>1, <1>3, <1>4, <1>5, ClientStep

LEMMA SocketStep ==
    ASSUME IInv, NEW h \in Hubs,
           \/ on_Connected(h) \/ StayAway(h) \/ on_Failed_End(h) \/ disconnect(h) \/ on_Second(h)
           \/ shutdown(h) \/ destroy_End(h)
    PROVE  IInv'
<1>1. CASE on_Connected(h) \/ on_Failed_End(h)
  <2>1. TypeOK'
    <3>1. CASE on_Connected(h)
      BY <3>1 DEF IInv, TypeOK, on_Connected, Calls, States
    <3>2. CASE on_Failed_End(h)
      BY <3>2 DEF IInv, TypeOK, on_Failed_End, States
    <3>3. QED
      BY <1>1, <3>1, <3>2
  <2>2. QED
    BY <1>1, <2>1, ClientStep DEF IInv, Orderly, on_Connected, on_Failed_End
<1>2. CASE StayAway(h)
  <2>1. TypeOK'
    BY <1>2 DEF IInv, TypeOK, StayAway
  <2>2. QED
    BY <1>2, <2>1, ClientStep DEF IInv, Orderly, StayAway
<1>3. CASE disconnect(h)
  <2>1. state' \in [Hubs -> States] /\ autoReconnect' \in [Hubs -> BOOLEAN]
    BY <1>3 DEF IInv, TypeOK, disconnect, States
  <2>3. TypeOK'
    BY <1>3, <2>1 DEF IInv, TypeOK, disconnect
  <2>2. QED
    BY <1>3, <2>3, ClientStep DEF IInv, Orderly, disconnect
<1>4. CASE on_Second(h)
  <2>1. TypeOK' /\ client[h] # "none" /\ \A k \in Hubs \ {h} : deciding'[k] = deciding[k]
    BY <1>4 DEF IInv, TypeOK, on_Second
  <2>2. QED
    BY <1>4, <2>1, ClientStep DEF IInv, Orderly, on_Second
<1>5. CASE shutdown(h)
  <2>1. TypeOK' /\ client'[h] = "shut" /\ \A k \in Hubs \ {h} : client'[k] = client[k]
    BY <1>5 DEF IInv, TypeOK, shutdown, States
  <2>2. op[h].does = "idle" /\ clearing[h] = {}
    BY <1>5 DEF shutdown, busy
  <2>3. QED
    BY <1>5, <2>1, <2>2, ClientStep DEF shutdown
<1>6. CASE destroy_End(h)
  <2>1. TypeOK' /\ client'[h] = "none" /\ \A k \in Hubs \ {h} : client'[k] = client[k]
    BY <1>6 DEF IInv, TypeOK, destroy_End, States
  <2>2. QED
    BY <1>6, <2>1, ClientStep DEF destroy_End
<1>7. QED
  BY <1>1, <1>2, <1>3, <1>4, <1>5, <1>6

LEMMA StutterStep == IInv /\ UNCHANGED vars => IInv'
<1> SUFFICES ASSUME IInv, UNCHANGED vars PROVE IInv'
  OBVIOUS
<1>1. TypeOK'
  BY DEF vars, IInv, TypeOK
<1>2. \A h \in Hubs : Entered(h)' = Owned(h)' /\ Orderly(h)'
  BY DEF vars, IInv, Entered, Owned, Orderly
<1>3. \A u \in Users : Accounted(u)'
  <2>1. \A u \in Users : Listed(u)' = Listed(u)
    BY DEF vars, Listed
  <2>2. \A u \in Users, does \in SUBSET {"unsets", "withdraws"} : Leaving(u, does)' <=> Leaving(u, does)
    BY DEF vars, Leaving
  <2>3. QED
    BY <2>1, <2>2 DEF vars, IInv, Accounted
<1>4. QED
  BY <1>1, <1>2, <1>3 DEF IInv

LEMMA NextInv == IInv /\ [Next]_vars => IInv'
<1> SUFFICES ASSUME IInv, [Next]_vars PROVE IInv'
  OBVIOUS
<1>1. CASE UNCHANGED vars
  BY <1>1, StutterStep
<1>2. CASE Crashed
  BY <1>2, StutterStep DEF Crashed
<1>3. ASSUME NEW h \in Hubs, putOnline(h) \/ putOffline(h) PROVE IInv'
  BY <1>3, PutOnlineStep, PutOfflineStep
<1>4. ASSUME NEW h \in Hubs, putOnline_Flag(h) \/ putOnline_Fire(h) PROVE IInv'
  BY <1>4, PutOnlineFlagStep
<1>5. ASSUME NEW h \in Hubs, putOffline_Flag(h) \/ putOffline_Fire(h) PROVE IInv'
  BY <1>5, PutOfflineFlagStep
<1>6. ASSUME NEW h \in Hubs, clearUsers_Next(h) \/ on_Failed(h) \/ destroy(h) PROVE IInv'
  BY <1>6, ClearStep, FailedStep, DestroyStep
<1>7. ASSUME NEW h \in Hubs, Lock_SID(h) \/ \E u \in Users : Hello_INF(h, u) PROVE IInv'
  BY <1>7, LoginStep
<1>8. ASSUME NEW h \in Hubs, NEW u \in Users, Quit(h, u) PROVE IInv'
  BY <1>8, QuitStep
<1>9. ASSUME NEW h \in Hubs, getClient(h) \/ on_Second_Connects(h) PROVE IInv'
  BY <1>9, ConnectStep
<1>10. ASSUME NEW h \in Hubs,
              \/ on_Connected(h) \/ StayAway(h) \/ on_Failed_End(h) \/ disconnect(h) \/ on_Second(h)
              \/ shutdown(h) \/ destroy_End(h)
       PROVE  IInv'
  BY <1>10, SocketStep
<1>11. QED
  BY <1>1, <1>2, <1>3, <1>4, <1>5, <1>6, <1>7, <1>8, <1>9, <1>10 DEF Next

LEMMA Invariance == Spec => []IInv
  BY InitInv, NextInv, PTL DEF Spec

-----------------------------------------------------------------------------
\* Every variable keeps its type, and a Client has a socket unless it is shut:
\* Client::shutdown() forgets what it gives back.
THEOREM TypeCorrect == Spec => []TypeOK
<1>1. IInv => TypeOK
  BY DEF IInv
<1>2. QED
  BY <1>1, Invariance, PTL

\* The shared list holds exactly what the hubs own: the assertion of
\* UsersManager::putOffline() holds, and no entry is left when its OnlineUser is
\* deleted.
THEOREM ListsAgreeHolds == Spec => []ListsAgree
<1>1. IInv => ListsAgree
  BY DEF IInv, ListsAgree, Entered, Owned
<1>2. QED
  BY <1>1, Invariance, PTL

\* Who has left every hub is not ONLINE and has been announced to be gone,
\* whatever the order in which the hubs' threads run UsersManager::putOffline().
THEOREM GoneIsOfflineHolds == Spec => []GoneIsOffline
<1>1. IInv => GoneIsOffline
  <2> SUFFICES ASSUME IInv, NEW u \in Users, Quiet(u), Listed(u) = {}
               PROVE  u \notin online /\ told[u] # "UserConnected"
    BY DEF GoneIsOffline
  <2>1. ~Leaving(u, {"unsets"}) /\ ~Leaving(u, {"unsets", "withdraws"})
    BY DEF Quiet, Leaving
  <2>2. QED
    BY <2>1 DEF IInv, Accounted
<1>2. QED
  BY <1>1, Invariance, PTL
=============================================================================
