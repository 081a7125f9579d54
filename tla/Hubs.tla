--------------------------------- MODULE Hubs ---------------------------------
(***************************************************************************)
(* The hubs the program is logged in to, and who is online: Client with    *)
(* its NmdcHub or AdcHub, each with the thread of its socket, composed     *)
(* with the UsersManager, whose list of the users of all hubs they share.  *)
(*                                                                         *)
(* A hub's socket is what SocketLife says of it: only the one that the     *)
(* Client holds now can call it.  A call (on(Connected), on(Line),         *)
(* on(Failed)) takes several steps here, and while it lasts the thread     *)
(* holds listenerCS, for which putSocket() waits: busy says so.            *)
(*                                                                         *)
(* A user stands for its nick or its SID.  What the hub's lines say of     *)
(* it, searches, chat and the hub's own pseudo-user are left out; the      *)
(* password exchange (STATE_VERIFY) is part of IDENTIFY.  When a Client    *)
(* reconnects is a matter of time: the delay is over or not, as it likes.  *)
(***************************************************************************)
EXTENDS Naturals, FiniteSets

CONSTANTS Hubs,    \* the hub windows
          Adc,     \* those of them that speak ADC
          Users,   \* the users the hubs tell of
          Me       \* the one that is getMe()

ASSUME HubsAssumption == /\ IsFiniteSet(Hubs) /\ IsFiniteSet(Users)
                         /\ Adc \subseteq Hubs /\ Me \in Users

VARIABLES client,        \* none, live, then putClient(): shut, dying; or crashed
          state,         \* Client::state
          autoReconnect,
          sock,          \* the socket: none, new, up, failing (inside Failed), down
          deciding,      \* on(Second) found that it is time to connect()
          users,         \* the hub's map of users
          clearing,      \* clearUsers(): the users still to be put offline
          op,            \* the call to the UsersManager under way: [does, user]
          onlineUsers,   \* UsersManager: the OnlineUsers of all hubs, as <<hub, user>>
          online,        \* the users with User::ONLINE
          told           \* the last event the listeners heard of a user

clientVars == <<client, state, autoReconnect, sock, deciding>>
listVars == <<onlineUsers, online, told>>
vars == <<clientVars, users, clearing, op, listVars>>

States == {"DISCONNECTED", "CONNECTING", "PROTOCOL", "IDENTIFY", "NORMAL"}
Steps == {"idle", "inserts", "sets", "announces", "erases", "unsets", "withdraws"}

Idle == [does |-> "idle", user |-> Me]

Init ==
    /\ client = [h \in Hubs |-> "none"]
    /\ state = [h \in Hubs |-> "DISCONNECTED"]
    /\ autoReconnect = [h \in Hubs |-> FALSE]
    /\ sock = [h \in Hubs |-> "none"]
    /\ deciding = [h \in Hubs |-> FALSE]
    /\ users = [h \in Hubs |-> {}]
    /\ clearing = [h \in Hubs |-> {}]
    /\ op = [h \in Hubs |-> Idle]
    /\ onlineUsers = {} /\ online = {}
    /\ told = [u \in Users |-> "nothing"]

(* a call of the socket is under way; the destructor's clearUsers() too *)
busy(h) == op[h].does # "idle" \/ clearing[h] # {} \/ sock[h] = "failing"

Begins(h, does, u) == op' = [op EXCEPT ![h] = [does |-> does, user |-> u]]

(* the next thing the hub's thread does in the list, or nothing *)
Goes(h, does) == op' = [op EXCEPT ![h] = IF does = "idle" THEN Idle ELSE [@ EXCEPT !.does = does]]
-----------------------------------------------------------------------------
(* UsersManager.  Its list is changed under its lock, the flag of the user
   and the events come after it has been let go. *)

(* putOnline(), the list *)
putOnline(h) ==
    /\ op[h].does = "inserts"
    /\ onlineUsers' = onlineUsers \cup {<<h, op[h].user>>}
    /\ Goes(h, "sets")
    /\ UNCHANGED <<clientVars, users, clearing, online, told>>

(* putOnline(), the flag *)
putOnline_Flag(h) ==
    /\ op[h].does = "sets"
    /\ online' = online \cup {op[h].user}
    /\ Goes(h, IF op[h].user \in online THEN "idle" ELSE "announces")
    /\ UNCHANGED <<clientVars, users, clearing, onlineUsers, told>>

(* putOnline(), UserConnected *)
putOnline_Fire(h) ==
    /\ op[h].does = "announces"
    /\ told' = [told EXCEPT ![op[h].user] = "UserConnected"]
    /\ Goes(h, "idle")
    /\ UNCHANGED <<clientVars, users, clearing, onlineUsers, online>>

(* the OnlineUsers that are listed for the user *)
Listed(u) == {e \in onlineUsers : e[2] = u}

(* Mutant: a putOffline() that counts after it has erased *)
putOffline_CountsLate(h) ==
    LET u == op[h].user IN
    /\ op[h].does = "erases"
    /\ onlineUsers' = onlineUsers \ {<<h, u>>}
    /\ Goes(h, IF Cardinality(Listed(u) \ {<<h, u>>}) = 1 THEN "unsets" ELSE "idle")
    /\ UNCHANGED <<clientVars, users, clearing, online, told>>

(* putOffline(), the list *)
putOffline(h) ==
    LET u == op[h].user IN
    /\ op[h].does = "erases"
    /\ onlineUsers' = onlineUsers \ {<<h, u>>}
    /\ Goes(h, IF <<h, u>> \in onlineUsers /\ Cardinality(Listed(u)) = 1 THEN "unsets" ELSE "idle")
    /\ UNCHANGED <<clientVars, users, clearing, online, told>>

(* putOffline(), the flag *)
putOffline_Flag(h) ==
    /\ op[h].does = "unsets"
    /\ online' = online \ {op[h].user}
    /\ Goes(h, "withdraws")
    /\ UNCHANGED <<clientVars, users, clearing, onlineUsers, told>>

(* putOffline(), UserDisconnected *)
putOffline_Fire(h) ==
    /\ op[h].does = "withdraws"
    /\ told' = [told EXCEPT ![op[h].user] = "UserDisconnected"]
    /\ Goes(h, "idle")
    /\ UNCHANGED <<clientVars, users, clearing, onlineUsers, online>>
-----------------------------------------------------------------------------
(* The hub's thread: the socket calls its Client. *)

Calls(h, s) == client[h] = "live" /\ sock[h] = s /\ ~busy(h)

(* on(Connected) *)
on_Connected(h) ==
    /\ Calls(h, "new")
    /\ sock' = [sock EXCEPT ![h] = "up"]
    /\ state' = [state EXCEPT ![h] = "PROTOCOL"]
    /\ UNCHANGED <<client, autoReconnect, deciding, users, clearing, op, listVars>>

(* getUser(): a user that is not in the map is added and put online.  Over NMDC
   not if its CID is zero, but each is a Tiger hash: of the nick and the hub
   (makeCid()), or of our own PID (getMyCID()) *)
getUser(h, u) ==
    IF u \in users[h] THEN UNCHANGED <<users, op>>
    ELSE /\ users' = [users EXCEPT ![h] = @ \cup {u}]
         /\ Begins(h, "inserts", u)

(* $Lock, SID: the hub speaks the protocol; over NMDC we know our own nick *)
Lock_SID(h) ==
    /\ Calls(h, "up") /\ state[h] = "PROTOCOL"
    /\ state' = [state EXCEPT ![h] = "IDENTIFY"]
    /\ IF h \in Adc THEN UNCHANGED <<users, op>> ELSE getUser(h, Me)
    /\ UNCHANGED <<client, autoReconnect, sock, deciding, clearing, listVars>>

(* $Hello, $MyINFO, INF: the hub tells of a user; told of itself the program
   is logged in, over ADC whatever the state was *)
Hello_INF(h, u) ==
    /\ Calls(h, "up")
    /\ getUser(h, u)
    /\ IF u = Me /\ (h \in Adc \/ state[h] = "IDENTIFY")
       THEN /\ state' = [state EXCEPT ![h] = "NORMAL"]
            /\ autoReconnect' = [autoReconnect EXCEPT ![h] = @ \/ h \in Adc]
       ELSE UNCHANGED <<state, autoReconnect>>
    /\ UNCHANGED <<client, sock, deciding, clearing, listVars>>

(* $Quit, QUI: putUser() *)
Quit(h, u) ==
    /\ Calls(h, "up") /\ u \in users[h]
    /\ users' = [users EXCEPT ![h] = @ \ {u}]
    /\ Begins(h, "erases", u)
    /\ UNCHANGED <<clientVars, clearing, listVars>>

(* "banned" before the login; QUI with TL: come back, or never *)
StayAway(h) ==
    /\ Calls(h, "up")
    /\ h \in Adc \/ state[h] # "NORMAL"
    /\ \E b \in IF h \in Adc THEN BOOLEAN ELSE {FALSE} :
         autoReconnect' = [autoReconnect EXCEPT ![h] = b]
    /\ UNCHANGED <<client, state, sock, deciding, users, clearing, op, listVars>>

(* Mutant: the users that clearUsers() leaves in the list *)
clearUsers_SkipsMe(h) ==
    /\ users' = [users EXCEPT ![h] = {}]
    /\ clearing' = [clearing EXCEPT ![h] = users[h] \ {Me}]

(* clearUsers(): the map is swapped out under the lock *)
clearUsers(h) ==
    /\ users' = [users EXCEPT ![h] = {}]
    /\ clearing' = [clearing EXCEPT ![h] = users[h]]

(* clearUsers(), its loop *)
clearUsers_Next(h) ==
    /\ op[h].does = "idle"
    /\ \E u \in clearing[h] : /\ clearing' = [clearing EXCEPT ![h] = @ \ {u}]
                              /\ Begins(h, "erases", u)
    /\ UNCHANGED <<clientVars, users, listVars>>

(* on(Failed), as far as clearUsers() has swapped the map *)
on_Failed(h) ==
    /\ Calls(h, "new") \/ Calls(h, "up")
    /\ sock' = [sock EXCEPT ![h] = "failing"]
    /\ clearUsers(h)
    /\ UNCHANGED <<client, state, autoReconnect, deciding, op, listVars>>

(* Mutant: an on(Failed) that leaves a login as it was *)
on_Failed_End_KeepsNormal(h) ==
    /\ sock[h] = "failing" /\ op[h].does = "idle" /\ clearing[h] = {}
    /\ sock' = [sock EXCEPT ![h] = "down"]
    /\ state' = [state EXCEPT ![h] = IF @ = "NORMAL" THEN @ ELSE "DISCONNECTED"]
    /\ UNCHANGED <<client, autoReconnect, deciding, users, clearing, op, listVars>>

(* on(Failed), after clearUsers() *)
on_Failed_End(h) ==
    /\ sock[h] = "failing" /\ op[h].does = "idle" /\ clearing[h] = {}
    /\ sock' = [sock EXCEPT ![h] = "down"]
    /\ state' = [state EXCEPT ![h] = "DISCONNECTED"]
    /\ UNCHANGED <<client, autoReconnect, deciding, users, clearing, op, listVars>>
-----------------------------------------------------------------------------
(* The user interface's thread and the timer's thread *)

(* connect(): the old socket is put back and never calls again; what it had
   to say, its Failed too, is not heard.  An exception leaves a socket that
   does nothing. *)
connect(h) ==
    /\ sock[h] # "none" => ~busy(h)
    /\ autoReconnect' = [autoReconnect EXCEPT ![h] = TRUE]
    /\ \/ /\ state' = [state EXCEPT ![h] = "CONNECTING"]
          /\ sock' = [sock EXCEPT ![h] = "new"]
       \/ /\ state' = [state EXCEPT ![h] = "DISCONNECTED"]
          /\ sock' = [sock EXCEPT ![h] = "down"]
    /\ UNCHANGED <<users, clearing, op, listVars>>

(* connectClient_client(): a window is opened *)
getClient(h) ==
    /\ client[h] = "none"
    /\ client' = [client EXCEPT ![h] = "live"]
    /\ connect(h)
    /\ UNCHANGED deciding

(* disconnect(): $ForceMove, QUI with RD, a closing window; reconnect().  The
   task it queues ends the connection at some time, as on_Failed may anyway. *)
disconnect(h) ==
    /\ client[h] = "live"
    /\ state' = [state EXCEPT ![h] = "DISCONNECTED"]
    /\ \/ UNCHANGED autoReconnect
       \/ autoReconnect' = [autoReconnect EXCEPT ![h] = TRUE]
    /\ UNCHANGED <<client, sock, deciding, users, clearing, op, listVars>>

(* on(Second): the condition.  There is one timer thread. *)
on_Second(h) ==
    /\ client[h] \in {"live", "shut", "dying"}
    /\ \A k \in Hubs : ~deciding[k]
    /\ state[h] = "DISCONNECTED" /\ autoReconnect[h]
    /\ deciding' = [deciding EXCEPT ![h] = TRUE]
    /\ UNCHANGED <<client, state, autoReconnect, sock, users, clearing, op, listVars>>

(* on(Second): connect().  Of a Client that is being deleted it makes one
   with a socket, which ~Client() asserts it has not. *)
on_Second_Connects(h) ==
    /\ deciding[h]
    /\ deciding' = [deciding EXCEPT ![h] = FALSE]
    /\ connect(h)
    /\ client' = [client EXCEPT ![h] = IF @ \in {"shut", "dying"} THEN "crashed" ELSE @]

(* Mutant: a shutdown() that forgets to forget the socket *)
shutdown_KeepsPointer(h) ==
    /\ client[h] = "live" /\ ~busy(h)
    /\ client' = [client EXCEPT ![h] = "shut"]
    /\ state' = [state EXCEPT ![h] = "DISCONNECTED"]
    /\ UNCHANGED <<autoReconnect, sock, deciding, users, clearing, op, listVars>>

(* putClient(), shutdown(); that it sets the state before putSocket() has
   waited for a call of the socket is left out *)
shutdown(h) ==
    /\ client[h] = "live" /\ ~busy(h)
    /\ client' = [client EXCEPT ![h] = "shut"]
    /\ state' = [state EXCEPT ![h] = "DISCONNECTED"]
    /\ sock' = [sock EXCEPT ![h] = "none"]
    /\ UNCHANGED <<autoReconnect, deciding, users, clearing, op, listVars>>

(* putClient(), the destructor of the NmdcHub or AdcHub *)
destroy(h) ==
    /\ client[h] = "shut"
    /\ client' = [client EXCEPT ![h] = "dying"]
    /\ clearUsers(h)
    /\ UNCHANGED <<state, autoReconnect, sock, deciding, op, listVars>>

(* putClient(), ~Client(): removeListener() waits for the timer's call *)
destroy_End(h) ==
    /\ client[h] = "dying" /\ ~busy(h) /\ ~deciding[h]
    /\ client' = [client EXCEPT ![h] = "none"]
    /\ state' = [state EXCEPT ![h] = "DISCONNECTED"]
    /\ autoReconnect' = [autoReconnect EXCEPT ![h] = FALSE]
    /\ UNCHANGED <<sock, deciding, users, clearing, op, listVars>>
-----------------------------------------------------------------------------
Works(h) == \/ putOnline(h) \/ putOnline_Flag(h) \/ putOnline_Fire(h)
            \/ putOffline(h) \/ putOffline_Flag(h) \/ putOffline_Fire(h)
            \/ clearUsers_Next(h) \/ on_Failed_End(h)

(* what a deleted Client does that has a socket is not defined: nothing here *)
Crashed == (\A h \in Hubs : client[h] = "crashed") /\ UNCHANGED vars

Next ==
    \/ \E h \in Hubs :
         \/ putOnline(h) \/ putOnline_Flag(h) \/ putOnline_Fire(h)
         \/ putOffline(h) \/ putOffline_Flag(h) \/ putOffline_Fire(h)
         \/ clearUsers_Next(h) \/ on_Failed_End(h)
         \/ on_Connected(h) \/ Lock_SID(h) \/ StayAway(h) \/ on_Failed(h)
         \/ \E u \in Users : Hello_INF(h, u) \/ Quit(h, u)
         \/ getClient(h) \/ disconnect(h) \/ on_Second(h) \/ on_Second_Connects(h)
         \/ shutdown(h) \/ destroy(h) \/ destroy_End(h)
    \/ Crashed

Spec == Init /\ [][Next]_vars

(* A call that has begun goes on; the timer ticks, and connect() gets the lock
   that the calls take in turn. *)
Fairness ==
    \A h \in Hubs : /\ WF_vars(Works(h))
                    /\ SF_vars(on_Second(h)) /\ SF_vars(on_Second_Connects(h))

FairSpec == Spec /\ Fairness
-----------------------------------------------------------------------------
TypeOK ==
    /\ client \in [Hubs -> {"none", "live", "shut", "dying", "crashed"}]
    /\ state \in [Hubs -> States]
    /\ autoReconnect \in [Hubs -> BOOLEAN]
    /\ sock \in [Hubs -> {"none", "new", "up", "failing", "down"}]
    /\ deciding \in [Hubs -> BOOLEAN]
    /\ users \in [Hubs -> SUBSET Users]
    /\ clearing \in [Hubs -> SUBSET Users]
    /\ op \in [Hubs -> [does : Steps, user : Users]]
    /\ onlineUsers \subseteq Hubs \X Users
    /\ online \subseteq Users
    /\ told \in [Users -> {"nothing", "UserConnected", "UserDisconnected"}]
    /\ \A h \in Hubs : sock[h] = "none" <=> client[h] \in {"none", "shut", "dying"}

(* The OnlineUsers of the UsersManager are those the hubs still own: it holds
   plain pointers to them, which the hub deletes once putOffline() has
   returned, and putOffline() asserts that it finds what it is given. *)
ListsAgree ==
    \A h \in Hubs :
        {u \in Users : <<h, u>> \in onlineUsers}
            = (users[h] \cup clearing[h]
                 \cup (IF op[h].does = "erases" THEN {op[h].user} ELSE {}))
              \ (IF op[h].does = "inserts" THEN {op[h].user} ELSE {})

(* no hub's thread is in the UsersManager with this user *)
Quiet(u) == \A h \in Hubs : op[h].does = "idle" \/ op[h].user # u

(* A user whom no hub lists is not online for the queue, and the listeners have
   heard that it left: whatever order the hubs' threads come in, the last one to
   erase it takes the flag back. *)
GoneIsOffline ==
    \A u \in Users : Quiet(u) /\ Listed(u) = {} => u \notin online /\ told[u] # "UserConnected"

(* "User offline in all hubs" says UsersManagerListener of UserDisconnected: a
   user whom a hub lists is online and the last event heard of it is
   UserConnected. *)
ListedIsOnline ==
    \A u \in Users : Quiet(u) /\ Listed(u) # {} => u \in online /\ told[u] = "UserConnected"

(* A hub that was lost is tried again, and again after each failure, unless it
   told us to stay away or its window is closed. *)
Reconnects ==
    \A h \in Hubs : sock[h] = "down" /\ autoReconnect[h]
                    ~> deciding[h] \/ ~autoReconnect[h] \/ client[h] # "live"
===============================================================================
