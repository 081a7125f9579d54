-------------------------- MODULE BufferedSocketProofs --------------------------
(***************************************************************************)
(* What the sockets and the throttle that holds their threads back keep,   *)
(* for any number of sockets and tasks, and that BufferedSocket implements *)
(* SocketLife.                                                             *)
(***************************************************************************)
EXTENDS BufferedSocket, SequenceTheorems, TLAPS

USE DEF throttleVars, socketVars

-----------------------------------------------------------------------------
(* Queues.                                                                 *)

LEMMA ContainsAppend ==
    ASSUME NEW S, NEW q \in Seq(S), NEW t, NEW e
    PROVE  Contains(Append(q, t), e) <=> Contains(q, e) \/ t = e
<1>1. Len(Append(q, t)) = Len(q) + 1 /\ Len(q) \in Nat
  OBVIOUS
<1>2. Append(q, t)[Len(q) + 1] = t /\ \A i \in 1..Len(q) : Append(q, t)[i] = q[i]
  OBVIOUS
<1>3. 1..(Len(q) + 1) = 1..Len(q) \cup {Len(q) + 1}
  BY <1>1
<1>4. QED
  BY <1>1, <1>2, <1>3 DEF Contains

LEMMA ContainsTail ==
    ASSUME NEW S, NEW q \in Seq(S), q # <<>>, NEW e
    PROVE  Contains(q, e) <=> Head(q) = e \/ Contains(Tail(q), e)
<1>1. Len(Tail(q)) = Len(q) - 1 /\ Len(q) \in Nat \ {0} /\ Head(q) = q[1]
  OBVIOUS
<1>2. \A i \in 1..(Len(q) - 1) : Tail(q)[i] = q[i + 1]
  OBVIOUS
<1>3. \A i \in 1..Len(q) : i = 1 \/ (i - 1 \in 1..(Len(q) - 1) /\ Tail(q)[i - 1] = q[i])
  BY <1>1, <1>2
<1>4. \A i \in 1..(Len(q) - 1) : i + 1 \in 1..Len(q)
  BY <1>1
<1>5. 1 \in 1..Len(q)
  BY <1>1
<1>6. ASSUME Contains(q, e) PROVE Head(q) = e \/ Contains(Tail(q), e)
  <2>1. PICK i \in 1..Len(q) : q[i] = e
    BY <1>6 DEF Contains
  <2>2. QED
    BY <1>1, <1>3, <2>1 DEF Contains
<1>7. ASSUME Contains(Tail(q), e) PROVE Contains(q, e)
  <2>1. PICK i \in 1..(Len(q) - 1) : Tail(q)[i] = e
    BY <1>1, <1>7 DEF Contains
  <2>2. q[i + 1] = e /\ i + 1 \in 1..Len(q)
    BY <1>2, <1>4, <2>1
  <2>3. QED
    BY <2>2 DEF Contains
<1>8. Head(q) = e => Contains(q, e)
  BY <1>1, <1>5 DEF Contains
<1>9. QED
  BY <1>6, <1>7, <1>8

-----------------------------------------------------------------------------
(* The throttle.                                                           *)

\* Before the first tick nothing is locked; inside a tick there is an active
\* mutex.
GateInv ==
    /\ ThrottleTypeOK
    /\ OneGateShut
    /\ timer = "second" => activeWaiter # -1
    /\ timer = "idle" /\ activeWaiter = -1 => \A g \in Gates : held[g] = 0

\* The timer's and the main thread's steps.
LEMMA TimerStep ==
    ASSUME GateInv, Second_Opens \/ Second_Turns \/ Timer_Stops \/ ThrottleShutdown
    PROVE  GateInv'
<1> USE DEF GateInv, ThrottleTypeOK, OneGateShut, getCurThrottling, Gates
<1>1. CASE Second_Opens
  BY <1>1 DEF Second_Opens
<1>2. CASE Second_Turns
  <2>1. CASE activeWaiter = 0
    BY <1>2, <2>1 DEF Second_Turns
  <2>2. CASE activeWaiter = 1
    BY <1>2, <2>2 DEF Second_Turns
  <2>3. QED
    BY <1>2, <2>1, <2>2 DEF Second_Turns
<1>3. CASE Timer_Stops
  BY <1>3 DEF Timer_Stops
<1>4. CASE ThrottleShutdown
  BY <1>4 DEF ThrottleShutdown
<1>5. QED
  BY <1>1, <1>2, <1>3, <1>4

\* A transfer asks, chooses and waits.
LEMMA WaiterStep ==
    ASSUME GateInv, NEW t \in Threads, NoToken(t) \/ waitToken_Chooses(t) \/ waitToken_Locks(t)
    PROVE  GateInv'
<1>1. UNCHANGED <<activeWaiter, held, timer>>
  BY DEF NoToken, waitToken_Chooses, waitToken_Locks
<1>2. at' \in [Threads -> {"out", "in", "blocked"}] /\ curCS' \in [Threads -> Gates]
  BY DEF GateInv, ThrottleTypeOK, NoToken, waitToken_Chooses, waitToken_Locks, Gates
<1>3. QED
  BY <1>1, <1>2 DEF GateInv, ThrottleTypeOK, OneGateShut, getCurThrottling

-----------------------------------------------------------------------------
(* The types.                                                              *)

LEMMA ToldType ==
    ASSUME NEW q \in Seq(Life!Calls), NEW e \in Life!Calls
    PROVE  Life!Told(q, e) \in Seq(Life!Calls)
BY DEF Life!Told

\* What fail() does to the types, with the tasks that are left.
LEMMA FailType ==
    ASSUME TypeOK, NEW s \in Sockets, fail(s), NEW rest \in Seq(Tasks)
    PROVE  /\ state' \in [Sockets -> {"none", "STARTING", "RUNNING", "FAILED", "deleted"}]
           /\ heard' \in [Sockets -> Seq(Life!Calls)]
           /\ owner' \in [Sockets -> {"none", "new", "open", "put"}]
           /\ disconnecting' \in [Sockets -> BOOLEAN]
           /\ TasksAfterFail(s, rest) \in Seq(Tasks)
<1>1. Life!Told(heard[s], "Failed") \in Seq(Life!Calls)
  BY ToldType DEF TypeOK, Life!Calls
<1>2. heard' \in [Sockets -> Seq(Life!Calls)]
  BY <1>1 DEF TypeOK, fail, fire
<1>3. TasksAfterFail(s, rest) \in Seq(Tasks)
  BY DEF TasksAfterFail, Tasks
<1>4. QED
  BY <1>2, <1>3 DEF TypeOK, fail

\* The steps that are made on one socket and leave the throttle alone.
SocketStep(s) ==
    \/ getSocket(s) \/ connect_accept(s) \/ write(s) \/ transmitFile_callAsync(s)
    \/ \E graceless \in BOOLEAN : disconnect(s, graceless)
    \/ Released(s)
    \/ TakeWhenStarting(s) \/ TakeInAnyState(s) \/ TakeSendData(s)
    \/ TakeSendFile(s) \/ TakeDisconnect(s)
    \/ checkSocket(s) \/ Completes(s) \/ Stops(s) \/ Throws(s) \/ threadRead(s)

LEMMA SocketStepType ==
    ASSUME TypeOK, NEW s \in Sockets, SocketStep(s)
    PROVE  TypeOK'
<1> USE DEF TypeOK
<1>0. throttleVars' = throttleVars /\ main' = main
  BY DEF SocketStep, getSocket, connect_accept, write, transmitFile_callAsync, disconnect, Released,
         TakeWhenStarting, TakeInAnyState, TakeSendData, TakeSendFile, TakeDisconnect, Takes,
         checkSocket, Completes, Stops, Throws, threadRead
<1>1. ThrottleTypeOK'
  BY <1>0 DEF ThrottleTypeOK
<1>2. CASE getSocket(s)
  BY <1>0, <1>1, <1>2 DEF getSocket
<1>3. CASE connect_accept(s)
  <2>1. \A t \in Tasks : Append(tasks[s], t) \in Seq(Tasks)
    OBVIOUS
  <2>2. tasks' \in [Sockets -> Seq(Tasks)]
    BY <1>3, <2>1 DEF connect_accept, addTask, Tasks
  <2>3. QED
    BY <1>0, <1>1, <1>3, <2>2 DEF connect_accept
<1>4. CASE write(s)
  <2>1. Append(tasks[s], "SEND_DATA") \in Seq(Tasks)
    BY DEF Tasks
  <2>2. tasks' \in [Sockets -> Seq(Tasks)]
    BY <1>4, <2>1 DEF write, addTask
  <2>3. writeBuf' \in [Sockets -> BOOLEAN]
    BY <1>4 DEF write
  <2>4. QED
    BY <1>0, <1>1, <1>4, <2>2, <2>3 DEF write
<1>5. CASE transmitFile_callAsync(s)
  <2>1. Append(tasks[s], "SEND_FILE") \in Seq(Tasks) /\ Append(tasks[s], "ASYNC_CALL") \in Seq(Tasks)
    BY DEF Tasks
  <2>2. QED
    BY <1>0, <1>1, <1>5, <2>1 DEF transmitFile_callAsync, addTask
<1>6. CASE \E graceless \in BOOLEAN : disconnect(s, graceless)
  <2>1. Append(tasks[s], "DISCONNECT") \in Seq(Tasks)
    BY DEF Tasks
  <2>2. PICK graceless \in BOOLEAN : disconnect(s, graceless)
    BY <1>6
  <2>3. disconnecting' \in [Sockets -> BOOLEAN]
    BY <2>2, ZenonT(40) DEF disconnect
  <2>4. QED
    BY <1>0, <1>1, <2>1, <2>2, <2>3 DEF disconnect, disconnectTask, addTask
<1>7. CASE Released(s)
  <2>1. Append(tasks[s], "SHUTDOWN") \in Seq(Tasks)
    BY DEF Tasks
  <2>2. QED
    BY <1>0, <1>1, <1>7, <2>1 DEF Released, putSocket, addTask
<1>8. CASE TakeWhenStarting(s)
  <2>1. Tail(tasks[s]) \in Seq(Tasks)
    BY <1>8 DEF TakeWhenStarting
  <2>2. tasks' \in [Sockets -> Seq(Tasks)]
    BY <1>8, <2>1 DEF TakeWhenStarting
  <2>3. /\ state' \in [Sockets -> {"none", "STARTING", "RUNNING", "FAILED", "deleted"}]
        /\ pc' \in [Sockets -> Busy \cup {"events"}]
    BY <1>8 DEF TakeWhenStarting, Busy
  <2>4. Life!Told(heard[s], "Connecting") \in Seq(Life!Calls)
    BY ToldType DEF Life!Calls
  <2>5. heard' \in [Sockets -> Seq(Life!Calls)]
    BY <1>8, <2>4 DEF TakeWhenStarting, fire
  <2>6. QED
    BY <1>0, <1>1, <1>8, <2>2, <2>3, <2>5 DEF TakeWhenStarting
<1>9. CASE TakeInAnyState(s)
  <2>1. Tail(tasks[s]) \in Seq(Tasks) /\ <<>> \in Seq(Tasks)
    BY <1>9 DEF TakeInAnyState
  <2>2. tasks' \in [Sockets -> Seq(Tasks)]
    BY <1>9, <2>1 DEF TakeInAnyState
  <2>3. state' \in [Sockets -> {"none", "STARTING", "RUNNING", "FAILED", "deleted"}]
    BY <1>9 DEF TakeInAnyState
  <2>4. QED
    BY <1>0, <1>1, <1>9, <2>2, <2>3 DEF TakeInAnyState
<1>10. CASE TakeSendData(s)
  <2>1. Tail(tasks[s]) \in Seq(Tasks)
    BY <1>10 DEF TakeSendData, Takes
  <2>2. tasks' \in [Sockets -> Seq(Tasks)]
    BY <1>10, <2>1 DEF TakeSendData
  <2>3. writeBuf' \in [Sockets -> BOOLEAN]
    BY <1>10, ZenonT(40) DEF TakeSendData
  <2>4. sendBuf' \in [Sockets -> BOOLEAN]
    BY <1>10, ZenonT(40) DEF TakeSendData
  <2>5. pc' \in [Sockets -> Busy \cup {"events"}]
    BY <1>10 DEF TakeSendData, Busy
  <2>6. QED
    BY <1>0, <1>1, <1>10, <2>2, <2>3, <2>4, <2>5 DEF TakeSendData
<1>11. CASE TakeSendFile(s)
  <2>1. Tail(tasks[s]) \in Seq(Tasks)
    BY <1>11 DEF TakeSendFile, Takes
  <2>2. QED
    BY <1>0, <1>1, <1>11, <2>1 DEF TakeSendFile, Busy
<1>12. CASE TakeDisconnect(s)
  <2>1. Tail(tasks[s]) \in Seq(Tasks)
    BY <1>12 DEF TakeDisconnect, Takes
  <2>2. QED
    BY <1>0, <1>1, <1>12, <2>1, FailType DEF TakeDisconnect
<1>13. CASE checkSocket(s)
  BY <1>0, <1>1, <1>13 DEF checkSocket, Busy
<1>14. CASE Completes(s)
  <2>1. /\ Life!Told(heard[s], "Connected") \in Seq(Life!Calls)
        /\ Life!Told(heard[s], "Line") \in Seq(Life!Calls)
    BY ToldType DEF Life!Calls
  <2>2. heard' \in [Sockets -> Seq(Life!Calls)]
    BY <1>14, <2>1 DEF Completes, fire
  <2>3. sendBuf' \in [Sockets -> BOOLEAN]
    BY <1>14, ZenonT(40) DEF Completes
  <2>4. pc' \in [Sockets -> Busy \cup {"events"}]
    BY <1>14 DEF Completes, After, Busy
  <2>5. QED
    BY <1>0, <1>1, <1>14, <2>2, <2>3, <2>4 DEF Completes
<1>15. CASE Stops(s)
  BY <1>0, <1>1, <1>15 DEF Stops, After, Busy
<1>16. CASE Throws(s)
  <2>1. pc' \in [Sockets -> Busy \cup {"events"}]
    BY <1>16 DEF Throws
  <2>2. TasksAfterFail(s, tasks[s]) \in Seq(Tasks) /\ fail(s)
    BY <1>16, FailType DEF Throws
  <2>3. tasks' \in [Sockets -> Seq(Tasks)]
    BY <1>16, <2>2 DEF Throws
  <2>4. QED
    BY <1>0, <1>1, <1>16, <2>1, <2>2, <2>3, FailType DEF Throws
<1>17. CASE threadRead(s)
  <2>1. Life!Told(heard[s], "Line") \in Seq(Life!Calls)
    BY ToldType DEF Life!Calls
  <2>2. heard' \in [Sockets -> Seq(Life!Calls)]
    BY <1>17, <2>1 DEF threadRead, fire
  <2>3. pc' \in [Sockets -> Busy \cup {"events"}]
    BY <1>17 DEF threadRead
  <2>4. QED
    BY <1>0, <1>1, <1>17, <2>2, <2>3 DEF threadRead
<1>18. QED
  BY <1>2, <1>3, <1>4, <1>5, <1>6, <1>7, <1>8, <1>9, <1>10, <1>11, <1>12, <1>13, <1>14,
     <1>15, <1>16, <1>17 DEF SocketStep

\* The other steps.
LEMMA RestType ==
    ASSUME TypeOK, GateInv', SocketsAssumption,
           \/ \E s \in Sockets : Throttled(s) \/ waitToken(s)
           \/ on_Second \/ Main_StopsThrottle \/ Main_DisconnectsAll \/ Main_WaitsForSockets
    PROVE  TypeOK'
<1> USE DEF TypeOK
<1>0. ThrottleTypeOK'
  BY DEF GateInv
<1>1. CASE \E s \in Sockets : Throttled(s) \/ waitToken(s)
  BY <1>0, <1>1 DEF Throttled, waitToken, Leaves
<1>2. CASE on_Second
  BY <1>0, <1>2 DEF on_Second
<1>3. CASE Main_StopsThrottle
  BY <1>0, <1>3 DEF Main_StopsThrottle
<1>4. CASE Main_DisconnectsAll
  <2>1. \A s \in Sockets : Append(tasks[s], "DISCONNECT") \in Seq(Tasks)
    BY DEF Tasks
  <2>2. tasks' \in [Sockets -> Seq(Tasks)] /\ main' = "wait"
    BY <1>4, <2>1 DEF Main_DisconnectsAll
  <2>3. disconnecting' \in [Sockets -> BOOLEAN]
    BY <1>4, ZenonT(40) DEF Main_DisconnectsAll
  <2>4. QED
    BY <1>0, <1>4, <2>2, <2>3 DEF Main_DisconnectsAll
<1>5. CASE Main_WaitsForSockets
  BY <1>0, <1>5 DEF Main_WaitsForSockets
<1>6. QED
  BY <1>1, <1>2, <1>3, <1>4, <1>5

-----------------------------------------------------------------------------
(* One socket.                                                             *)

Openers == {"CONNECT", "ACCEPTED"}

\* The task that opens the socket waits; it waits before a SEND_DATA.
Opens(q) == \E i \in 1..Len(q) : q[i] \in Openers
OpensFirst(q) == \E i, j \in 1..Len(q) : i < j /\ q[i] \in Openers /\ q[j] = "SEND_DATA"

\* Who owns the socket, and where its thread may be.
Owned(s) ==
    /\ state[s] = "none" <=> owner[s] = "none"
    /\ state[s] = "deleted" => owner[s] = "put"
    /\ Contains(tasks[s], "SHUTDOWN") => owner[s] = "put"
    /\ pc[s] \in Busy => state[s] = "RUNNING"

\* What the listener may have heard.
InOrder(s) ==
    /\ state[s] \in {"none", "STARTING"} => heard[s] = <<>>
    /\ pc[s] = "threadConnect" /\ owner[s] # "put" => heard[s] = <<"Connecting">>
    /\ Contains(heard[s], "Failed") => state[s] \in {"FAILED", "deleted"}

\* Where the bytes are.  write() queues a task only if writeBuf is empty, so
\* that one is queued must be known of every state in which it is not; before
\* the socket runs a SEND_DATA that waits ahead of CONNECT would be dropped.
Bytes(s) ==
    /\ state[s] \in {"none", "STARTING"} => ~sendBuf[s]
    /\ state[s] = "none" => ~writeBuf[s]
    /\ state[s] = "STARTING" /\ owner[s] = "open" => Opens(tasks[s])
    /\ state[s] = "STARTING" /\ writeBuf[s] => OpensFirst(tasks[s])
    /\ state[s] = "RUNNING" /\ sendBuf[s] /\ pc[s] # "threadSendData" => disconnecting[s]
    /\ state[s] = "RUNNING" /\ ~disconnecting[s] /\ writeBuf[s] => Contains(tasks[s], "SEND_DATA")

Good(s) == Owned(s) /\ InOrder(s) /\ Bytes(s)

Inv == TypeOK /\ GateInv /\ \A s \in Sockets : Good(s)

LEMMA QueueGrows ==
    ASSUME NEW q \in Seq(Tasks), NEW t
    PROVE  /\ Opens(q) => Opens(Append(q, t))
           /\ OpensFirst(q) => OpensFirst(Append(q, t))
           /\ Opens(q) => OpensFirst(Append(q, "SEND_DATA"))
           /\ t \in Openers => Opens(Append(q, t))
<1>1. \A e : Len(Append(q, e)) = Len(q) + 1 /\ Len(q) \in Nat
  OBVIOUS
<1>2. \A e : Append(q, e)[Len(q) + 1] = e /\ \A i \in 1..Len(q) : Append(q, e)[i] = q[i]
  OBVIOUS
<1>3. \A i \in 1..Len(q) : i \in 1..(Len(q) + 1) /\ i < Len(q) + 1
  BY <1>1
<1>4. Len(q) + 1 \in 1..(Len(q) + 1)
  BY <1>1
<1>5. Opens(q) => Opens(Append(q, t))
  BY <1>1, <1>2, <1>3 DEF Opens
<1>6. OpensFirst(q) => OpensFirst(Append(q, t))
  BY <1>1, <1>2, <1>3 DEF OpensFirst
<1>7. Opens(q) => OpensFirst(Append(q, "SEND_DATA"))
  BY <1>1, <1>2, <1>3, <1>4 DEF Opens, OpensFirst
<1>8. t \in Openers => Opens(Append(q, t))
  BY <1>1, <1>2, <1>4 DEF Opens
<1>9. QED
  BY <1>5, <1>6, <1>7, <1>8

LEMMA QueueShrinks ==
    ASSUME NEW q \in Seq(Tasks), q # <<>>
    PROVE  /\ Opens(q) /\ Head(q) \notin Openers => Opens(Tail(q))
           /\ OpensFirst(q) /\ Head(q) \notin Openers => OpensFirst(Tail(q))
           /\ OpensFirst(q) => Contains(Tail(q), "SEND_DATA")
<1>1. Len(Tail(q)) = Len(q) - 1 /\ Len(q) \in Nat \ {0} /\ Head(q) = q[1]
  OBVIOUS
<1>2. \A i \in 1..(Len(q) - 1) : Tail(q)[i] = q[i + 1]
  OBVIOUS
<1>3. \A i \in 1..Len(q) : i = 1 \/ (i - 1 \in 1..(Len(q) - 1) /\ Tail(q)[i - 1] = q[i])
  BY <1>1, <1>2
<1>4. Opens(q) /\ Head(q) \notin Openers => Opens(Tail(q))
  BY <1>1, <1>3 DEF Opens
<1>5. ASSUME OpensFirst(q)
      PROVE  /\ Head(q) \notin Openers => OpensFirst(Tail(q))
             /\ Contains(Tail(q), "SEND_DATA")
  <2>1. PICK i \in 1..Len(q), j \in 1..Len(q) : i < j /\ q[i] \in Openers /\ q[j] = "SEND_DATA"
    BY <1>5 DEF OpensFirst
  <2>2. j - 1 \in 1..Len(Tail(q)) /\ Tail(q)[j - 1] = "SEND_DATA"
    BY <1>1, <1>3, <2>1
  <2>3. Contains(Tail(q), "SEND_DATA")
    BY <2>2 DEF Contains
  <2>4. ASSUME Head(q) \notin Openers PROVE OpensFirst(Tail(q))
    <3>1. i - 1 \in 1..Len(Tail(q)) /\ Tail(q)[i - 1] \in Openers /\ i - 1 < j - 1
      BY <1>1, <1>3, <2>1, <2>4
    <3>2. QED
      BY <2>2, <3>1 DEF OpensFirst
  <2>5. QED
    BY <2>3, <2>4
<1>6. QED
  BY <1>4, <1>5

\* Only Failed adds a Failed to what was heard.
LEMMA ToldFailed ==
    ASSUME NEW q \in Seq(Life!Calls), NEW e \in Life!Calls \ {"Failed"}
    PROVE  Contains(Life!Told(q, e), "Failed") <=> Contains(q, "Failed")
BY ContainsAppend DEF Life!Told

\* A socket whose variables keep their values stays as it is.
LEMMA OtherSocket ==
    ASSUME NEW u, Good(u), state'[u] = state[u], tasks'[u] = tasks[u], owner'[u] = owner[u],
           disconnecting'[u] = disconnecting[u], writeBuf'[u] = writeBuf[u],
           sendBuf'[u] = sendBuf[u], pc'[u] = pc[u], heard'[u] = heard[u]
    PROVE  Good(u)'
BY DEF Good, Owned, InOrder, Bytes

\* What a step does to its socket.
LEMMA SocketStepGood ==
    ASSUME TypeOK, NEW s \in Sockets, Good(s), SocketStep(s)
    PROVE  Good(s)'
<1> DEFINE q == tasks[s]
<1> USE DEF Good, Owned, InOrder, Bytes
<1>0. /\ q \in Seq(Tasks) /\ heard[s] \in Seq(Life!Calls)
      /\ writeBuf[s] \in BOOLEAN /\ sendBuf[s] \in BOOLEAN /\ disconnecting[s] \in BOOLEAN
      /\ s \in DOMAIN state /\ s \in DOMAIN tasks /\ s \in DOMAIN owner /\ s \in DOMAIN pc
      /\ s \in DOMAIN disconnecting /\ s \in DOMAIN writeBuf /\ s \in DOMAIN sendBuf
      /\ s \in DOMAIN heard
      /\ pc[s] \in Busy \cup {"events"}
  BY DEF TypeOK
<1>1. \A t, e \in Tasks : Contains(Append(q, t), e) <=> Contains(q, e) \/ t = e
  BY <1>0, ContainsAppend
<1>2. q # <<>> => \A e : Contains(q, e) <=> Head(q) = e \/ Contains(Tail(q), e)
  BY <1>0, ContainsTail
<1>4. q # <<>> => /\ Opens(q) /\ Head(q) \notin Openers => Opens(Tail(q))
                  /\ OpensFirst(q) /\ Head(q) \notin Openers => OpensFirst(Tail(q))
                  /\ OpensFirst(q) => Contains(Tail(q), "SEND_DATA")
  BY <1>0, QueueShrinks
<1>5. \A e \in Life!Calls \ {"Failed"} :
        Contains(Life!Told(heard[s], e), "Failed") <=> Contains(heard[s], "Failed")
  BY <1>0, ToldFailed
<1>6. ~Contains(<<>>, "SHUTDOWN") /\ ~Contains(<<>>, "Failed")
  BY DEF Contains
<1> HIDE DEF q
<1> USE <1>0
<1>10. CASE getSocket(s)
  <2>1. /\ state[s] = "none" /\ state'[s] = "STARTING" /\ owner'[s] = "new"
        /\ UNCHANGED <<tasks, disconnecting, writeBuf, sendBuf, pc, heard>>
    BY <1>10 DEF getSocket
  <2>2. pc[s] \notin Busy /\ heard[s] = <<>>
    BY <2>1
  <2>3. QED
    BY <2>1, <2>2 DEF q, Busy
<1>11. CASE connect_accept(s)
  <2>1. tasks'[s] = Append(q, "CONNECT") \/ tasks'[s] = Append(q, "ACCEPTED")
    BY <1>11 DEF connect_accept, addTask, q
  <2>2. Opens(tasks'[s]) /\ (OpensFirst(q) => OpensFirst(tasks'[s]))
    BY QueueGrows, <2>1 DEF Openers
  <2>3. Contains(tasks'[s], "SHUTDOWN") => Contains(q, "SHUTDOWN")
    BY <1>1, <2>1 DEF Tasks
  <2>4. Contains(q, "SEND_DATA") => Contains(tasks'[s], "SEND_DATA")
    BY <1>1, <2>1 DEF Tasks
  <2>5. QED
    BY <1>11, <2>2, <2>3, <2>4 DEF connect_accept, q
<1>12. CASE write(s)
  <2>1. tasks'[s] = IF writeBuf[s] THEN q ELSE Append(q, "SEND_DATA")
    BY <1>12 DEF write, addTask, q
  <2>2. writeBuf'[s]
    BY <1>12 DEF write
  <2>3. /\ Contains(tasks'[s], "SHUTDOWN") => Contains(q, "SHUTDOWN")
        /\ Contains(q, "SEND_DATA") \/ ~writeBuf[s] => Contains(tasks'[s], "SEND_DATA")
    <3>1. CASE writeBuf[s]
      BY <2>1, <3>1
    <3>2. CASE ~writeBuf[s]
      BY <1>1, <2>1, <3>2 DEF Tasks
    <3>3. QED
      BY <3>1, <3>2
  <2>4. /\ Opens(q) => Opens(tasks'[s])
        /\ OpensFirst(q) \/ (Opens(q) /\ ~writeBuf[s]) => OpensFirst(tasks'[s])
    BY QueueGrows, <2>1
  <2>5. QED
    BY <1>12, <2>2, <2>3, <2>4 DEF write, q
<1>13. CASE transmitFile_callAsync(s) \/ \E graceless \in BOOLEAN : disconnect(s, graceless)
  <2>1. /\ \E t \in {"SEND_FILE", "ASYNC_CALL", "DISCONNECT"} : tasks'[s] = Append(q, t)
        /\ UNCHANGED <<state, writeBuf, sendBuf, pc, owner, heard>>
        /\ disconnecting[s] => disconnecting'[s]
    <3>1. CASE transmitFile_callAsync(s)
      BY <3>1 DEF transmitFile_callAsync, addTask, q
    <3>2. CASE \E graceless \in BOOLEAN : disconnect(s, graceless)
      <4>1. PICK graceless \in BOOLEAN : disconnect(s, graceless)
        BY <3>2
      <4>2. disconnecting[s] => disconnecting'[s]
        BY <4>1 DEF disconnect
      <4>3. tasks'[s] = Append(q, "DISCONNECT")
        BY <4>1 DEF disconnect, disconnectTask, addTask, q
      <4>4. QED
        BY <4>1, <4>2, <4>3 DEF disconnect
    <3>3. QED
      BY <1>13, <3>1, <3>2
  <2>2. /\ Contains(tasks'[s], "SHUTDOWN") => Contains(q, "SHUTDOWN")
        /\ Contains(q, "SEND_DATA") => Contains(tasks'[s], "SEND_DATA")
    BY <1>1, <2>1 DEF Tasks
  <2>3. /\ Opens(q) => Opens(tasks'[s])
        /\ OpensFirst(q) => OpensFirst(tasks'[s])
    BY QueueGrows, <2>1
  <2>4. QED
    BY <2>1, <2>2, <2>3 DEF q
<1>14. CASE Released(s)
  <2>1. tasks'[s] = Append(q, "SHUTDOWN") /\ owner'[s] = "put" /\ disconnecting'[s]
    <3>1. tasks'[s] = Append(q, "SHUTDOWN")
      BY <1>14 DEF Released, putSocket, addTask, q
    <3>2. owner'[s] = "put" /\ disconnecting'[s]
      BY <1>14 DEF Released, putSocket
    <3>3. QED
      BY <3>1, <3>2
  <2>2. OpensFirst(q) => OpensFirst(tasks'[s])
    <3>1. OpensFirst(q) => OpensFirst(Append(q, "SHUTDOWN"))
      BY <1>0, QueueGrows
    <3>2. QED
      BY <2>1, <3>1
  <2>3. owner[s] # "none"
    BY <1>14 DEF Released
  <2>4. QED
    BY <1>14, <2>1, <2>2, <2>3 DEF Released, q
<1>15. CASE TakeWhenStarting(s)
  <2>1. /\ state[s] = "STARTING" /\ q # <<>> /\ tasks'[s] = Tail(q)
        /\ UNCHANGED <<disconnecting, writeBuf, sendBuf, owner>>
        /\ heard[s] = <<>> /\ pc[s] = "events"
        /\ heard'[s] = IF Head(q) = "CONNECT" /\ owner[s] # "put" THEN <<"Connecting">> ELSE <<>>
    BY <1>15 DEF TakeWhenStarting, fire, Life!Told, Busy, q
  <2>2. Contains(tasks'[s], "SHUTDOWN") => Contains(q, "SHUTDOWN")
    BY <1>2, <2>1
  <2>3. CASE Head(q) \in Openers
    <3>1. /\ state'[s] = "RUNNING"
          /\ pc'[s] = IF Head(q) = "CONNECT" THEN "threadConnect" ELSE "threadAccept"
      BY <1>15, <2>3 DEF TakeWhenStarting, q, Openers
    <3>2. writeBuf[s] => Contains(tasks'[s], "SEND_DATA")
      BY <1>4, <2>1 DEF q
    <3>3. ~Contains(<<"Connecting">>, "Failed")
      BY DEF Contains
    <3>4. QED
      BY <1>6, <2>1, <2>2, <3>1, <3>2, <3>3 DEF q, Busy
  <2>4. CASE Head(q) \notin Openers
    <3>1. UNCHANGED <<state, pc>>
      BY <1>15, <2>4 DEF TakeWhenStarting, q, Openers
    <3>2. Head(q) # "CONNECT" /\ heard'[s] = <<>>
      BY <2>1, <2>4 DEF Openers
    <3>3. QED
      BY <1>4, <1>6, <2>1, <2>2, <2>4, <3>1, <3>2 DEF q
  <2>5. QED
    BY <2>3, <2>4
<1>16. CASE TakeInAnyState(s)
  <2>1. /\ q # <<>> /\ pc[s] = "events"
        /\ UNCHANGED <<disconnecting, writeBuf, sendBuf, pc, owner, heard>>
    BY <1>16 DEF TakeInAnyState, q
  <2>2. CASE Head(q) = "SHUTDOWN"
    <3>1. state'[s] = "deleted" /\ tasks'[s] = <<>>
      BY <1>16, <2>2 DEF TakeInAnyState, q
    <3>2. owner[s] = "put"
      BY <1>2, <2>1, <2>2 DEF q
    <3>3. QED
      BY <1>6, <2>1, <3>1, <3>2 DEF Busy
  <2>3. CASE Head(q) # "SHUTDOWN"
    <3>1. /\ tasks'[s] = Tail(q) /\ UNCHANGED state
          /\ Head(q) = "ASYNC_CALL" \/ state[s] = "FAILED"
      BY <1>16, <2>3 DEF TakeInAnyState, q
    <3>2. Contains(tasks'[s], "SHUTDOWN") => Contains(q, "SHUTDOWN")
      BY <1>2, <2>1, <3>1
    <3>3. state[s] # "FAILED" /\ Contains(q, "SEND_DATA") => Contains(tasks'[s], "SEND_DATA")
      BY <1>2, <2>1, <3>1
    <3>4. state[s] # "FAILED" => /\ Opens(q) => Opens(tasks'[s])
                                 /\ OpensFirst(q) => OpensFirst(tasks'[s])
      BY <1>4, <2>1, <3>1 DEF Openers
    <3>5. QED
      BY <2>1, <3>1, <3>2, <3>3, <3>4 DEF q
  <2>4. QED
    BY <2>2, <2>3
<1>17. CASE TakeSendData(s)
  <2>1. /\ state[s] = "RUNNING" /\ state'[s] = "RUNNING" /\ pc[s] = "events"
        /\ q # <<>> /\ tasks'[s] = Tail(q)
        /\ UNCHANGED <<disconnecting, owner, heard>>
    BY <1>17 DEF TakeSendData, Takes, q
  <2>2. Contains(tasks'[s], "SHUTDOWN") => Contains(q, "SHUTDOWN")
    BY <1>2, <2>1
  <2>3. CASE writeBuf[s]
    <3>1. /\ writeBuf'[s] <=> sendBuf[s]
          /\ pc'[s] = "threadSendData"
      BY <1>17, <2>3 DEF TakeSendData
    <3>2. QED
      BY <2>1, <2>2, <3>1 DEF q
  <2>4. CASE ~writeBuf[s]
    <3>1. UNCHANGED <<writeBuf, sendBuf, pc>>
      BY <1>17, <2>4 DEF TakeSendData
    <3>2. QED
      BY <2>1, <2>2, <2>4, <3>1 DEF q
  <2>5. QED
    BY <2>3, <2>4
<1>18. CASE TakeSendFile(s)
  <2>1. /\ state[s] = "RUNNING" /\ state'[s] = "RUNNING" /\ pc[s] = "events"
        /\ pc'[s] = "threadSendFile" /\ q # <<>> /\ tasks'[s] = Tail(q) /\ Head(q) = "SEND_FILE"
        /\ UNCHANGED <<disconnecting, writeBuf, sendBuf, owner, heard>>
    BY <1>18 DEF TakeSendFile, Takes, q
  <2>2. /\ Contains(tasks'[s], "SHUTDOWN") => Contains(q, "SHUTDOWN")
        /\ Contains(q, "SEND_DATA") => Contains(tasks'[s], "SEND_DATA")
    BY <1>2, <2>1
  <2>3. QED
    BY <2>1, <2>2 DEF q
<1>19. CASE TakeDisconnect(s) \/ Throws(s)
  <2>1. /\ state[s] = "RUNNING" /\ state'[s] = "FAILED"
        /\ pc'[s] = "events"
        /\ UNCHANGED <<writeBuf, sendBuf>>
        /\ owner'[s] = "put" \/ owner'[s] = owner[s]
    BY <1>19 DEF TakeDisconnect, Takes, Throws, fail
  <2>2. CASE Throws(s)
    <3>1. /\ tasks'[s] = IF s \in Peers /\ owner[s] = "open" THEN Append(q, "SHUTDOWN") ELSE q
          /\ s \in Peers /\ owner[s] = "open" => owner'[s] = "put"
      BY <2>1, <2>2 DEF Throws, TasksAfterFail, fail, q
    <3>2. QED
      BY <2>1, <3>1 DEF q, Busy
  <2>3. CASE TakeDisconnect(s)
    <3>1. /\ tasks'[s] = IF s \in Peers /\ owner[s] = "open" THEN Append(Tail(q), "SHUTDOWN") ELSE Tail(q)
          /\ s \in Peers /\ owner[s] = "open" => owner'[s] = "put"
          /\ q # <<>>
      BY <2>1, <2>3 DEF TakeDisconnect, Takes, TasksAfterFail, fail, q
    <3>2. Contains(Tail(q), "SHUTDOWN") => Contains(q, "SHUTDOWN")
      BY <1>2, <3>1
    <3>3. QED
      BY <2>1, <3>1, <3>2 DEF q, Busy
  <2>4. QED
    BY <1>19, <2>2, <2>3
<1>20. CASE checkSocket(s)
  BY <1>20 DEF checkSocket, q
<1>21. CASE Stops(s)
  BY <1>21 DEF Stops, After, q
<1>22. CASE Completes(s)
  <2>1. /\ UNCHANGED <<state, tasks, disconnecting, writeBuf, owner>>
        /\ pc[s] \in Busy /\ pc'[s] \in {"events", "checkSocket"}
        /\ sendBuf'[s] <=> sendBuf[s] /\ pc[s] # "threadSendData"
    BY <1>22 DEF Completes, After
  <2>2. \/ heard'[s] = heard[s]
        \/ heard'[s] = Life!Told(heard[s], "Connected")
        \/ heard'[s] = Life!Told(heard[s], "Line")
    BY <1>22 DEF Completes, fire
  <2>3. Contains(heard'[s], "Failed") => Contains(heard[s], "Failed")
    BY <1>5, <2>2 DEF Life!Calls
  <2>4. QED
    BY <2>1, <2>3 DEF q
<1>23. CASE threadRead(s)
  <2>1. /\ UNCHANGED <<state, tasks, disconnecting, writeBuf, sendBuf, owner>>
        /\ pc[s] \in Readers /\ pc'[s] = IF pc[s] = "checkSocket" THEN "events" ELSE pc[s]
    BY <1>23 DEF threadRead
  <2>2. heard'[s] = heard[s] \/ heard'[s] = Life!Told(heard[s], "Line")
    BY <1>23 DEF threadRead, fire
  <2>3. Contains(heard'[s], "Failed") => Contains(heard[s], "Failed")
    BY <1>5, <2>2 DEF Life!Calls
  <2>4. QED
    BY <2>1, <2>3 DEF q, Readers, Busy
<1>24. QED
  BY <1>10, <1>11, <1>12, <1>13, <1>14, <1>15, <1>16, <1>17, <1>18, <1>19, <1>20, <1>21,
     <1>22, <1>23 DEF SocketStep

\* What it leaves alone: the other sockets and the throttle.
LEMMA SocketStepOthers ==
    ASSUME TypeOK, NEW s \in Sockets, SocketStep(s)
    PROVE  /\ throttleVars' = throttleVars
           /\ \A u \in Sockets \ {s} :
                /\ state'[u] = state[u] /\ tasks'[u] = tasks[u] /\ owner'[u] = owner[u]
                /\ disconnecting'[u] = disconnecting[u] /\ writeBuf'[u] = writeBuf[u]
                /\ sendBuf'[u] = sendBuf[u] /\ pc'[u] = pc[u] /\ heard'[u] = heard[u]
<1>1. throttleVars' = throttleVars
  BY DEF SocketStep, getSocket, connect_accept, write, transmitFile_callAsync, disconnect, Released,
         TakeWhenStarting, TakeInAnyState, TakeSendData, TakeSendFile, TakeDisconnect, Takes,
         checkSocket, Completes, Stops, Throws, threadRead
<1>2. SUFFICES ASSUME NEW u \in Sockets \ {s}
               PROVE  /\ state'[u] = state[u] /\ tasks'[u] = tasks[u] /\ owner'[u] = owner[u]
                      /\ disconnecting'[u] = disconnecting[u] /\ writeBuf'[u] = writeBuf[u]
                      /\ sendBuf'[u] = sendBuf[u] /\ pc'[u] = pc[u] /\ heard'[u] = heard[u]
  BY <1>1
<1> USE DEF TypeOK, addTask
<1>3. CASE getSocket(s)
  BY <1>3 DEF getSocket
<1>4. CASE connect_accept(s)
  BY <1>4 DEF connect_accept
<1>5. CASE write(s)
  BY <1>5 DEF write
<1>6. CASE transmitFile_callAsync(s)
  BY <1>6 DEF transmitFile_callAsync
<1>7. CASE \E graceless \in BOOLEAN : disconnect(s, graceless)
  BY <1>7 DEF disconnect, disconnectTask
<1>8. CASE Released(s)
  BY <1>8 DEF Released, putSocket
<1>9. CASE TakeWhenStarting(s)
  BY <1>9 DEF TakeWhenStarting, fire
<1>10. CASE TakeInAnyState(s)
  BY <1>10 DEF TakeInAnyState
<1>11. CASE TakeSendData(s)
  BY <1>11 DEF TakeSendData
<1>12. CASE TakeSendFile(s)
  BY <1>12 DEF TakeSendFile
<1>13. CASE TakeDisconnect(s)
  BY <1>13 DEF TakeDisconnect, fail, fire
<1>14. CASE checkSocket(s)
  BY <1>14 DEF checkSocket
<1>15. CASE Completes(s)
  BY <1>15 DEF Completes, fire
<1>16. CASE Stops(s)
  BY <1>16 DEF Stops
<1>17. CASE Throws(s)
  BY <1>17 DEF Throws, fail, fire
<1>18. CASE threadRead(s)
  BY <1>18 DEF threadRead, fire
<1>19. QED
  BY <1>3, <1>4, <1>5, <1>6, <1>7, <1>8, <1>9, <1>10, <1>11, <1>12, <1>13, <1>14, <1>15,
     <1>16, <1>17, <1>18 DEF SocketStep

\* The steps of the throttle and of the main thread.
LEMMA RestGood ==
    ASSUME TypeOK, NEW u \in Sockets, Good(u),
           \/ \E s \in Sockets : Throttled(s) \/ waitToken(s)
           \/ on_Second \/ Main_StopsThrottle \/ Main_DisconnectsAll \/ Main_WaitsForSockets
    PROVE  Good(u)'
<1>1. CASE \E s \in Sockets : Throttled(s)
  BY <1>1, OtherSocket DEF Throttled
<1>2. CASE \E s \in Sockets : waitToken(s)
  <2>1. /\ UNCHANGED <<state, tasks, disconnecting, writeBuf, sendBuf, owner, heard>>
        /\ pc'[u] = pc[u] \/ (pc[u] = "checkSocket" /\ pc'[u] = "events")
    BY <1>2 DEF waitToken, Leaves, TypeOK
  <2>2. QED
    BY <2>1 DEF Good, Owned, InOrder, Bytes, Busy
<1>3. CASE on_Second \/ Main_StopsThrottle \/ Main_WaitsForSockets
  BY <1>3, OtherSocket DEF on_Second, Main_StopsThrottle, Main_WaitsForSockets
<1>4. CASE Main_DisconnectsAll
  <2>1. UNCHANGED <<state, writeBuf, sendBuf, pc, owner, heard>>
    BY <1>4 DEF Main_DisconnectsAll
  <2>2. disconnecting[u] => disconnecting'[u]
    BY <1>4 DEF Main_DisconnectsAll
  <2>3. tasks'[u] = tasks[u] \/ tasks'[u] = Append(tasks[u], "DISCONNECT")
    BY <1>4 DEF Main_DisconnectsAll
  <2>4. tasks[u] \in Seq(Tasks)
    BY DEF TypeOK
  <2>5. /\ Contains(tasks'[u], "SHUTDOWN") => Contains(tasks[u], "SHUTDOWN")
        /\ Contains(tasks[u], "SEND_DATA") => Contains(tasks'[u], "SEND_DATA")
    <3>1. /\ Contains(Append(tasks[u], "DISCONNECT"), "SHUTDOWN") => Contains(tasks[u], "SHUTDOWN")
          /\ Contains(tasks[u], "SEND_DATA") => Contains(Append(tasks[u], "DISCONNECT"), "SEND_DATA")
      BY <2>4, ContainsAppend
    <3>2. QED
      BY <2>3, <3>1
  <2>6. /\ Opens(tasks[u]) => Opens(tasks'[u])
        /\ OpensFirst(tasks[u]) => OpensFirst(tasks'[u])
    BY <2>3, <2>4, QueueGrows
  <2>7. QED
    BY <2>1, <2>2, <2>5, <2>6 DEF Good, Owned, InOrder, Bytes
<1>5. QED
  BY <1>1, <1>2, <1>3, <1>4

\* The throttle's part of every step.
LEMMA GateStep ==
    ASSUME Inv, SocketsAssumption, Next
    PROVE  GateInv'
<1>1. ASSUME throttleVars' = throttleVars PROVE GateInv'
  BY <1>1 DEF Inv, GateInv, ThrottleTypeOK, OneGateShut, getCurThrottling
<1>2. ASSUME NEW s \in Sockets, SocketStep(s) PROVE GateInv'
  BY <1>1, <1>2, SocketStepOthers DEF Inv
<1>3. ASSUME NEW s \in Sockets, Throttled(s) \/ waitToken(s) PROVE GateInv'
  BY <1>3, WaiterStep DEF Inv, Throttled, waitToken, SocketsAssumption
<1>4. CASE on_Second \/ Main_StopsThrottle
  BY <1>4, TimerStep DEF Inv, on_Second, Main_StopsThrottle
<1>5. CASE Main_StopsThrottle
  BY <1>5, TimerStep DEF Inv, Main_StopsThrottle
<1>6. CASE Main_DisconnectsAll \/ Main_WaitsForSockets \/ Done
  BY <1>1, <1>6 DEF Main_DisconnectsAll, Main_WaitsForSockets, Done, vars
<1>7. QED
  BY <1>2, <1>3, <1>4, <1>5, <1>6 DEF Next, SocketStep

LEMMA InvInit == Init /\ SocketsAssumption => Inv
<1>1. SUFFICES ASSUME Init, SocketsAssumption PROVE Inv
  OBVIOUS
<1>2. <<>> \in Seq(Tasks) /\ <<>> \in Seq(Life!Calls)
  OBVIOUS
<1>3. \A e : ~Contains(<<>>, e)
  BY DEF Contains
<1>4. GateInv
  BY <1>1 DEF Init, ThrottleInit, GateInv, ThrottleTypeOK, OneGateShut, getCurThrottling, Gates
<1>5. TypeOK
  BY <1>1, <1>2, <1>4 DEF Init, TypeOK, GateInv
<1>6. \A s \in Sockets : Good(s)
  BY <1>1, <1>3 DEF Init, Good, Owned, InOrder, Bytes, Busy
<1>7. QED
  BY <1>4, <1>5, <1>6 DEF Inv

LEMMA InvStep == Inv /\ SocketsAssumption /\ [Next]_vars => Inv'
<1>1. SUFFICES ASSUME Inv, SocketsAssumption, [Next]_vars PROVE Inv'
  OBVIOUS
<1>2. CASE UNCHANGED vars \/ Done
  <2>1. UNCHANGED vars
    BY <1>2 DEF Done
  <2>2. GateInv' /\ TypeOK'
    BY <1>1, <2>1 DEF vars, Inv, GateInv, TypeOK, ThrottleTypeOK, OneGateShut, getCurThrottling
  <2>3. \A s \in Sockets : Good(s)'
    BY <1>1, <2>1, OtherSocket DEF vars, Inv
  <2>4. QED
    BY <2>2, <2>3 DEF Inv
<1>3. CASE \E s \in Sockets : SocketStep(s)
  <2>1. PICK s \in Sockets : SocketStep(s)
    BY <1>3
  <2>2. Next
    BY <2>1 DEF Next, SocketStep
  <2>3. GateInv' /\ TypeOK'
    BY <1>1, <2>1, <2>2, GateStep, SocketStepType DEF Inv
  <2>4. Good(s)'
    BY <1>1, <2>1, SocketStepGood DEF Inv
  <2>5. ASSUME NEW u \in Sockets \ {s} PROVE Good(u)'
    BY <1>1, <2>1, SocketStepOthers, OtherSocket DEF Inv
  <2>6. QED
    BY <2>3, <2>4, <2>5 DEF Inv
<1>4. CASE \/ \E s \in Sockets : Throttled(s) \/ waitToken(s)
           \/ on_Second \/ Main_StopsThrottle \/ Main_DisconnectsAll \/ Main_WaitsForSockets
  <2>1. Next
    BY <1>4 DEF Next
  <2>2. GateInv'
    BY <1>1, <2>1, GateStep
  <2>3. TypeOK'
    BY <1>1, <1>4, <2>2, RestType DEF Inv
  <2>4. \A u \in Sockets : Good(u)'
    BY <1>1, <1>4, RestGood DEF Inv
  <2>5. QED
    BY <2>2, <2>3, <2>4 DEF Inv
<1>5. QED
  BY <1>1, <1>2, <1>3, <1>4 DEF Next, SocketStep

LEMMA InvHolds == Spec => []Inv
<1>1. SocketsAssumption
  BY SocketsAssumption
<1>2. QED
  BY <1>1, InvInit, InvStep, PTL DEF Spec

-----------------------------------------------------------------------------
\* Every variable stays in its type, whatever is queued and called.
THEOREM TypeCorrect == Spec => []TypeOK
BY InvHolds, PTL DEF Inv

\* ThrottleManager: while transfers are throttled the timer's thread holds the
\* mutex that activeWaiter names and not the other, also when shutdown()
\* unlocks a mutex of a thread that has ended.
THEOREM OneGateShutHolds == Spec => []OneGateShut
<1>1. Inv => OneGateShut
  BY DEF Inv, GateInv
<1>2. QED
  BY <1>1, InvHolds, PTL

\* BufferedSocket::write() with the thread's swap of the buffers: what the owner
\* wrote is never left in writeBuf without a SEND_DATA that will fetch it.
THEOREM WriteNotLostHolds == Spec => []WriteNotLost
<1>1. Inv => WriteNotLost
  BY DEF Inv, Good, Bytes, WriteNotLost
<1>2. QED
  BY <1>1, InvHolds, PTL

-----------------------------------------------------------------------------
(* BufferedSocket implements SocketLife.                                   *)

\* The refinement mapping, as INSTANCE SocketLife WITH phase <- ... has it.
Phase(s) == IF state[s] = "none" THEN "none"
            ELSE IF state[s] = "deleted" THEN "gone"
            ELSE IF owner[s] = "put" THEN "released" ELSE "live"

\* What one socket's change means to the listener's side.
LEMMA OneSocket ==
    ASSUME TypeOK, TypeOK', NEW s \in Sockets,
           \A u \in Sockets \ {s} : state'[u] = state[u] /\ owner'[u] = owner[u] /\ heard'[u] = heard[u]
    PROVE  /\ Phase(s)' = Phase(s) /\ heard'[s] = heard[s] => UNCHANGED Life!vars
           /\ Phase(s) = "none" /\ Phase(s)' = "live" /\ heard'[s] = heard[s] => Life!Create(s)
           /\ Phase(s) = "live" /\ Phase(s)' = "released" /\ heard'[s] = heard[s] => Life!Release(s)
           /\ Phase(s) = "released" /\ Phase(s)' = "gone" /\ heard'[s] = heard[s] => Life!End(s)
           /\ Phase(s) = "live" /\ Phase(s)' = "live" /\ heard[s] = <<>>
                /\ heard'[s] = Life!Told(heard[s], "Connecting") => Life!Connecting(s)
           /\ Phase(s) = "live" /\ Phase(s)' = "live" /\ heard[s] = <<"Connecting">>
                /\ heard'[s] = Life!Told(heard[s], "Connected") => Life!Connected(s)
           /\ Phase(s) = "live" /\ Phase(s)' = "live" /\ ~Contains(heard[s], "Failed")
                /\ heard'[s] = Life!Told(heard[s], "Line") => Life!Line(s)
           /\ Phase(s) = "live" /\ Phase(s)' \in {"live", "released"}
                /\ ~Contains(heard[s], "Failed")
                /\ heard'[s] = Life!Told(heard[s], "Failed") => Life!Failed(s)
<1> DEFINE P == [u \in Sockets |-> IF state[u] = "none" THEN "none"
                                  ELSE IF state[u] = "deleted" THEN "gone"
                                  ELSE IF owner[u] = "put" THEN "released" ELSE "live"]
<1>1. P[s] = Phase(s) /\ P' = [P EXCEPT ![s] = Phase(s)']
  BY DEF Phase
<1>2. heard' = [heard EXCEPT ![s] = heard'[s]]
  BY DEF TypeOK
<1>3. Phase(s)' = Phase(s) => P' = P
  BY <1>1
<1>4. heard'[s] = heard[s] => heard' = heard
  BY <1>2 DEF TypeOK
<1>5. Phase(s)' = Phase(s) /\ heard'[s] = heard[s] => UNCHANGED Life!vars
  BY <1>3, <1>4 DEF Life!vars
<1>6. Phase(s) = "none" /\ Phase(s)' = "live" /\ heard'[s] = heard[s] => Life!Create(s)
  BY <1>1, <1>4 DEF Life!Create
<1>7. Phase(s) = "live" /\ Phase(s)' = "released" /\ heard'[s] = heard[s] => Life!Release(s)
  BY <1>1, <1>4 DEF Life!Release
<1>8. Phase(s) = "released" /\ Phase(s)' = "gone" /\ heard'[s] = heard[s] => Life!End(s)
  BY <1>1, <1>4 DEF Life!End
<1>13. Phase(s) = "live" /\ Phase(s)' = "live" /\ heard[s] = <<>>
        /\ heard'[s] = Life!Told(heard[s], "Connecting") => Life!Connecting(s)
  BY <1>1, <1>2, <1>3 DEF Life!Connecting
<1>9. Phase(s) = "live" /\ Phase(s)' = "live" /\ heard[s] = <<"Connecting">>
        /\ heard'[s] = Life!Told(heard[s], "Connected") => Life!Connected(s)
  BY <1>1, <1>2, <1>3 DEF Life!Connected
<1>10. Phase(s) = "live" /\ Phase(s)' = "live" /\ ~Contains(heard[s], "Failed")
        /\ heard'[s] = Life!Told(heard[s], "Line") => Life!Line(s)
  BY <1>1, <1>2, <1>3 DEF Life!Line, Life!Contains, Contains
<1>11. Phase(s) = "live" /\ Phase(s)' \in {"live", "released"} /\ ~Contains(heard[s], "Failed")
        /\ heard'[s] = Life!Told(heard[s], "Failed") => Life!Failed(s)
  BY <1>1, <1>2 DEF Life!Failed, Life!Contains, Contains
<1>12. QED
  BY <1>5, <1>6, <1>7, <1>8, <1>9, <1>10, <1>11, <1>13

\* A step on a socket is a step of SocketLife or none.
LEMMA SocketStepLife ==
    ASSUME TypeOK, TypeOK', NEW s \in Sockets, Good(s), SocketStep(s)
    PROVE  Life!Next \/ UNCHANGED Life!vars
<1>1. \A u \in Sockets \ {s} : state'[u] = state[u] /\ owner'[u] = owner[u] /\ heard'[u] = heard[u]
  BY SocketStepOthers
<1>2. SUFFICES \/ UNCHANGED Life!vars \/ Life!Create(s) \/ Life!Connecting(s)
               \/ Life!Connected(s) \/ Life!Line(s)
               \/ Life!Failed(s) \/ Life!Release(s) \/ Life!End(s)
  BY DEF Life!Next
<1> DEFINE same == Phase(s)' = Phase(s) /\ heard'[s] = heard[s]
<1>3. same => UNCHANGED Life!vars
  BY <1>1, OneSocket
<1>4. CASE getSocket(s)
  <2>1. Phase(s) = "none" /\ Phase(s)' = "live" /\ heard'[s] = heard[s]
    BY <1>4 DEF getSocket, Phase, TypeOK
  <2>2. QED
    BY <1>1, <2>1, OneSocket
<1>5. CASE connect_accept(s)
  <2>1. same
    BY <1>5 DEF connect_accept, Phase, TypeOK
  <2>2. QED
    BY <1>3, <2>1
<1>6. CASE \/ write(s) \/ transmitFile_callAsync(s) \/ \E graceless \in BOOLEAN : disconnect(s, graceless)
           \/ TakeSendData(s) \/ TakeSendFile(s) \/ checkSocket(s) \/ Stops(s)
  <2>1. UNCHANGED <<state, owner, heard>>
    BY <1>6 DEF write, transmitFile_callAsync, disconnect, TakeSendData, TakeSendFile, checkSocket, Stops
  <2>2. same
    BY <2>1 DEF Phase
  <2>3. QED
    BY <1>3, <2>2
<1>7. CASE Released(s)
  <2>1. Phase(s) = "live" /\ Phase(s)' = "released" /\ heard'[s] = heard[s]
    BY <1>7 DEF Released, putSocket, Phase, TypeOK, Good, Owned
  <2>2. QED
    BY <1>1, <2>1, OneSocket
<1>8. CASE TakeWhenStarting(s)
  <2>1. /\ UNCHANGED owner /\ state[s] = "STARTING" /\ state'[s] \in {"STARTING", "RUNNING"}
        /\ heard[s] = <<>>
    BY <1>8 DEF TakeWhenStarting, TypeOK, Good, InOrder
  <2>2. Phase(s)' = Phase(s)
    BY <2>1 DEF Phase
  <2>3. CASE Head(tasks[s]) # "CONNECT" \/ owner[s] = "put"
    <3>1. same
      BY <1>8, <2>2, <2>3 DEF TakeWhenStarting, fire, TypeOK
    <3>2. QED
      BY <1>3, <3>1
  <2>4. CASE Head(tasks[s]) = "CONNECT" /\ owner[s] # "put"
    <3>1. heard'[s] = Life!Told(heard[s], "Connecting")
      BY <1>8, <2>4 DEF TakeWhenStarting, fire, TypeOK
    <3>2. Phase(s) = "live"
      BY <2>1, <2>4 DEF Phase
    <3>3. QED
      BY <1>1, <2>1, <2>2, <3>1, <3>2, OneSocket
  <2>5. QED
    BY <2>3, <2>4
<1>9. CASE TakeInAnyState(s)
  <2>1. CASE Head(tasks[s]) = "SHUTDOWN"
    <3>1. owner[s] = "put"
      BY <1>9, <2>1, ContainsTail DEF TakeInAnyState, Good, Owned, TypeOK
    <3>2. Phase(s) = "released" /\ Phase(s)' = "gone" /\ heard'[s] = heard[s]
      BY <1>9, <2>1, <3>1 DEF TakeInAnyState, Runs, Phase, TypeOK
    <3>3. QED
      BY <1>1, <3>2, OneSocket
  <2>2. CASE Head(tasks[s]) # "SHUTDOWN"
    <3>1. same
      BY <1>9, <2>2 DEF TakeInAnyState, Phase
    <3>2. QED
      BY <1>3, <3>1
  <2>3. QED
    BY <2>1, <2>2
<1>10. CASE TakeDisconnect(s) \/ Throws(s)
  <2>1. fail(s) /\ state[s] = "RUNNING"
    BY <1>10 DEF TakeDisconnect, Takes, Throws, Good, Owned
  <2>2. CASE owner[s] = "put"
    <3>1. same
      BY <2>1, <2>2 DEF fail, fire, Phase, TypeOK
    <3>2. QED
      BY <1>3, <3>1
  <2>3. CASE owner[s] # "put"
    <3>1. ~Contains(heard[s], "Failed")
      BY <2>1 DEF Good, InOrder
    <3>2. Phase(s) = "live" /\ Phase(s)' \in {"live", "released"}
      BY <2>1, <2>3 DEF fail, Phase, TypeOK
    <3>3. heard'[s] = Life!Told(heard[s], "Failed")
      BY <2>1, <2>3 DEF fail, fire, TypeOK
    <3>4. QED
      BY <1>1, <3>1, <3>2, <3>3, OneSocket
  <2>4. QED
    BY <2>2, <2>3
<1>11. CASE Completes(s)
  <2>1. UNCHANGED <<state, owner>> /\ state[s] = "RUNNING"
    BY <1>11 DEF Completes, Good, Owned
  <2>2. Phase(s)' = Phase(s)
    BY <2>1 DEF Phase
  <2>3. CASE pc[s] \notin {"threadConnect", "threadSendFile"} \/ owner[s] = "put"
    <3>1. heard'[s] = heard[s]
      BY <1>11, <2>3 DEF Completes, fire, TypeOK
    <3>2. QED
      BY <1>3, <2>2, <3>1
  <2>4. CASE pc[s] = "threadConnect" /\ owner[s] # "put"
    <3>1. heard[s] = <<"Connecting">> /\ heard'[s] = Life!Told(heard[s], "Connected")
      BY <1>11, <2>4 DEF Completes, fire, TypeOK, Good, InOrder
    <3>2. Phase(s) = "live"
      BY <2>1, <2>4 DEF Phase
    <3>3. QED
      BY <1>1, <2>2, <3>1, <3>2, OneSocket
  <2>5. CASE pc[s] = "threadSendFile" /\ owner[s] # "put"
    <3>1. ~Contains(heard[s], "Failed") /\ heard'[s] = Life!Told(heard[s], "Line")
      BY <1>11, <2>1, <2>5 DEF Completes, fire, TypeOK, Good, InOrder
    <3>2. Phase(s) = "live"
      BY <2>1, <2>5 DEF Phase
    <3>3. QED
      BY <1>1, <2>2, <3>1, <3>2, OneSocket
  <2>6. QED
    BY <2>3, <2>4, <2>5
<1>12. CASE threadRead(s)
  <2>1. UNCHANGED <<state, owner>> /\ state[s] = "RUNNING"
    BY <1>12 DEF threadRead, Readers, Busy, Good, Owned
  <2>2. Phase(s)' = Phase(s)
    BY <2>1 DEF Phase
  <2>3. CASE owner[s] = "put"
    <3>1. heard'[s] = heard[s]
      BY <1>12, <2>3 DEF threadRead, fire, TypeOK
    <3>2. QED
      BY <1>3, <2>2, <3>1
  <2>4. CASE owner[s] # "put"
    <3>1. ~Contains(heard[s], "Failed") /\ heard'[s] = Life!Told(heard[s], "Line")
      BY <1>12, <2>1, <2>4 DEF threadRead, fire, TypeOK, Good, InOrder
    <3>2. Phase(s) = "live"
      BY <2>1, <2>4 DEF Phase
    <3>3. QED
      BY <1>1, <2>2, <3>1, <3>2, OneSocket
  <2>5. QED
    BY <2>3, <2>4
<1>13. QED
  BY <1>4, <1>5, <1>6, <1>7, <1>8, <1>9, <1>10, <1>11, <1>12 DEF SocketStep

LEMMA LifeInit == Init => Life!Init
BY DEF Init, Life!Init

LEMMA LifeStep == Inv /\ Inv' /\ [Next]_vars => [Life!Next]_(Life!vars)
<1>1. SUFFICES ASSUME Inv, Inv', [Next]_vars PROVE [Life!Next]_(Life!vars)
  OBVIOUS
<1>2. CASE \E s \in Sockets : SocketStep(s)
  BY <1>1, <1>2, SocketStepLife DEF Inv
<1>3. CASE \/ \E s \in Sockets : Throttled(s) \/ waitToken(s)
           \/ on_Second \/ Main_StopsThrottle \/ Main_DisconnectsAll \/ Main_WaitsForSockets
           \/ Done \/ UNCHANGED vars
  <2>1. UNCHANGED <<state, owner, heard>>
    BY <1>3 DEF Throttled, waitToken, on_Second, Main_StopsThrottle, Main_DisconnectsAll,
                Main_WaitsForSockets, Done, vars
  <2>2. QED
    BY <2>1 DEF Life!vars
<1>4. QED
  BY <1>1, <1>2, <1>3 DEF Next, SocketStep

\* BufferedSocket keeps what SocketLife promises a listener: Connected, then lines
\* or data, then at most one Failed, and nothing after the owner gave the socket
\* back, whichever thread asks for what and in whatever order.
THEOREM LifeHolds == Spec => LifeSpec
<1>1. Spec => [][Life!Next]_(Life!vars)
  BY InvHolds, LifeStep, PTL DEF Spec
<1>2. QED
  BY <1>1, LifeInit, PTL DEF Spec, LifeSpec, Life!Spec
=============================================================================
