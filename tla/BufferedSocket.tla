---------------------------- MODULE BufferedSocket ----------------------------
(***************************************************************************)
(* BufferedSocket: one thread per socket, fed by a queue of tasks that     *)
(* the owner and other threads fill under cs, with the ThrottleManager     *)
(* that may hold the thread back and the main thread's shutdown().         *)
(*                                                                         *)
(* A peer's socket belongs to a UserConnection, which deletes itself, and  *)
(* so gives the socket back, inside the call of Failed; before it is       *)
(* connected it may be deleted by the function that created it.  A hub's   *)
(* socket belongs to a Client and is given back by other threads at any    *)
(* time.                                                                   *)
(*                                                                         *)
(* Bytes are left out: a buffer is empty or not, a read brings lines (or   *)
(* data) or fails; with the lines go the other calls of a connection at    *)
(* work (SocketLife: Line).  A call of the listener is one step: Speaker holds      *)
(* listenerCS while it calls, and removeListeners() takes the same lock.   *)
(* What a listener does inside a call, other than the release of a peer's  *)
(* socket, it might do at any other moment, and is an owner's step here.   *)
(***************************************************************************)
EXTENDS ThrottleManager, Sequences, SequencesExt, FiniteSets

CONSTANTS Sockets,    \* the sockets that may be created
          Peers,      \* those of them that belong to a UserConnection
          MaxSockets, \* bound: how many of them are created
          MaxTasks    \* bound: the owner asks for nothing more while so many tasks wait

ASSUME SocketsAssumption == /\ Peers \subseteq Sockets
                            /\ Threads = Sockets
                            /\ MaxSockets \in Nat /\ MaxTasks \in Nat

VARIABLES state,          \* none (not created), STARTING, RUNNING, FAILED, deleted
          tasks,          \* the queue
          disconnecting,  \* somebody wants the thread out of its loops
          writeBuf,       \* bytes wait to be taken by the thread
          sendBuf,        \* bytes the thread is sending
          pc,             \* where the thread is: events, or the function of a task
          owner,          \* none, new (no socket yet), open, put (given back)
          heard,          \* the calls of the listener, as SocketLife counts them
          main            \* the main thread in shutdown()

socketVars == <<state, tasks, disconnecting, writeBuf, sendBuf, pc, owner, heard>>
vars == <<throttleVars, socketVars, main>>

Life == INSTANCE SocketLife WITH
    phase <- [s \in Sockets |-> IF state[s] = "none" THEN "none"
                                ELSE IF state[s] = "deleted" THEN "gone"
                                ELSE IF owner[s] = "put" THEN "released" ELSE "live"],
    told <- heard

Tasks == {"CONNECT", "ACCEPTED", "DISCONNECT", "SEND_DATA", "SEND_FILE", "SHUTDOWN", "ASYNC_CALL"}

Init ==
    /\ ThrottleInit
    /\ state = [s \in Sockets |-> "none"]
    /\ tasks = [s \in Sockets |-> <<>>]
    /\ disconnecting = [s \in Sockets |-> FALSE]
    /\ writeBuf = [s \in Sockets |-> FALSE]
    /\ sendBuf = [s \in Sockets |-> FALSE]
    /\ pc = [s \in Sockets |-> "events"]
    /\ owner = [s \in Sockets |-> "none"]
    /\ heard = [s \in Sockets |-> <<>>]
    /\ main = "run"
-----------------------------------------------------------------------------
(* The owner's side.  addTask() is called under cs and wakes the thread. *)

addTask(s, t) == tasks' = [tasks EXCEPT ![s] = Append(@, t)]

(* Mutant: a fire() that calls the listeners it found before removeListeners() *)
fire_Stale(s, e) == heard' = [heard EXCEPT ![s] = Life!Told(@, e)]

(* fire(): the listeners that are still there hear the call *)
fire(s, e) == heard' = [heard EXCEPT ![s] = IF owner[s] = "put" THEN @ ELSE Life!Told(@, e)]

(* the constructor starts the thread; the owner adds itself as the listener.
   Clients connect until the timer has stopped; a peer's socket can still be
   made while shutdown() is on its way: by the servers until disconnectAll(),
   by a hub's request after it *)
getSocket(s) ==
    /\ state[s] = "none"
    /\ main = "run" \/ (s \in Peers /\ main # "done")
    /\ Cardinality({t \in Sockets : state[t] # "none"}) < MaxSockets
    /\ state' = [state EXCEPT ![s] = "STARTING"]
    /\ owner' = [owner EXCEPT ![s] = "new"]
    /\ UNCHANGED <<throttleVars, tasks, disconnecting, writeBuf, sendBuf, pc, heard, main>>

(* connect(); accept(), of a peer only *)
connect_accept(s) ==
    /\ owner[s] = "new"
    /\ owner' = [owner EXCEPT ![s] = "open"]
    /\ \/ addTask(s, "CONNECT")
       \/ s \in Peers /\ addTask(s, "ACCEPTED")
    /\ UNCHANGED <<throttleVars, state, disconnecting, writeBuf, sendBuf, pc, heard, main>>

(* Mutant: a write() that asks for the thread only if nothing is being sent either *)
write_WhenIdle(s) ==
    /\ owner[s] = "open" /\ Len(tasks[s]) < MaxTasks
    /\ IF writeBuf[s] \/ sendBuf[s] THEN UNCHANGED tasks ELSE addTask(s, "SEND_DATA")
    /\ writeBuf' = [writeBuf EXCEPT ![s] = TRUE]
    /\ UNCHANGED <<throttleVars, state, disconnecting, sendBuf, pc, owner, heard, main>>

(* write() *)
write(s) ==
    /\ owner[s] = "open" /\ Len(tasks[s]) < MaxTasks
    /\ IF writeBuf[s] THEN UNCHANGED tasks ELSE addTask(s, "SEND_DATA")
    /\ writeBuf' = [writeBuf EXCEPT ![s] = TRUE]
    /\ UNCHANGED <<throttleVars, state, disconnecting, sendBuf, pc, owner, heard, main>>

(* transmitFile(), of an upload; callAsync() *)
transmitFile_callAsync(s) ==
    /\ owner[s] = "open" /\ Len(tasks[s]) < MaxTasks
    /\ \/ s \in Peers /\ addTask(s, "SEND_FILE")
       \/ addTask(s, "ASYNC_CALL")
    /\ UNCHANGED <<throttleVars, state, disconnecting, writeBuf, sendBuf, pc, owner, heard, main>>

(* the task of disconnect() without its flag *)
disconnectTask(s) ==
    /\ owner[s] \in {"new", "open"}
    /\ addTask(s, "DISCONNECT")

(* disconnect() by the owner or by another thread that has a pointer to it *)
disconnect(s, graceless) ==
    /\ Len(tasks[s]) < MaxTasks
    /\ disconnectTask(s)
    /\ disconnecting' = [disconnecting EXCEPT ![s] = @ \/ graceless]
    /\ UNCHANGED <<throttleVars, state, writeBuf, sendBuf, pc, owner, heard, main>>

(* Mutant: a shutdown() that leaves the thread in its loops *)
shutdown_LeavesLoops(s) ==
    /\ owner' = [owner EXCEPT ![s] = "put"]
    /\ addTask(s, "SHUTDOWN")
    /\ UNCHANGED disconnecting

(* putSocket(): removeListeners(), then shutdown() *)
putSocket(s) ==
    /\ owner' = [owner EXCEPT ![s] = "put"]
    /\ disconnecting' = [disconnecting EXCEPT ![s] = TRUE]
    /\ addTask(s, "SHUTDOWN")

(* a Client lets go at any time, a UserConnection that could not be set up
   is deleted by its creator *)
Released(s) ==
    /\ owner[s] \in IF s \in Peers THEN {"new"} ELSE {"new", "open"}
    /\ putSocket(s)
    /\ UNCHANGED <<throttleVars, state, writeBuf, sendBuf, pc, heard, main>>
-----------------------------------------------------------------------------
(* The socket's thread.  It acts while it is not inside waitToken(). *)

Runs(s) == state[s] \in {"STARTING", "RUNNING", "FAILED"} /\ at[s] = "out"

(* fail(), and what the owner does in the call: a UserConnection ends with
   "delete this", whose destructor gives the socket back *)
fail(s) ==
    IF state[s] # "RUNNING" THEN UNCHANGED <<state, heard, owner, disconnecting>>
    ELSE /\ state' = [state EXCEPT ![s] = "FAILED"]
         /\ fire(s, "Failed")
         /\ IF s \in Peers /\ owner[s] = "open"
            THEN /\ owner' = [owner EXCEPT ![s] = "put"]
                 /\ disconnecting' = [disconnecting EXCEPT ![s] = TRUE]
            ELSE UNCHANGED <<owner, disconnecting>>

(* the tasks that are left when fail() has run and rest was waiting *)
TasksAfterFail(s, rest) ==
    IF state[s] = "RUNNING" /\ s \in Peers /\ owner[s] = "open" THEN Append(rest, "SHUTDOWN") ELSE rest

(* checkEvents(), a task of the STARTING state: everything but CONNECT and
   ACCEPTED is dropped *)
TakeWhenStarting(s) ==
    /\ Runs(s) /\ state[s] = "STARTING" /\ tasks[s] # <<>>
    /\ Head(tasks[s]) \notin {"SHUTDOWN", "ASYNC_CALL"}
    /\ tasks' = [tasks EXCEPT ![s] = Tail(@)]
    /\ IF Head(tasks[s]) \in {"CONNECT", "ACCEPTED"}
       THEN /\ state' = [state EXCEPT ![s] = "RUNNING"]
            /\ pc' = [pc EXCEPT ![s] = IF Head(tasks[s]) = "CONNECT" THEN "threadConnect"
                                       ELSE "threadAccept"]
       ELSE UNCHANGED <<state, pc>>
    /\ IF Head(tasks[s]) = "CONNECT" THEN fire(s, "Connecting") ELSE UNCHANGED heard
    /\ UNCHANGED <<throttleVars, disconnecting, writeBuf, sendBuf, owner, main>>

(* checkEvents(): SHUTDOWN ends the thread, which deletes the socket; an
   ASYNC_CALL is run in every state; a FAILED socket drops the others *)
TakeInAnyState(s) ==
    /\ Runs(s) /\ pc[s] = "events" /\ tasks[s] # <<>>
    /\ \/ Head(tasks[s]) \in {"SHUTDOWN", "ASYNC_CALL"}
       \/ state[s] = "FAILED"
    /\ IF Head(tasks[s]) = "SHUTDOWN"
       THEN /\ state' = [state EXCEPT ![s] = "deleted"]
            /\ tasks' = [tasks EXCEPT ![s] = <<>>]
       ELSE /\ tasks' = [tasks EXCEPT ![s] = Tail(@)]
            /\ UNCHANGED state
    /\ UNCHANGED <<throttleVars, disconnecting, writeBuf, sendBuf, pc, owner, heard, main>>

(* a task of the RUNNING state is next *)
Takes(s, t) == /\ Runs(s) /\ state[s] = "RUNNING" /\ pc[s] = "events"
               /\ tasks[s] # <<>> /\ Head(tasks[s]) = t

(* checkEvents(), SEND_DATA: the buffers are swapped under cs *)
TakeSendData(s) ==
    /\ Takes(s, "SEND_DATA")
    /\ tasks' = [tasks EXCEPT ![s] = Tail(@)]
    /\ IF writeBuf[s]
       THEN /\ writeBuf' = [writeBuf EXCEPT ![s] = sendBuf[s]]
            /\ sendBuf' = [sendBuf EXCEPT ![s] = TRUE]
            /\ pc' = [pc EXCEPT ![s] = "threadSendData"]
       ELSE UNCHANGED <<writeBuf, sendBuf, pc>>
    /\ UNCHANGED <<throttleVars, state, disconnecting, owner, heard, main>>

(* checkEvents(), SEND_FILE: the socket is looked at when the file is sent *)
TakeSendFile(s) ==
    /\ Takes(s, "SEND_FILE")
    /\ tasks' = [tasks EXCEPT ![s] = Tail(@)]
    /\ pc' = [pc EXCEPT ![s] = "threadSendFile"]
    /\ UNCHANGED <<throttleVars, state, disconnecting, writeBuf, sendBuf, owner, heard, main>>

(* checkEvents(), DISCONNECT *)
TakeDisconnect(s) ==
    /\ Takes(s, "DISCONNECT")
    /\ fail(s)
    /\ tasks' = [tasks EXCEPT ![s] = TasksAfterFail(s, Tail(@))]
    /\ UNCHANGED <<throttleVars, writeBuf, sendBuf, pc, main>>

(* run(): no task waits, look at the socket *)
checkSocket(s) ==
    /\ Runs(s) /\ state[s] = "RUNNING" /\ pc[s] = "events" /\ tasks[s] = <<>>
    /\ pc' = [pc EXCEPT ![s] = "checkSocket"]
    /\ UNCHANGED <<throttleVars, state, tasks, disconnecting, writeBuf, sendBuf, owner, heard, main>>

Busy == {"threadConnect", "threadAccept", "threadSendData", "threadSendFile", "checkSocket"}

(* after a file the loop of checkEvents() is left *)
After(p) == IF p = "threadSendFile" THEN "checkSocket" ELSE "events"

(* the function has done what it was called for; checkSocket() found nothing *)
Completes(s) ==
    /\ Runs(s) /\ pc[s] \in Busy
    /\ pc' = [pc EXCEPT ![s] = After(@)]
    /\ CASE pc[s] = "threadConnect"  -> fire(s, "Connected")
         [] pc[s] = "threadSendFile" -> fire(s, "Line")  \* TransmitDone
         [] OTHER                    -> UNCHANGED heard
    /\ sendBuf' = [sendBuf EXCEPT ![s] = @ /\ pc[s] # "threadSendData"]
    /\ UNCHANGED <<throttleVars, state, tasks, disconnecting, writeBuf, owner, main>>

(* Mutant: the loop that sends a file does not look at disconnecting *)
Stops_NotInFile(s) ==
    /\ Runs(s) /\ disconnecting[s] /\ pc[s] \in Busy \ {"checkSocket", "threadSendFile"}
    /\ pc' = [pc EXCEPT ![s] = After(@)]
    /\ UNCHANGED <<throttleVars, state, tasks, disconnecting, writeBuf, sendBuf, owner, heard, main>>

(* every loop but checkSocket()'s looks at disconnecting *)
Stops(s) ==
    /\ Runs(s) /\ disconnecting[s] /\ pc[s] \in Busy \ {"checkSocket"}
    /\ pc' = [pc EXCEPT ![s] = After(@)]
    /\ UNCHANGED <<throttleVars, state, tasks, disconnecting, writeBuf, sendBuf, owner, heard, main>>

(* an exception, from the function or from a threadRead() inside it: run()
   catches it *)
Throws(s) ==
    /\ Runs(s) /\ pc[s] \in Busy
    /\ pc' = [pc EXCEPT ![s] = "events"]
    /\ fail(s)
    /\ tasks' = [tasks EXCEPT ![s] = TasksAfterFail(s, @)]
    /\ UNCHANGED <<throttleVars, writeBuf, sendBuf, main>>

Readers == {"threadSendData", "threadSendFile", "checkSocket"}

(* threadRead(): lines or data for the listener; BytesSent in the two loops
   that send is such a call too *)
threadRead(s) ==
    /\ Runs(s) /\ pc[s] \in Readers
    /\ fire(s, "Line")
    /\ pc' = [pc EXCEPT ![s] = IF @ = "checkSocket" THEN "events" ELSE @]
    /\ UNCHANGED <<throttleVars, state, tasks, disconnecting, writeBuf, sendBuf, owner, main>>

(* the read or the write of a transfer finds no token *)
Throttled(s) ==
    /\ Runs(s) /\ s \in Peers /\ pc[s] \in Readers
    /\ NoToken(s)
    /\ UNCHANGED <<socketVars, main>>

(* waitToken() returns and nothing was read or written *)
Leaves(s) == pc' = [pc EXCEPT ![s] = IF @ = "checkSocket" /\ at'[s] = "out" THEN "events" ELSE @]

waitToken(s) ==
    /\ waitToken_Chooses(s) \/ waitToken_Locks(s)
    /\ Leaves(s)
    /\ UNCHANGED <<state, tasks, disconnecting, writeBuf, sendBuf, owner, heard, main>>
-----------------------------------------------------------------------------
(* The timer's thread and the main thread *)

on_Second == (Second_Opens \/ Second_Turns) /\ UNCHANGED <<socketVars, main>>

(* shutdown(): the timer, then the throttle *)
Main_StopsThrottle ==
    /\ \/ main = "run" /\ Timer_Stops /\ main' = "timer"
       \/ main = "timer" /\ ThrottleShutdown /\ main' = "throttle"
    /\ UNCHANGED socketVars

(* shutdown(): disconnectAll() of the ConnectionManager *)
Main_DisconnectsAll ==
    /\ main = "throttle"
    /\ main' = "wait"
    /\ LET all == {s \in Peers : owner[s] \in {"new", "open"}} IN
         /\ disconnecting' = [s \in Sockets |-> disconnecting[s] \/ s \in all]
         /\ tasks' = [s \in Sockets |-> IF s \in all THEN Append(tasks[s], "DISCONNECT") ELSE tasks[s]]
    /\ UNCHANGED <<throttleVars, state, writeBuf, sendBuf, pc, owner, heard>>

(* shutdown(): waitShutdown() returns when the last socket is deleted *)
Main_WaitsForSockets ==
    /\ main = "wait"
    /\ \A s \in Sockets : state[s] \in {"none", "deleted"}
    /\ main' = "done"
    /\ UNCHANGED <<throttleVars, socketVars>>

(* the thread sleeps for ever on a mutex of the ended timer *)
Stuck(s) == timer = "stopped" /\ at[s] = "blocked" /\ held[curCS[s]] > 0

(* the program may stop here: nothing else is a deadlock *)
Done == (main = "done" \/ \E s \in Sockets : Stuck(s)) /\ UNCHANGED vars

Takes_Task(s) == \/ TakeWhenStarting(s) \/ TakeInAnyState(s) \/ TakeSendData(s)
                 \/ TakeSendFile(s) \/ TakeDisconnect(s)

Next ==
    \/ \E s \in Sockets :
         \/ getSocket(s) \/ connect_accept(s) \/ write(s) \/ transmitFile_callAsync(s)
         \/ \E graceless \in BOOLEAN : disconnect(s, graceless)
         \/ Released(s)
         \/ TakeWhenStarting(s) \/ TakeInAnyState(s) \/ TakeSendData(s)
         \/ TakeSendFile(s) \/ TakeDisconnect(s)
         \/ checkSocket(s) \/ Completes(s) \/ Stops(s) \/ Throws(s) \/ threadRead(s)
         \/ Throttled(s) \/ waitToken(s)
    \/ on_Second
    \/ Main_StopsThrottle \/ Main_DisconnectsAll \/ Main_WaitsForSockets \/ Done

Spec == Init /\ [][Next]_vars

(* What the threads' loops guarantee.  A task that waits is taken; connecting
   and accepting end within 30 seconds and a look at the socket within 250 ms;
   every loop looks at disconnecting in each round (between two waits for a
   token, hence SF); the timer ticks every second until it is stopped, and a
   mutex it lets go of stays free for a second, in which who waits for it
   gets it (SF). *)
Looks(s) == /\ pc[s] \in {"threadConnect", "threadAccept", "checkSocket"}
            /\ Completes(s) \/ Throws(s) \/ threadRead(s)

Fairness == /\ WF_vars(on_Second)
            /\ \A s \in Sockets : /\ WF_vars(Takes_Task(s)) /\ WF_vars(checkSocket(s))
                                  /\ WF_vars(Looks(s))
                                  /\ SF_vars(Stops(s)) /\ SF_vars(waitToken(s))

FairSpec == Spec /\ Fairness
-----------------------------------------------------------------------------
TypeOK ==
    /\ ThrottleTypeOK
    /\ state \in [Sockets -> {"none", "STARTING", "RUNNING", "FAILED", "deleted"}]
    /\ tasks \in [Sockets -> Seq(Tasks)]
    /\ disconnecting \in [Sockets -> BOOLEAN]
    /\ writeBuf \in [Sockets -> BOOLEAN]
    /\ sendBuf \in [Sockets -> BOOLEAN]
    /\ pc \in [Sockets -> Busy \cup {"events"}]
    /\ owner \in [Sockets -> {"none", "new", "open", "put"}]
    /\ heard \in [Sockets -> Seq(Life!Calls)]
    /\ main \in {"run", "timer", "throttle", "wait", "done"}

(* Bytes that the owner wrote are never left behind: while the socket runs and
   nobody wants it to end, a SEND_DATA is queued as long as writeBuf is not
   empty (write() adds one only when it finds the buffer empty, so a missed one
   would silence the connection for good). *)
WriteNotLost ==
    \A s \in Sockets : state[s] = "RUNNING" /\ ~disconnecting[s] /\ writeBuf[s]
                         => Contains(tasks[s], "SEND_DATA")

(* A graceless disconnect() of a socket that has left the STARTING state ends
   the connection, whatever the peer does and whatever is queued before it. *)
HungUp ==
    \A s \in Sockets :
        state[s] = "RUNNING" /\ disconnecting[s] /\ Contains(tasks[s], "DISCONNECT")
        ~> state[s] \in {"FAILED", "deleted"} \/ Stuck(s)

(* putSocket() deletes nothing: it leaves the deletion to the thread, which
   finds SHUTDOWN behind the tasks before it, in a loop of a function or in a
   wait for a token.  A socket that was given back is deleted all the same;
   the one exception is a thread that the throttle holds when the timer has
   stopped, of which ShutdownLetsGo speaks. *)
SocketsEnd ==
    \A s \in Sockets :
        owner[s] = "put" ~> state[s] = "deleted" \/ (timer = "stopped" /\ at[s] = "blocked")

(* A transfer that waits for a token is let out by the timer's next ticks. *)
WaitersGo == \A s \in Sockets : at[s] = "blocked" ~> at[s] = "out" \/ timer = "stopped"

(* The listener's view: the calls come in order, none after the release. *)
LifeSpec == Life!Spec
===============================================================================
