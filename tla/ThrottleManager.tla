---------------------------- MODULE ThrottleManager ----------------------------
(***************************************************************************)
(* ThrottleManager: how the threads of the throttled transfers wait for    *)
(* the next second's tokens.  The timer thread always holds one of two     *)
(* recursive mutexes, waitCS[activeWaiter]; a transfer without a token     *)
(* locks that one and so sleeps until the timer, in its next tick, takes   *)
(* the other and lets go of it.                                            *)
(*                                                                         *)
(* How many bytes a token is worth is left out: a transfer that asks finds *)
(* tokens or does not, as it likes.  Only the timer ever keeps one of the  *)
(* two mutexes, so they are counted for it; a waiter locks and unlocks     *)
(* in one step.                                                            *)
(***************************************************************************)
EXTENDS Integers

CONSTANT Threads       \* the threads that may wait: those of the sockets

VARIABLES activeWaiter,  \* -1 until the first tick and after shutdown(), else 0 or 1
          held,          \* how often the timer thread has locked waitCS[0], waitCS[1]
          timer,         \* idle, second (inside on(Second)), stopped: the TimerManager thread
          at,            \* per thread: out, in (waitToken() entered), blocked (curCS chosen)
          curCS          \* per thread: the mutex it waits for

throttleVars == <<activeWaiter, held, timer, at, curCS>>

Gates == {0, 1}

ThrottleInit ==
    /\ activeWaiter = -1
    /\ held = [g \in Gates |-> 0]
    /\ timer = "idle"
    /\ at = [t \in Threads |-> "out"]
    /\ curCS = [t \in Threads |-> 0]

(* getCurThrottling(): read under stateCS, used after it is let go *)
getCurThrottling == activeWaiter # -1

(* read(), write(): throttling is on and there is no token left *)
NoToken(t) ==
    /\ getCurThrottling /\ at[t] = "out"
    /\ at' = [at EXCEPT ![t] = "in"]
    /\ UNCHANGED <<activeWaiter, held, timer, curCS>>

(* waitToken(), under stateCS: choose the mutex, or none *)
waitToken_Chooses(t) ==
    /\ at[t] = "in"
    /\ IF activeWaiter # -1
       THEN /\ at' = [at EXCEPT ![t] = "blocked"]
            /\ curCS' = [curCS EXCEPT ![t] = activeWaiter]
       ELSE /\ at' = [at EXCEPT ![t] = "out"]
            /\ UNCHANGED curCS
    /\ UNCHANGED <<activeWaiter, held, timer>>

(* waitToken(), Lock l( *curCS ): the mutex is free *)
waitToken_Locks(t) ==
    /\ at[t] = "blocked" /\ held[curCS[t]] = 0
    /\ at' = [at EXCEPT ![t] = "out"]
    /\ UNCHANGED <<activeWaiter, held, timer, curCS>>

(* Mutant: every tick locks the first mutex again *)
Second_Opens_Always ==
    /\ timer = "idle"
    /\ timer' = "second"
    /\ activeWaiter' = 0
    /\ held' = [held EXCEPT ![0] = @ + 1]
    /\ UNCHANGED <<at, curCS>>

(* on(Second), until the tokens have been added *)
Second_Opens ==
    /\ timer = "idle"
    /\ timer' = "second"
    /\ IF activeWaiter = -1
       THEN /\ activeWaiter' = 0
            /\ held' = [held EXCEPT ![0] = @ + 1]
       ELSE UNCHANGED <<activeWaiter, held>>
    /\ UNCHANGED <<at, curCS>>

(* Mutant: the same with the two mutexes confused: the one let go of is the new one *)
Second_Turns_KeepsOld ==
    /\ timer = "second"
    /\ timer' = "idle"
    /\ activeWaiter' = 1 - activeWaiter
    /\ UNCHANGED <<held, at, curCS>>

(* on(Second), the part that lets the waiters out, under stateCS *)
Second_Turns ==
    /\ timer = "second"
    /\ timer' = "idle"
    /\ activeWaiter' = 1 - activeWaiter
    /\ held' = [held EXCEPT ![1 - activeWaiter] = @ + 1, ![activeWaiter] = @ - 1]
    /\ UNCHANGED <<at, curCS>>

(* TimerManager::shutdown() joins the timer's thread, which ends between
   two ticks *)
Timer_Stops ==
    /\ timer = "idle"
    /\ timer' = "stopped"
    /\ UNCHANGED <<activeWaiter, held, at, curCS>>

(* shutdown(), on the main thread: unlock() of a mutex that the ended timer
   thread owns is undefined.  The mutex may be released, or refuse. *)
ThrottleShutdown ==
    /\ timer = "stopped"
    /\ activeWaiter' = -1
    /\ IF activeWaiter # -1
       THEN \E n \in {0, held[activeWaiter]} : held' = [held EXCEPT ![activeWaiter] = n]
       ELSE UNCHANGED held
    /\ UNCHANGED <<timer, at, curCS>>
-----------------------------------------------------------------------------
ThrottleTypeOK ==
    /\ activeWaiter \in {-1, 0, 1}
    /\ held \in [Gates -> {0, 1}]
    /\ timer \in {"idle", "second", "stopped"}
    /\ at \in [Threads -> {"out", "in", "blocked"}]
    /\ curCS \in [Threads -> Gates]

(* The timer holds exactly the mutex that activeWaiter names: were both free
   throttled transfers would spin without a token, were both held they would
   never wake. *)
OneGateShut ==
    getCurThrottling => \A g \in Gates : held[g] = IF g = activeWaiter THEN 1 ELSE 0

(* What waitToken() says of a shutdown, "0/1-> -1: falls through. Both
   harmless": once shutdown() has run nobody is kept waiting by a mutex. *)
ShutdownLetsGo == timer = "stopped" /\ activeWaiter = -1 => held = [g \in Gates |-> 0]
===============================================================================
