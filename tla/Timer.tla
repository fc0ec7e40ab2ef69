------------------------------- MODULE Timer -------------------------------
(***************************************************************************)
(* The timers of src/unix/timer.c: an application thread that creates,     *)
(* starts, stops and deletes timers and installs callbacks, and the one    *)
(* polling thread, pvThread, that waits for all of them with epoll and     *)
(* calls the callbacks.  No mutex protects what they share.                *)
(*                                                                         *)
(* Time is abstracted to the expirations of the kernel's timers; an        *)
(* xTimer that is freed keeps its contents until its address is used again.*)
(***************************************************************************)
EXTENDS Naturals, Sequences, FiniteSets

CONSTANTS
  Timer, Null, \* addresses of xTimer, NULL
  MaxEvents,   \* MAX_EVENTS, size of ev
  ReadSize,    \* sizeof (uint64_t), what read returns
  Calls,       \* the functions that the application calls
  MaxExpired   \* bound: expirations of a timer

Call == {"Delete", "Start", "Stop", "SetCallback", "UnsetCallback", "Wait"}

ASSUME TimerAssumption ==
  /\ Null \notin Timer
  /\ MaxEvents \in Nat /\ ReadSize \in 1 .. MaxEvents
  /\ Calls \subseteq Call /\ MaxExpired \in Nat

VARIABLES
  \* ---- kernel: file open, armed, periodic, expirations not read, in the set
  \*      of epoll
  open, armed, periodic, count, reg,
  \* ---- xTimer: allocated, is_active, callback is not NULL
  live, active, callback,
  \* ---- pvThread: its step, ev, i, ret, res - j
  thread, ev, i, ret, todo,
  \* ---- application: the rest of the call in progress, and its timer
  app, at,
  \* ---- history: expirations, expirations given to a callback or iTimerWait
  expired, served

kernelVars == <<open, armed, periodic, count, reg>>
timerVars == <<live, active, callback>>
threadVars == <<thread, ev, i, ret, todo>>
appVars == <<app, at>>
histVars == <<expired, served>>
vars == <<kernelVars, timerVars, threadVars, appVars, histVars>>

AllFalse == [t \in Timer |-> FALSE]
Zero == [t \in Timer |-> 0]

(* ev is on the stack of the thread; its memory is fresh. *)
Init ==
  /\ open = AllFalse /\ armed = AllFalse /\ periodic = AllFalse /\ count = Zero /\ reg = AllFalse
  /\ live = AllFalse /\ active = AllFalse /\ callback = AllFalse
  /\ thread = "none" /\ ev = [e \in 1 .. MaxEvents |-> Null] /\ i = 0 /\ ret = 0 /\ todo = 0
  /\ app = "idle" /\ at \in Timer
  /\ expired = Zero /\ served = Zero

-----------------------------------------------------------------------------
(* The kernel: a timer that is armed expires. *)
Expire(t) ==
  /\ armed[t] /\ expired[t] < MaxExpired
  /\ count' = [count EXCEPT ![t] = @ + 1]
  /\ expired' = [expired EXCEPT ![t] = @ + 1]
  /\ armed' = [armed EXCEPT ![t] = periodic[t]]
  /\ UNCHANGED <<open, periodic, reg, timerVars, threadVars, appVars, served>>

-----------------------------------------------------------------------------
(* The application; its calls follow each other.                           *)

Idle(c, t) == app = "idle" /\ c \in Calls /\ live[t]

xTimerNew(t) ==
  /\ app = "idle" /\ ~ live[t]
  /\ live' = [live EXCEPT ![t] = TRUE] /\ open' = [open EXCEPT ![t] = TRUE]
  /\ active' = [active EXCEPT ![t] = FALSE] /\ callback' = [callback EXCEPT ![t] = FALSE]
  /\ UNCHANGED <<armed, periodic, count, reg, threadVars, appVars, histVars>>

(* timerfd_settime with zeros, if is_active: the timer is disarmed and its *)
(* expirations are forgotten.  is_active stays true, ret being 0.          *)
Stop(t) ==
  IF active[t]
    THEN /\ armed' = [armed EXCEPT ![t] = FALSE] /\ count' = [count EXCEPT ![t] = 0]
         /\ UNCHANGED active
    ELSE UNCHANGED <<armed, count, active>>

iTimerStop(t) ==
  /\ Idle("Stop", t)
  /\ Stop(t)
  /\ UNCHANGED <<open, periodic, reg, live, callback, threadVars, appVars, histVars>>

(* iTimerStart after vTimerSetInterval, an interval of 0 leaves the timer  *)
(* disarmed, and vTimerSetSingleShot.                                      *)
iTimerStart(t, on, p) ==
  /\ Idle("Start", t)
  /\ count' = [count EXCEPT ![t] = 0]
  /\ armed' = [armed EXCEPT ![t] = on] /\ periodic' = [periodic EXCEPT ![t] = p]
  /\ active' = [active EXCEPT ![t] = TRUE]
  /\ UNCHANGED <<open, reg, live, callback, threadVars, appVars, histVars>>

(* iTimerSetCallback: the thread is created at the first call.  If the     *)
(* timer was in the set it is taken out, and that is all.                  *)
iTimerSetCallback(t) ==
  /\ Idle("SetCallback", t)
  /\ thread' = IF thread = "none" THEN "wait" ELSE thread
  /\ IF reg[t]
       THEN reg' = [reg EXCEPT ![t] = FALSE] /\ UNCHANGED <<callback, appVars>>
       ELSE callback' = [callback EXCEPT ![t] = TRUE] /\ app' = "add" /\ at' = t /\ UNCHANGED reg
  /\ UNCHANGED <<open, armed, periodic, count, live, active, ev, i, ret, todo, histVars>>

EpollAdd ==
  /\ app = "add"
  /\ reg' = [reg EXCEPT ![at] = TRUE]
  /\ app' = "idle"
  /\ UNCHANGED <<open, armed, periodic, count, timerVars, threadVars, at, histVars>>

(* A timer that is not in the set gives an error and changes nothing. *)
iTimerUnsetCallback(t) ==
  /\ Idle("UnsetCallback", t) /\ thread # "none" /\ reg[t]
  /\ reg' = [reg EXCEPT ![t] = FALSE]
  /\ app' = "clear" /\ at' = t
  /\ UNCHANGED <<open, armed, periodic, count, timerVars, threadVars, histVars>>

ClearCallback ==
  /\ app = "clear"
  /\ callback' = [callback EXCEPT ![at] = FALSE]
  /\ app' = "idle"
  /\ UNCHANGED <<kernelVars, live, active, threadVars, at, histVars>>

(* iTimerDelete: Stop, close, which takes the file out of the set, and     *)
(* free.  A thread that reads this file waits for ever.                    *)
iTimerDelete(t) ==
  /\ Idle("Delete", t)
  /\ armed' = [armed EXCEPT ![t] = FALSE] /\ count' = [count EXCEPT ![t] = 0]
  /\ open' = [open EXCEPT ![t] = FALSE] /\ reg' = [reg EXCEPT ![t] = FALSE]
  /\ thread' = IF thread = "blocked" /\ ev[i + 1] = t THEN "stuck" ELSE thread
  /\ app' = "free" /\ at' = t
  /\ UNCHANGED <<periodic, timerVars, ev, i, ret, todo, histVars>>

Free ==
  /\ app = "free"
  /\ live' = [live EXCEPT ![at] = FALSE]
  /\ app' = "idle"
  /\ UNCHANGED <<kernelVars, active, callback, threadVars, at, histVars>>

(* Faulty variant: the expirations stay in the file. *)
TakeKeeps(t) ==
  /\ count[t] > 0
  /\ UNCHANGED count

(* read on the file of the timer: it waits for an expiration and takes all. *)
Take(t) ==
  /\ count[t] > 0
  /\ count' = [count EXCEPT ![t] = 0]

iTimerWait(t) ==
  /\ Idle("Wait", t)
  /\ Take(t)
  /\ served' = [served EXCEPT ![t] = @ + count[t]]
  /\ UNCHANGED <<open, armed, periodic, reg, timerVars, threadVars, appVars, expired>>

AppNext == EpollAdd \/ ClearCallback \/ Free

-----------------------------------------------------------------------------
(* pvThread *)

Ready == {t \in Timer : reg[t] /\ count[t] > 0}

(* epoll_wait fills the first entries of ev, the others keep what they had.*)
EpollWait ==
  /\ thread = "wait"
  /\ \E n \in 1 .. MaxEvents : \E s \in [1 .. n -> Ready] :
       /\ \A d, e \in 1 .. n : s[d] = s[e] => d = e
       /\ n = Cardinality(Ready) \/ n = MaxEvents
       /\ ev' = [e \in 1 .. MaxEvents |-> IF e <= n THEN s[e] ELSE ev[e]]
       /\ ret' = n
  /\ i' = 0 /\ thread' = "loop"
  /\ UNCHANGED <<kernelVars, timerVars, todo, appVars, histVars>>

LoopEnd ==
  /\ thread = "loop" /\ i >= ret
  /\ thread' = "wait"
  /\ UNCHANGED <<kernelVars, timerVars, ev, i, ret, todo, appVars, histVars>>

NextEvent == i' = i + 1 /\ thread' = "loop"

LoopNull ==
  /\ thread = "loop" /\ i < ret /\ ev[i + 1] = Null
  /\ NextEvent
  /\ UNCHANGED <<kernelVars, timerVars, ev, ret, todo, appVars, histVars>>

(* Faulty variant: the entry is not tested. *)
LoopReadUntested ==
  /\ thread = "loop" /\ i < ret
  /\ thread' = "blocked"
  /\ UNCHANGED <<kernelVars, timerVars, ev, i, ret, todo, appVars, histVars>>

(* read: an error if the file was closed, otherwise it waits. *)
LoopRead ==
  /\ thread = "loop" /\ i < ret /\ ev[i + 1] # Null
  /\ IF open[ev[i + 1]] THEN thread' = "blocked" /\ UNCHANGED <<i, ret>>
     ELSE NextEvent /\ ret' = 0
  /\ UNCHANGED <<kernelVars, timerVars, ev, todo, appVars, histVars>>

(* ret, the bound of the loop, takes the size that was read. *)
ReadDone ==
  /\ thread = "blocked"
  /\ Take(ev[i + 1])
  /\ ret' = ReadSize /\ todo' = count[ev[i + 1]]
  /\ thread' = "serve"
  /\ UNCHANGED <<open, armed, periodic, reg, timerVars, ev, i, appVars, histVars>>

(* One turn of the loop on j: the callback, if there is one. *)
Serve ==
  /\ thread = "serve"
  /\ IF callback[ev[i + 1]] THEN served' = [served EXCEPT ![ev[i + 1]] = @ + 1]
     ELSE UNCHANGED served
  /\ todo' = todo - 1
  /\ IF todo = 1 THEN NextEvent ELSE UNCHANGED <<thread, i>>
  /\ UNCHANGED <<kernelVars, timerVars, ev, ret, appVars, expired>>

pvThread == EpollWait \/ LoopEnd \/ LoopNull \/ LoopRead \/ ReadDone \/ Serve

Next ==
  \/ \E t \in Timer :
       \/ Expire(t)
       \/ xTimerNew(t) \/ iTimerStop(t)
       \/ \E on, p \in BOOLEAN : iTimerStart(t, on, p)
       \/ iTimerSetCallback(t) \/ iTimerUnsetCallback(t)
       \/ iTimerDelete(t) \/ iTimerWait(t)
  \/ AppNext
  \/ pvThread

(* The thread is scheduled and the calls that do not wait return. *)
Spec == Init /\ [][Next]_vars /\ WF_vars(pvThread) /\ WF_vars(AppNext)

-----------------------------------------------------------------------------
Flags == [Timer -> BOOLEAN]

TypeOK ==
  /\ open \in Flags /\ armed \in Flags /\ periodic \in Flags /\ reg \in Flags
  /\ live \in Flags /\ active \in Flags /\ callback \in Flags
  /\ count \in [Timer -> Nat] /\ expired \in [Timer -> Nat] /\ served \in [Timer -> Nat]
  /\ thread \in {"none", "wait", "loop", "blocked", "serve", "stuck"}
  /\ ev \in [1 .. MaxEvents -> Timer \cup {Null}]
  /\ i \in Nat /\ ret \in 0 .. MaxEvents /\ todo \in Nat
  /\ app \in {"idle", "add", "clear", "free"} /\ at \in Timer

(* The entry that pvThread follows is in ev and not NULL, although ret,    *)
(* the bound of its loop, changes inside the loop.                         *)
EventInBounds == thread \in {"blocked", "serve"} => i < MaxEvents /\ ev[i + 1] # Null

(* An expiration is given once: to a callback, to iTimerWait or to nobody, *)
(* whatever the calls that come between epoll_wait, read and the callback. *)
ServedOnce == \A t \in Timer : served[t] <= expired[t]

(* iTimerStop and iTimerDelete leave nothing armed: is_active is never     *)
(* false for a timer of the kernel that is armed or has expired.           *)
ArmedIsActive == \A t \in Timer : live[t] /\ (armed[t] \/ count[t] > 0) => active[t]

(* What epoll watches is allocated, open and has a callback. *)
RegisteredHasCallback == \A t \in Timer : reg[t] => live[t] /\ open[t] /\ callback[t]

(* pvThread shares ev, the epoll set and the timers with the application   *)
(* without a lock: it reads no entry past the end of ev, and what epoll    *)
(* tells it of is never a timer without a callback, closed or freed.       *)
ThreadSafe == EventInBounds /\ RegisteredHasCallback

(* An expiration of a timer with a callback reaches it, or the application *)
(* removes the callback or stops the timer.                                *)
ExpirationServed == \A t \in Timer : count[t] > 0 /\ reg[t] ~> count[t] = 0 \/ ~ reg[t]

=============================================================================
