---------------------------- MODULE TimerProofs ----------------------------
(***************************************************************************)
(* For any number of timers and any size of ev: the polling thread stays   *)
(* in ev, no expiration is served twice, what is armed is active, and what *)
(* epoll watches is alive and has a callback, although nothing locks what  *)
(* the thread and the application share.                                   *)
(***************************************************************************)
EXTENDS Timer, TLAPS

(* The loops of pvThread: an entry that is read is one of ev, and the loop *)
(* on j has a turn left.                                                   *)
LoopInv ==
  /\ EventInBounds
  /\ thread = "serve" => todo > 0

(* Expirations that were read and that the loop on j still has to serve.   *)
Pending(t) == IF thread = "serve" /\ ev[i + 1] = t THEN todo ELSE 0

ServeInv == \A t \in Timer : served[t] + count[t] + Pending(t) <= expired[t]

(* What is true of a timer whose file is closed, and of one that epoll     *)
(* watches; the file of a live timer is open but in the middle of          *)
(* iTimerDelete.                                                           *)
Life(t) ==
  /\ ~ open[t] => ~ armed[t] /\ count[t] = 0 /\ ~ reg[t]
  /\ open[t] => live[t]
  /\ live[t] /\ ~ open[t] => app = "free" /\ at = t
  /\ armed[t] \/ count[t] > 0 => active[t]
  /\ reg[t] => callback[t]

(* The call in progress. *)
CallInv ==
  /\ app = "add" => open[at] /\ callback[at]
  /\ app = "clear" => open[at] /\ ~ reg[at]
  /\ app = "free" => ~ open[at]

LifeInv == CallInv /\ \A t \in Timer : Life(t)

IInv == TypeOK /\ LoopInv /\ ServeInv /\ LifeInv

(* The initial state satisfies the invariant. *)
LEMMA InitIInv == Init => IInv
<1> SUFFICES ASSUME Init PROVE IInv
  OBVIOUS
<1> USE TimerAssumption DEF Init, AllFalse, Zero
<1>1. TypeOK
  BY DEF TypeOK, Flags
<1>2. LoopInv
  BY DEF LoopInv, EventInBounds
<1>3. ServeInv
  BY DEF ServeInv, Pending
<1>4. LifeInv
  BY DEF LifeInv, CallInv, Life
<1> QED
  BY <1>1, <1>2, <1>3, <1>4 DEF IInv

(* Every step keeps the types. *)
LEMMA TypeStep == TypeOK /\ LoopInv /\ [Next]_vars => TypeOK'
<1> SUFFICES ASSUME TypeOK, LoopInv, [Next]_vars PROVE TypeOK'
  OBVIOUS
<1> USE TimerAssumption DEF TypeOK, Flags, kernelVars, timerVars, threadVars, appVars, histVars
<1>1. CASE UNCHANGED vars
  BY <1>1 DEF vars
<1>2. ASSUME NEW t \in Timer, Expire(t) \/ xTimerNew(t)
      PROVE  TypeOK'
  <2>1. CASE Expire(t)
    BY <2>1 DEF Expire
  <2>2. CASE xTimerNew(t)
    BY <2>2 DEF xTimerNew
  <2> QED BY <1>2, <2>1, <2>2
<1>3. ASSUME NEW t \in Timer, iTimerStop(t) \/ \E on, p \in BOOLEAN : iTimerStart(t, on, p)
      PROVE  TypeOK'
  <2>1. CASE iTimerStop(t)
    <3>1. CASE active[t]
      <4>1. /\ armed' = [armed EXCEPT ![t] = FALSE] /\ count' = [count EXCEPT ![t] = 0]
            /\ active' = active
        BY <2>1, <3>1 DEF iTimerStop, Stop
      <4>2. armed' \in [Timer -> BOOLEAN] /\ count' \in [Timer -> Nat]
        BY <4>1
      <4> QED BY <2>1, <4>1, <4>2 DEF iTimerStop
    <3>2. CASE ~ active[t]
      BY <2>1, <3>2 DEF iTimerStop, Stop
    <3> QED BY <3>1, <3>2
  <2>2. ASSUME NEW on \in BOOLEAN, NEW p \in BOOLEAN, iTimerStart(t, on, p)
        PROVE  TypeOK'
    BY <2>2 DEF iTimerStart
  <2> QED BY <1>3, <2>1, <2>2
<1>9. ASSUME NEW t \in Timer, iTimerSetCallback(t) \/ iTimerUnsetCallback(t)
      PROVE  TypeOK'
  <2>1. CASE iTimerSetCallback(t)
    BY <2>1 DEF iTimerSetCallback
  <2>2. CASE iTimerUnsetCallback(t)
    BY <2>2 DEF iTimerUnsetCallback
  <2> QED BY <1>9, <2>1, <2>2
<1>10. ASSUME NEW t \in Timer, iTimerDelete(t) \/ iTimerWait(t)
      PROVE  TypeOK'
  <2>1. CASE iTimerDelete(t)
    BY <2>1 DEF iTimerDelete
  <2>2. CASE iTimerWait(t)
    BY <2>2 DEF iTimerWait, Take
  <2> QED BY <1>10, <2>1, <2>2
<1>4. CASE AppNext
  BY <1>4 DEF AppNext, EpollAdd, ClearCallback, Free
<1>5. CASE EpollWait
  <2>1. PICK n \in 1 .. MaxEvents : \E s \in [1 .. n -> Ready] :
          /\ ev' = [e \in 1 .. MaxEvents |-> IF e <= n THEN s[e] ELSE ev[e]]
          /\ ret' = n
    BY <1>5 DEF EpollWait
  <2>2. PICK s \in [1 .. n -> Ready] : ev' = [e \in 1 .. MaxEvents |-> IF e <= n THEN s[e] ELSE ev[e]]
    BY <2>1
  <2>3. \A e \in 1 .. MaxEvents : (IF e <= n THEN s[e] ELSE ev[e]) \in Timer \cup {Null}
    BY DEF Ready
  <2>4. ev' \in [1 .. MaxEvents -> Timer \cup {Null}] /\ ret' \in 0 .. MaxEvents
    BY <2>1, <2>2, <2>3
  <2> QED BY <1>5, <2>4 DEF EpollWait
<1>6. CASE LoopEnd \/ LoopNull \/ LoopRead
  BY <1>6 DEF LoopEnd, LoopNull, LoopRead, NextEvent
<1>7. CASE ReadDone
  BY <1>7 DEF ReadDone, Take, LoopInv, EventInBounds
<1>8. CASE Serve
  <2>1. ev[i + 1] \in Timer /\ todo - 1 \in Nat
    BY <1>8 DEF Serve, LoopInv, EventInBounds
  <2>2. served' \in [Timer -> Nat]
    <3>1. CASE callback[ev[i + 1]]
      <4>1. served' = [served EXCEPT ![ev[i + 1]] = @ + 1]
        BY <1>8, <3>1 DEF Serve
      <4> QED BY <2>1, <4>1
    <3>2. CASE ~ callback[ev[i + 1]]
      BY <1>8, <3>2 DEF Serve
    <3> QED BY <3>1, <3>2
  <2>3. /\ UNCHANGED <<kernelVars, timerVars, ev, ret, appVars, expired>>
        /\ todo' = todo - 1
        /\ i' \in {i, i + 1} /\ thread' \in {"serve", "loop"}
    BY <1>8 DEF Serve, NextEvent
  <2> QED BY <2>1, <2>2, <2>3
<1> QED
  BY <1>1, <1>2, <1>3, <1>4, <1>5, <1>6, <1>7, <1>8, <1>9, <1>10 DEF Next, pvThread

(* Every step keeps the thread in ev. *)
LEMMA LoopStep == TypeOK /\ LoopInv /\ [Next]_vars => LoopInv'
<1> SUFFICES ASSUME TypeOK, LoopInv, [Next]_vars PROVE LoopInv'
  OBVIOUS
<1> USE TimerAssumption DEF TypeOK, LoopInv, EventInBounds, threadVars
<1>1. CASE UNCHANGED threadVars
  BY <1>1
<1>2. ASSUME NEW t \in Timer, iTimerSetCallback(t) \/ iTimerDelete(t)
      PROVE  LoopInv'
  BY <1>2 DEF iTimerSetCallback, iTimerDelete
<1>3. CASE EpollWait \/ LoopEnd
  BY <1>3 DEF EpollWait, LoopEnd
<1>4. CASE LoopNull \/ LoopRead
  BY <1>4 DEF LoopNull, LoopRead, NextEvent
<1>5. CASE ReadDone
  BY <1>5 DEF ReadDone, Take
<1>6. CASE Serve
  BY <1>6 DEF Serve, NextEvent
<1> QED
  BY <1>1, <1>2, <1>3, <1>4, <1>5, <1>6
  DEF Next, pvThread, AppNext, vars, Expire, xTimerNew, iTimerStop, iTimerStart,
      iTimerUnsetCallback, iTimerWait, EpollAdd, ClearCallback, Free

(* Every step keeps what was served, what can still be and what expired in *)
(* order.                                                                  *)
LEMMA ServeStep == TypeOK /\ LoopInv /\ ServeInv /\ [Next]_vars => ServeInv'
<1> SUFFICES ASSUME TypeOK, LoopInv, ServeInv, [Next]_vars, NEW u \in Timer
             PROVE  served'[u] + count'[u] + Pending(u)' <= expired'[u]
  BY DEF ServeInv
<1> DEFINE Goal == served'[u] + count'[u] + Pending(u)' <= expired'[u]
<1>0. served[u] \in Nat /\ count[u] \in Nat /\ expired[u] \in Nat
  BY DEF TypeOK
<1>p. Pending(u) \in Nat
  BY DEF Pending, TypeOK
<1>i. served[u] + count[u] + Pending(u) <= expired[u]
  BY DEF ServeInv
<1> SUFFICES ASSUME Pending(u)' \in Nat PROVE Goal
  <2>1. TypeOK'
    BY TypeStep
  <2>2. Pending(u)' \in Nat
    BY <2>1 DEF Pending, TypeOK
  <2> QED BY <2>2
<1>1. CASE UNCHANGED <<threadVars, histVars>> /\ (count' = count \/ \E t \in Timer : count' = [count EXCEPT ![t] = 0])
  <2>1. count'[u] \in Nat /\ count'[u] <= count[u]
    <3>1. CASE count' = count
      BY <1>0, <3>1
    <3>2. ASSUME NEW t \in Timer, count' = [count EXCEPT ![t] = 0]
          PROVE  count'[u] \in Nat /\ count'[u] <= count[u]
      <4>1. count'[u] = IF u = t THEN 0 ELSE count[u]
        BY <3>2 DEF TypeOK
      <4> QED BY <1>0, <4>1
    <3> QED BY <1>1, <3>1, <3>2
  <2>2. Pending(u)' = Pending(u)
    BY <1>1 DEF Pending, threadVars
  <2>3. served'[u] = served[u] /\ expired'[u] = expired[u]
    BY <1>1 DEF histVars
  <2> QED BY <1>0, <1>p, <1>i, <2>1, <2>2, <2>3
<1>2. ASSUME NEW t \in Timer, Expire(t)
      PROVE  Goal
  <2>1. Pending(u)' = Pending(u) /\ served' = served
    BY <1>2 DEF Expire, Pending, threadVars
  <2>2. \/ count'[u] = count[u] /\ expired'[u] = expired[u]
        \/ count'[u] = count[u] + 1 /\ expired'[u] = expired[u] + 1
    BY <1>2 DEF Expire, TypeOK
  <2> QED BY <1>0, <1>p, <1>i, <2>1, <2>2
<1>3. ASSUME NEW t \in Timer, iTimerSetCallback(t)
      PROVE  Goal
  <2>1. Pending(u)' = Pending(u)
    BY <1>3 DEF iTimerSetCallback, Pending
  <2>2. UNCHANGED <<served, count, expired>>
    BY <1>3 DEF iTimerSetCallback, histVars
  <2> QED BY <1>i, <2>1, <2>2
<1>4. ASSUME NEW t \in Timer, iTimerDelete(t)
      PROVE  Goal
  <2>1. Pending(u)' = Pending(u)
    BY <1>4 DEF iTimerDelete, Pending
  <2>2. served' = served /\ expired' = expired
    BY <1>4 DEF iTimerDelete, histVars
  <2>3. count'[u] \in Nat /\ count'[u] <= count[u]
    BY <1>0, <1>4 DEF iTimerDelete, TypeOK
  <2> QED BY <1>0, <1>p, <1>i, <2>1, <2>2, <2>3
<1>5. ASSUME NEW t \in Timer, iTimerWait(t)
      PROVE  Goal
  <2>1. Pending(u)' = Pending(u) /\ expired' = expired
    BY <1>5 DEF iTimerWait, Pending, threadVars
  <2>2. /\ count' = [count EXCEPT ![t] = 0]
        /\ served' = [served EXCEPT ![t] = @ + count[t]]
    BY <1>5 DEF iTimerWait, Take
  <2>3. CASE u = t
    <3>1. count'[u] = 0 /\ served'[u] = served[u] + count[u]
      BY <2>2, <2>3 DEF TypeOK
    <3> QED BY <1>0, <1>p, <1>i, <2>1, <3>1
  <2>4. CASE u # t
    <3>1. count'[u] = count[u] /\ served'[u] = served[u]
      BY <2>2, <2>4 DEF TypeOK
    <3> QED BY <1>i, <2>1, <3>1
  <2> QED BY <2>3, <2>4
<1>6. CASE EpollWait \/ LoopEnd \/ LoopNull \/ LoopRead
  <2>1. Pending(u)' = 0
    BY <1>6 DEF EpollWait, LoopEnd, LoopNull, LoopRead, NextEvent, Pending
  <2>2. UNCHANGED <<served, count, expired>>
    BY <1>6 DEF EpollWait, LoopEnd, LoopNull, LoopRead, kernelVars, histVars
  <2> QED BY <1>0, <1>p, <1>i, <2>1, <2>2
<1>7. CASE ReadDone
  <2>1. Pending(u) = 0 /\ served' = served /\ expired' = expired
    BY <1>7 DEF ReadDone, Pending, histVars
  <2>2. /\ thread' = "serve" /\ ev' = ev /\ i' = i /\ todo' = count[ev[i + 1]]
        /\ count' = [count EXCEPT ![ev[i + 1]] = 0]
    BY <1>7 DEF ReadDone, Take
  <2>3. CASE ev[i + 1] = u
    <3>1. count'[u] = 0 /\ Pending(u)' <= count[u]
      BY <1>0, <2>2, <2>3 DEF Pending, TypeOK
    <3> QED BY <1>0, <1>i, <2>1, <3>1
  <2>4. CASE ev[i + 1] # u
    <3>1. count'[u] = count[u] /\ Pending(u)' = 0
      BY <2>2, <2>4 DEF Pending, TypeOK
    <3> QED BY <1>0, <1>i, <2>1, <3>1
  <2> QED BY <2>3, <2>4
<1>8. CASE Serve
  <2>1. UNCHANGED <<count, expired>>
    BY <1>8 DEF Serve, kernelVars, histVars
  <2>2. CASE ev[i + 1] = u
    <3>1. Pending(u) = todo /\ todo > 0
      BY <1>8, <2>2 DEF Serve, Pending, LoopInv
    <3>2. Pending(u)' <= todo - 1
      BY <1>8, <2>2, <3>1 DEF Serve, Pending, NextEvent, TypeOK
    <3>3. served'[u] <= served[u] + 1 /\ served'[u] \in Nat
      BY <1>0, <1>8, <2>2 DEF Serve, TypeOK
    <3> QED BY <1>0, <1>p, <1>i, <2>1, <3>1, <3>2, <3>3
  <2>3. CASE ev[i + 1] # u
    <3>1. Pending(u)' = 0
      BY <1>8, <2>3 DEF Serve, Pending, NextEvent
    <3>2. served'[u] = served[u]
      BY <1>8, <2>3 DEF Serve, TypeOK
    <3> QED BY <1>0, <1>p, <1>i, <2>1, <3>1, <3>2
  <2> QED BY <2>2, <2>3
<1>9. CASE UNCHANGED vars
  BY <1>1, <1>9 DEF vars, threadVars, histVars, kernelVars
<1>10. CASE AppNext
  BY <1>1, <1>10 DEF AppNext, EpollAdd, ClearCallback, Free, threadVars, histVars, kernelVars
<1>11. ASSUME NEW t \in Timer, \/ xTimerNew(t)
                               \/ iTimerStop(t)
                               \/ \E on, p \in BOOLEAN : iTimerStart(t, on, p)
                               \/ iTimerUnsetCallback(t)
       PROVE  Goal
  BY <1>1, <1>11 DEF xTimerNew, iTimerStop, Stop, iTimerStart, iTimerUnsetCallback, kernelVars
<1> QED
  BY <1>2, <1>3, <1>4, <1>5, <1>6, <1>7, <1>8, <1>9, <1>10, <1>11 DEF Next, pvThread

(* Every step of the application keeps the files, the set of epoll and the *)
(* callbacks in agreement; the thread changes none of them but count.      *)
LEMMA LifeStep == TypeOK /\ LoopInv /\ LifeInv /\ [Next]_vars => LifeInv'
<1> SUFFICES ASSUME TypeOK, LoopInv, LifeInv, [Next]_vars PROVE LifeInv'
  OBVIOUS
<1> USE TimerAssumption DEF TypeOK, Flags, LifeInv, CallInv, Life
<1>1. CASE UNCHANGED <<kernelVars, timerVars, appVars>>
  BY <1>1 DEF kernelVars, timerVars, appVars
<1>2. ASSUME NEW t \in Timer, Expire(t)
      PROVE  LifeInv'
  BY <1>2 DEF Expire, timerVars, appVars
<1>3. ASSUME NEW t \in Timer, xTimerNew(t)
      PROVE  LifeInv'
  BY <1>3 DEF xTimerNew, appVars
<1>4. ASSUME NEW t \in Timer, iTimerStop(t)
      PROVE  LifeInv'
  BY <1>4 DEF iTimerStop, Stop, Idle, appVars
<1>5. ASSUME NEW t \in Timer, NEW on \in BOOLEAN, NEW p \in BOOLEAN, iTimerStart(t, on, p)
      PROVE  LifeInv'
  BY <1>5 DEF iTimerStart, Idle, appVars
<1>6. ASSUME NEW t \in Timer, iTimerSetCallback(t)
      PROVE  LifeInv'
  <2>1. UNCHANGED <<open, armed, count, live, active>> /\ open[t]
    BY <1>6 DEF iTimerSetCallback, Idle
  <2>2. CASE reg[t]
    <3>1. reg' = [reg EXCEPT ![t] = FALSE] /\ UNCHANGED <<callback, appVars>>
      BY <1>6, <2>2 DEF iTimerSetCallback
    <3>2. ASSUME NEW u \in Timer PROVE Life(u)'
      BY <2>1, <3>1 DEF appVars
    <3> QED BY <2>1, <3>1, <3>2 DEF appVars
  <2>3. CASE ~ reg[t]
    <3>1. app = "idle" /\ app' = "add" /\ at' = t
      BY <1>6, <2>3 DEF iTimerSetCallback, Idle
    <3>2. callback' = [callback EXCEPT ![t] = TRUE] /\ reg' = reg
      BY <1>6, <2>3 DEF iTimerSetCallback
    <3>3. callback'[t] /\ \A u \in Timer : callback[u] => callback'[u]
      BY <3>2
    <3>4. ASSUME NEW u \in Timer PROVE Life(u)'
      BY <2>1, <3>1, <3>2, <3>3
    <3> QED BY <2>1, <3>1, <3>3, <3>4
  <2> QED BY <2>2, <2>3
<1>7. ASSUME NEW t \in Timer, iTimerUnsetCallback(t)
      PROVE  LifeInv'
  BY <1>7 DEF iTimerUnsetCallback, Idle, timerVars
<1>8. ASSUME NEW t \in Timer, iTimerDelete(t)
      PROVE  LifeInv'
  BY <1>8 DEF iTimerDelete, Idle, timerVars
<1>9. ASSUME NEW t \in Timer, iTimerWait(t)
      PROVE  LifeInv'
  BY <1>9 DEF iTimerWait, Take, Idle, timerVars, appVars
<1>10. CASE AppNext
  <2>1. CASE EpollAdd
    BY <2>1 DEF EpollAdd, timerVars
  <2>2. CASE ClearCallback
    BY <2>2 DEF ClearCallback, kernelVars
  <2>3. CASE Free
    BY <2>3 DEF Free, kernelVars
  <2> QED BY <1>10, <2>1, <2>2, <2>3 DEF AppNext
<1>11. CASE ReadDone
  <2>1. ev[i + 1] \in Timer
    BY <1>11 DEF ReadDone, LoopInv, EventInBounds
  <2> QED BY <1>11, <2>1 DEF ReadDone, Take, timerVars, appVars
<1> QED
  BY <1>1, <1>2, <1>3, <1>4, <1>5, <1>6, <1>7, <1>8, <1>9, <1>10, <1>11
  DEF Next, pvThread, vars, EpollWait, LoopEnd, LoopNull, LoopRead, Serve

(* The invariant holds in every state that pvThread and the calls of the   *)
(* application reach.                                                      *)
THEOREM Invariance == Spec => []IInv
<1>1. Init => IInv
  BY InitIInv
<1>2. IInv /\ [Next]_vars => IInv'
  BY TypeStep, LoopStep, ServeStep, LifeStep DEF IInv
<1> QED
  BY <1>1, <1>2, PTL DEF Spec

(* The variables of timer.c keep their types: ret, the bound of the loop   *)
(* of pvThread, never exceeds ev.                                          *)
THEOREM TypeCorrect == Spec => []TypeOK
<1>1. IInv => TypeOK
  BY DEF IInv
<1> QED
  BY <1>1, Invariance, PTL

(* pvThread reads no entry past the end of ev and follows no NULL, whatever*)
(* the value that read leaves in ret.                                      *)
THEOREM LoopStaysInside == Spec => []EventInBounds
<1>1. IInv => EventInBounds
  BY DEF IInv, LoopInv
<1> QED
  BY <1>1, Invariance, PTL

(* No expiration is given twice, to the callback or to iTimerWait. *)
THEOREM NoExpirationTwice == Spec => []ServedOnce
<1>1. IInv => ServedOnce
  <2> SUFFICES ASSUME IInv, NEW t \in Timer PROVE served[t] <= expired[t]
    BY DEF ServedOnce
  <2>1. served[t] \in Nat /\ count[t] \in Nat /\ expired[t] \in Nat /\ Pending(t) \in Nat
    BY DEF IInv, TypeOK, Pending
  <2> QED BY <2>1 DEF IInv, ServeInv
<1> QED
  BY <1>1, Invariance, PTL

(* iTimerStop, iTimerStart and iTimerDelete keep is_active true of every   *)
(* timer that is armed or has expired.                                     *)
THEOREM ActiveIsTrue == Spec => []ArmedIsActive
<1>1. IInv => ArmedIsActive
  BY DEF IInv, LifeInv, Life, ArmedIsActive
<1> QED
  BY <1>1, Invariance, PTL

(* What epoll watches is an allocated timer with an open file and a        *)
(* callback.                                                               *)
THEOREM WatchedHasCallback == Spec => []RegisteredHasCallback
<1>1. IInv => RegisteredHasCallback
  BY DEF IInv, LifeInv, Life, RegisteredHasCallback
<1> QED
  BY <1>1, Invariance, PTL

(* Without a lock pvThread stays inside ev, and epoll tells it of no timer *)
(* that is freed, closed or without a callback.                            *)
THEOREM ThreadStaysSafe == Spec => []ThreadSafe
<1>1. EventInBounds /\ RegisteredHasCallback => ThreadSafe
  BY DEF ThreadSafe
<1> QED
  BY <1>1, LoopStaysInside, WatchedHasCallback, PTL
=============================================================================
