------------------------------ MODULE GpioPin ------------------------------
(***************************************************************************)
(* Interrupts of a pin (src/gpio/gpiopin.cpp, class Pin): attachInterrupt, *)
(* whose thread polls the file "value" of sysfs and calls the routine of   *)
(* the user, and waitForInterrupt, against the opening and closing of the  *)
(* pin and the passage from the registers to sysfs and back.               *)
(*                                                                         *)
(* The pin has an interrupt, the Gpio has both layers of access, and calls *)
(* of sysfs succeed.  Modes and pulls are left out.  The routine reads the *)
(* pin; it does not call waitForInterrupt or detachInterrupt.              *)
(***************************************************************************)

CONSTANT Edges \* the edges that the application asks for: {"rising", "both", ...}

VARIABLES
  \* ---- the kernel: level, the file "edge", whether the open file "value"
  \*      has an event that nobody read
  signal, fileEdge, pending,
  \* ---- Pin: _isopen, _useSysFs, _valueFd >= 0, _firstPolling, _edge, _run
  isopen, useSysFs, valueFd, firstPolling, edge, run,
  \* ---- irqThread: its step, and what its descriptor is
  irq, irqFd,
  \* ---- the application: the step of its call
  caller,
  \* ---- history: a notified change of level that nobody has read
  unseen

kernelVars == <<signal, fileEdge, pending>>
pinVars == <<isopen, useSysFs, valueFd, firstPolling, edge, run>>
threadVars == <<irq, irqFd>>
vars == <<kernelVars, pinVars, threadVars, caller, unseen>>

(* Pin::Pin *)
Init ==
  /\ signal = FALSE /\ fileEdge = "none" /\ pending = FALSE
  /\ isopen = FALSE /\ useSysFs = FALSE /\ valueFd = FALSE /\ firstPolling = TRUE
  /\ edge = "unknown" /\ run = FALSE
  /\ irq = "none" /\ irqFd = "none" /\ caller = "idle" /\ unseen = FALSE

Idle == caller = "idle" /\ irq # "crashed"

(* Somebody waits for a change of the level. *)
Watched ==
  \/ irq \notin {"none", "crashed"} /\ run /\ irqFd = "value"
  \/ caller = "wait" /\ valueFd

(* The level changes: the kernel notifies the edges of the file "edge". *)
Change ==
  /\ signal' = ~ signal
  /\ IF valueFd /\ (fileEdge = "both" \/ (fileEdge = "rising" /\ ~ signal))
       THEN pending' = TRUE /\ unseen' = (unseen \/ Watched)
       ELSE UNCHANGED <<pending, unseen>>
  /\ UNCHANGED <<fileEdge, pinVars, threadVars, caller>>

-----------------------------------------------------------------------------
(* Helpers: the values of the next state. *)

(* sysFsEnable (true), then sysFsSetEdge if e is known and sysFsGetEdge if *)
(* not.  A file that has just been opened polls as if it had changed.      *)
EnableSysFs(e) ==
  /\ useSysFs' = TRUE /\ valueFd' = TRUE /\ pending' = (pending \/ ~ valueFd)
  /\ IF e = "unknown" THEN edge' = fileEdge /\ UNCHANGED fileEdge
                      ELSE edge' = e /\ fileEdge' = e

(* setEdge (EdgeNone), forceUseSysFs (true), setEdge (e): without effect   *)
(* on the kernel when the pin is closed.                                   *)
Prepare(e) ==
  IF isopen THEN EnableSysFs(e)
            ELSE useSysFs' = TRUE /\ edge' = e /\ UNCHANGED <<fileEdge, valueFd, pending>>

(* sysFsClose: irqThread keeps its descriptor, which is nobody's or, soon, *)
(* that of another file.                                                   *)
sysFsClose ==
  /\ valueFd' = FALSE /\ pending' = FALSE
  /\ irqFd' = IF irqFd = "value" THEN "closed" ELSE irqFd

-----------------------------------------------------------------------------
(* The application. *)

open ==
  /\ Idle /\ ~ isopen /\ isopen' = TRUE
  /\ IF useSysFs THEN EnableSysFs(edge)
       ELSE UNCHANGED <<useSysFs, valueFd, pending, edge, fileEdge>>
  /\ UNCHANGED <<signal, firstPolling, run, threadVars, caller, unseen>>

(* close, and forceUseSysFs (false), on a pin that uses sysfs: first the   *)
(* file is closed ...                                                      *)
Disable(to) ==
  /\ Idle /\ isopen /\ useSysFs /\ sysFsClose /\ caller' = to
  /\ UNCHANGED <<signal, fileEdge, isopen, useSysFs, firstPolling, edge, run, irq, unseen>>

(* ... then the pin is unexported, which sets the edge to none.            *)
Unexport ==
  /\ caller \in {"close", "disable"} /\ irq # "crashed" /\ caller' = "idle"
  /\ edge' = "none" /\ fileEdge' = "none" /\ useSysFs' = FALSE
  /\ isopen' = (caller = "disable")
  /\ UNCHANGED <<signal, pending, valueFd, firstPolling, run, threadVars, unseen>>

close ==
  \/ Disable("close")
  \/ /\ Idle /\ isopen /\ ~ useSysFs /\ isopen' = FALSE
     /\ UNCHANGED <<kernelVars, useSysFs, valueFd, firstPolling, edge, run, threadVars, caller, unseen>>

forceUseSysFs(enable) ==
  \/ ~ enable /\ Disable("disable")
  \/ /\ Idle /\ ~ (isopen /\ useSysFs /\ ~ enable)
     /\ IF isopen /\ useSysFs # enable THEN EnableSysFs(edge)
          ELSE useSysFs' = enable /\ UNCHANGED <<valueFd, pending, edge, fileEdge>>
     /\ UNCHANGED <<signal, isopen, firstPolling, run, threadVars, caller, unseen>>

setEdge(e) ==
  /\ Idle /\ edge' = e
  /\ fileEdge' = IF isopen /\ useSysFs THEN e ELSE fileEdge
  /\ UNCHANGED <<signal, pending, isopen, useSysFs, valueFd, firstPolling, run, threadVars, caller, unseen>>

(* read: by the registers, or by the file, which forgets its event. *)
read ==
  /\ Idle /\ isopen /\ unseen' = FALSE
  /\ pending' = (pending /\ ~ useSysFs)
  /\ UNCHANGED <<signal, fileEdge, pinVars, threadVars, caller>>

(* attachInterrupt, unless a thread is joinable ... *)
attachInterrupt(e) ==
  /\ Idle /\ irq = "none" /\ Prepare(e) /\ caller' = "attach"
  /\ UNCHANGED <<signal, isopen, firstPolling, run, threadVars, unseen>>

(* ... the event of before is read and the thread begins. *)
ClearPending ==
  /\ caller = "attach" /\ caller' = "start" /\ pending' = FALSE
  /\ UNCHANGED <<signal, fileEdge, pinVars, threadVars, unseen>>

StartThread ==
  /\ caller = "start" /\ caller' = "idle" /\ run' = TRUE /\ irq' = "test"
  /\ irqFd' = IF valueFd THEN "value" ELSE "none"
  /\ unseen' = FALSE
  /\ UNCHANGED <<kernelVars, isopen, useSysFs, valueFd, firstPolling, edge>>

detachInterrupt ==
  /\ Idle /\ irq # "none" /\ run' = FALSE /\ caller' = "join"
  /\ UNCHANGED <<kernelVars, isopen, useSysFs, valueFd, firstPolling, edge, threadVars, unseen>>

Join ==
  /\ caller = "join" /\ irq = "ended" /\ irq' = "none" /\ caller' = "idle"
  /\ UNCHANGED <<kernelVars, pinVars, irqFd, unseen>>

(* waitForInterrupt, by an application that has no routine attached: the   *)
(* first time it prepares the pin and reads the event of before.           *)
waitForInterrupt(e) ==
  /\ Idle /\ isopen /\ irq = "none" /\ unseen' = FALSE
  /\ IF firstPolling
       THEN Prepare(e) /\ caller' = "first"
       ELSE /\ edge' = e /\ caller' = "wait"
            /\ fileEdge' = IF useSysFs THEN e ELSE fileEdge
            /\ UNCHANGED <<pending, useSysFs, valueFd>>
  /\ UNCHANGED <<signal, isopen, firstPolling, run, threadVars>>

FirstPolling ==
  /\ caller = "first" /\ caller' = "wait" /\ firstPolling' = FALSE /\ pending' = FALSE
  /\ UNCHANGED <<signal, fileEdge, isopen, useSysFs, valueFd, edge, run, threadVars, unseen>>

WaitReturns ==
  /\ caller = "wait" /\ pending /\ caller' = "idle"
  /\ UNCHANGED <<kernelVars, pinVars, threadVars, unseen>>

WaitTimeout ==
  /\ caller = "wait" /\ ~ pending /\ caller' = "idle"
  /\ UNCHANGED <<kernelVars, pinVars, threadVars, unseen>>

-----------------------------------------------------------------------------
(* irqThread *)

ThreadStep(from, to) == irq = from /\ irq' = to

WhileRun ==
  /\ ThreadStep("test", IF run THEN "poll" ELSE "ended")
  /\ UNCHANGED <<kernelVars, pinVars, irqFd, caller, unseen>>

(* A descriptor that is closed, or now that of another file, is ready or   *)
(* not; -1 is never.                                                       *)
PollReady ==
  /\ ThreadStep("poll", "isr")
  /\ (irqFd = "value" /\ pending) \/ irqFd = "closed"
  /\ UNCHANGED <<kernelVars, pinVars, irqFd, caller, unseen>>

PollTimeout ==
  /\ ThreadStep("poll", "test") /\ ~ (irqFd = "value" /\ pending)
  /\ UNCHANGED <<kernelVars, pinVars, irqFd, caller, unseen>>

(* The routine reads the pin.  If the file has just been closed, read      *)
(* throws: irqThread ends the program.                                     *)
IsrRead ==
  /\ ThreadStep("isr", IF isopen /\ useSysFs /\ ~ valueFd THEN "crashed" ELSE "return")
  /\ IF isopen THEN pending' = (pending /\ ~ useSysFs) /\ unseen' = FALSE
               ELSE UNCHANGED <<pending, unseen>>
  /\ UNCHANGED <<signal, fileEdge, pinVars, irqFd, caller>>

(* Faulty variant: the event is cleared when the routine has returned. *)
IsrReturnsClears ==
  /\ ThreadStep("return", "test") /\ pending' = FALSE
  /\ UNCHANGED <<signal, fileEdge, pinVars, irqFd, caller, unseen>>

IsrReturns ==
  /\ ThreadStep("return", "test")
  /\ UNCHANGED <<kernelVars, pinVars, irqFd, caller, unseen>>

irqThread == WhileRun \/ PollReady \/ PollTimeout \/ IsrRead \/ IsrReturns

CallNext == Unexport \/ ClearPending \/ StartThread \/ Join \/ FirstPolling \/ WaitReturns

Next ==
  \/ Change \/ irqThread \/ CallNext \/ WaitTimeout
  \/ open \/ close \/ read \/ detachInterrupt
  \/ \E enable \in BOOLEAN : forceUseSysFs(enable)
  \/ \E e \in Edges : setEdge(e) \/ attachInterrupt(e) \/ waitForInterrupt(e)

(* The thread runs and what the application has called goes on. *)
Fairness == WF_vars(irqThread) /\ WF_vars(CallNext)

Spec == Init /\ [][Next]_vars /\ Fairness

-----------------------------------------------------------------------------
(* No change of the level that the kernel notifies goes unseen: while a    *)
(* routine is attached, or waitForInterrupt waits, somebody reads the pin  *)
(* after it, unless the application stops waiting or closes the pin.       *)
ChangeSeen == unseen /\ Watched ~> ~ unseen \/ ~ Watched
=============================================================================
