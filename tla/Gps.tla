-------------------------------- MODULE Gps --------------------------------
(***************************************************************************)
(* The client of gpsd (src/libgps/gps.c): pvFixLoop, a thread that reads   *)
(* reports into xData, and the application, which shares xData with it     *)
(* without any lock.  xFixMutex and xErrorMutex are locked once and for    *)
(* all by xGpsNew: to unlock one tells the application something, which    *)
(* learns it with a trylock.                                               *)
(*                                                                         *)
(* A report is its number and whether it has a fix.  xData is in parts,    *)
(* which gps_read writes and memcpy reads one after the other.             *)
(***************************************************************************)
EXTENDS Naturals, FiniteSets

CONSTANTS
  MaxReports, \* bound: reports and errors that gps_read returns
  MaxCopies,  \* bound: calls of iGpsRead
  MaxSets     \* bound: calls that install or remove the callback

Part == {"first", "second"}
Event == {"fix", "error"}
Report == [n : 0 .. MaxReports, fix : BOOLEAN]

VARIABLES
  \* ---- xGps
  data, fixCount, fixFree, errorFree, callback,
  \* ---- pvFixLoop, whether it was cancelled; the report it reads, what it
  \*      calls a callback for
  loop, cancelled, report, event,
  \* ---- the application: its step, what iGpsRead copied
  app, copy,
  \* ---- history: the last fix counted, told and learnt, the errors raised
  \*      and learnt, calls made
  counted, told, learnt, raised, learntErrors, copies, sets

xGpsVars == <<data, fixCount, fixFree, errorFree, callback>>
loopVars == <<loop, cancelled, report, event>>
appVars == <<app, copy>>
histVars == <<counted, told, learnt, raised, learntErrors, copies, sets>>
vars == <<xGpsVars, loopVars, appVars, histVars>>

Nothing == [n |-> 0, fix |-> FALSE]

(* xGpsNew *)
Init ==
  /\ data = [p \in Part |-> Nothing] /\ fixCount = 0
  /\ fixFree = FALSE /\ errorFree = FALSE /\ callback = [e \in Event |-> FALSE]
  /\ loop = "wait" /\ cancelled = FALSE /\ report = Nothing /\ event = "fix"
  /\ app = "idle" /\ copy = data
  /\ counted = 0 /\ told = 0 /\ learnt = 0 /\ raised = 0 /\ learntErrors = 0
  /\ copies = 0 /\ sets = 0

-----------------------------------------------------------------------------
(* pvFixLoop *)

LoopStep(from, to) == loop = from /\ loop' = to

(* gps_waiting: nothing in 5 s, the subscription is renewed. *)
Renew ==
  /\ LoopStep("wait", "wait")
  /\ UNCHANGED <<xGpsVars, cancelled, report, event, appVars, histVars>>

Received == report.n + raised

(* Faulty variant: the fix is told before the report is in xData. *)
ReadBeginsTells(f) ==
  /\ LoopStep("wait", "read") /\ Received < MaxReports
  /\ report' = [n |-> report.n + 1, fix |-> f]
  /\ data' = [data EXCEPT !["first"] = report']
  /\ IF f THEN told' = report'.n /\ fixFree' = TRUE ELSE UNCHANGED <<told, fixFree>>
  /\ UNCHANGED <<fixCount, errorFree, callback, cancelled, event, appVars, counted, learnt, raised, learntErrors, copies, sets>>

ReadBegins(f) ==
  /\ LoopStep("wait", "read") /\ Received < MaxReports
  /\ report' = [n |-> report.n + 1, fix |-> f]
  /\ data' = [data EXCEPT !["first"] = report']
  /\ UNCHANGED <<fixCount, fixFree, errorFree, callback, cancelled, event, appVars, histVars>>

(* gps_read ends; status and mode are those of the report. *)
ReadEnds ==
  /\ LoopStep("read", IF report.fix THEN "count" ELSE "wait")
  /\ data' = [data EXCEPT !["second"] = report]
  /\ UNCHANGED <<fixCount, fixFree, errorFree, callback, cancelled, report, event, appVars, histVars>>

(* gps_read returns -1: vRaiseError. *)
RaiseError ==
  /\ LoopStep("wait", "test") /\ Received < MaxReports
  /\ errorFree' = TRUE /\ event' = "error"
  /\ raised' = raised + 1
  /\ UNCHANGED <<data, fixCount, fixFree, callback, cancelled, report, appVars,
                 counted, told, learnt, learntErrors, copies, sets>>

Count ==
  /\ LoopStep("count", "tell")
  /\ fixCount' = fixCount + 1 /\ counted' = report.n
  /\ UNCHANGED <<data, fixFree, errorFree, callback, cancelled, report, event, appVars,
                 told, learnt, raised, learntErrors, copies, sets>>

(* Faulty variant: an application with a callback is not told. *)
TellNoCallback ==
  /\ LoopStep("tell", "test")
  /\ fixFree' = (fixFree \/ ~ callback["fix"]) /\ told' = report.n /\ event' = "fix"
  /\ UNCHANGED <<data, fixCount, errorFree, callback, cancelled, report, appVars,
                 counted, learnt, raised, learntErrors, copies, sets>>

(* pthread_mutex_unlock (&gps->xFixMutex), which may be unlocked already. *)
Tell ==
  /\ LoopStep("tell", "test")
  /\ fixFree' = TRUE /\ told' = report.n /\ event' = "fix"
  /\ UNCHANGED <<data, fixCount, errorFree, callback, cancelled, report, appVars,
                 counted, learnt, raised, learntErrors, copies, sets>>

(* if (gps->vFixCallback) or if (gps->vErrorCallback) ... *)
TestCallback ==
  /\ LoopStep("test", IF callback[event] THEN "call" ELSE "wait")
  /\ UNCHANGED <<xGpsVars, cancelled, report, event, appVars, histVars>>

(* ... then the call: the pointer is read again, or not, as the compiler    *)
(* likes; NULL ends the program.                                           *)
Call ==
  /\ \/ LoopStep("call", "callback")
     \/ LoopStep("call", "crashed") /\ ~ callback[event]
  /\ UNCHANGED <<xGpsVars, cancelled, report, event, appVars, histVars>>

CallbackReturns ==
  /\ LoopStep("callback", "wait")
  /\ UNCHANGED <<xGpsVars, cancelled, report, event, appVars, histVars>>

(* A cancelled thread ends when it waits in gps_waiting or gps_read. *)
Cancelled ==
  /\ cancelled /\ loop \in {"wait", "read"} /\ loop' = "ended"
  /\ UNCHANGED <<xGpsVars, cancelled, report, event, appVars, histVars>>

pvFixLoop ==
  \/ Renew \/ (\E f \in BOOLEAN : ReadBegins(f)) \/ ReadEnds \/ RaiseError
  \/ Count \/ Tell \/ TestCallback \/ Call \/ CallbackReturns \/ Cancelled

-----------------------------------------------------------------------------
(* The application. *)

Idle == app = "idle" /\ loop # "crashed"

bGpsDataAvailable ==
  /\ Idle
  /\ IF fixFree THEN learnt' = told /\ fixFree' = FALSE ELSE UNCHANGED <<learnt, fixFree>>
  /\ UNCHANGED <<data, fixCount, errorFree, callback, loopVars, appVars,
                 counted, told, raised, learntErrors, copies, sets>>

iGpsError ==
  /\ Idle
  /\ IF errorFree THEN learntErrors' = raised /\ errorFree' = FALSE
                  ELSE UNCHANGED <<learntErrors, errorFree>>
  /\ UNCHANGED <<data, fixCount, fixFree, callback, loopVars, appVars,
                 counted, told, learnt, raised, copies, sets>>

(* iGpsRead: memcpy, and so do the accessors, which test xData->set and    *)
(* then read a field.                                                      *)
iGpsRead ==
  /\ Idle /\ copies < MaxCopies
  /\ copy' = [copy EXCEPT !["first"] = data["first"]]
  /\ app' = "copy" /\ copies' = copies + 1
  /\ UNCHANGED <<xGpsVars, loopVars, counted, told, learnt, raised, learntErrors, sets>>

iGpsReadEnds ==
  /\ app = "copy" /\ loop # "crashed"
  /\ copy' = [copy EXCEPT !["second"] = data["second"]]
  /\ app' = "copied"
  /\ UNCHANGED <<xGpsVars, loopVars, histVars>>

(* The application has used the copy. *)
Used ==
  /\ app = "copied" /\ app' = "idle"
  /\ UNCHANGED <<xGpsVars, loopVars, copy, histVars>>

(* iGpsSetFixCallback, vGpsClearFixCallback and those of errors *)
SetCallback(e, installed) ==
  /\ Idle /\ sets < MaxSets /\ sets' = sets + 1
  /\ callback' = [callback EXCEPT ![e] = installed]
  /\ UNCHANGED <<data, fixCount, fixFree, errorFree, loopVars, appVars,
                 counted, told, learnt, raised, learntErrors, copies>>

(* Faulty variant: the thread is not cancelled. *)
vGpsDeleteNoCancel ==
  /\ Idle /\ app' = "join"
  /\ UNCHANGED <<xGpsVars, loopVars, copy, histVars>>

vGpsDelete ==
  /\ Idle /\ app' = "join"
  /\ cancelled' = TRUE
  /\ UNCHANGED <<xGpsVars, loop, report, event, copy, histVars>>

Join ==
  /\ app = "join" /\ loop = "ended" /\ app' = "deleted"
  /\ UNCHANGED <<xGpsVars, loopVars, copy, histVars>>

Poll == bGpsDataAvailable \/ iGpsError

Application ==
  \/ Poll \/ iGpsRead \/ iGpsReadEnds \/ Used
  \/ \E e \in Event, b \in BOOLEAN : SetCallback(e, b)
  \/ vGpsDelete \/ Join

Next == pvFixLoop \/ Application

(* The thread runs.  gps_waiting and gps_read return and a thread that was *)
(* cancelled ends in one of them.  The application ends what it begins,    *)
(* and calls bGpsDataAvailable and iGpsError again and again.              *)
Fairness ==
  /\ WF_vars(ReadEnds) /\ WF_vars(Count) /\ WF_vars(Tell) /\ WF_vars(TestCallback)
  /\ WF_vars(Call) /\ WF_vars(CallbackReturns) /\ SF_vars(Cancelled)
  /\ WF_vars(iGpsReadEnds) /\ WF_vars(Used) /\ WF_vars(Join)
  /\ SF_vars(bGpsDataAvailable) /\ SF_vars(iGpsError)

Spec == Init /\ [][Next]_vars /\ Fairness

-----------------------------------------------------------------------------
(* What iGpsRead copies after bGpsDataAvailable returned true may be a mix *)
(* of two reports, but no part of it is older than the fix it was told of. *)
FreshCopy == app = "copied" => \A p \in Part : copy[p].n >= learnt

(* A fix that was counted and an error that was raised are learnt by an    *)
(* application that polls, whatever comes in between, unless it deletes    *)
(* the object or removes its callback while it is called.                  *)
Over == app \in {"join", "deleted"} \/ loop = "crashed"
EventsLearnt ==
  /\ \A n \in 1 .. MaxReports : counted = n ~> learnt >= n \/ Over
  /\ \A n \in 1 .. MaxReports : raised = n ~> learntErrors >= n \/ Over

(* vGpsDelete returns, wherever the thread is. *)
DeleteReturns == app = "join" ~> app = "deleted" \/ loop = "crashed"
=============================================================================
