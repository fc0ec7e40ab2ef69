------------------------------- MODULE Dinput -------------------------------
(***************************************************************************)
(* The binary input port of src/gpio/dinput.c: a port of Size pins, the    *)
(* polling thread pvDinPoll that debounces the inputs and runs the         *)
(* handlers, and the application thread that owns the port and calls its   *)
(* API (set/clear a handler, group handler, edge selection, close).        *)
(*                                                                         *)
(* Every critical section of the application is a single access to one     *)
(* pin's context, so taking a mutex, doing the access and releasing it is  *)
(* one step, enabled while the other thread does not hold the mutex.  The  *)
(* polling thread keeps write_mutex[p] for as long as the handler of pin p *)
(* runs, hence the two steps PollDispatch and HandlerReturn.               *)
(*                                                                         *)
(* A pass of iDinReadAll is one step.  The heap is the set of the blocks   *)
(* that are allocated: malloc returns any block that is free, so a stale   *)
(* pointer can be told from a live one.                                    *)
(***************************************************************************)
EXTENDS Naturals, FiniteSets

CONSTANTS
  Size,    \* number of pins of the port (xDinPort.size)
  Act,     \* the level at which each pin is active (xDin.act)
  Grp,     \* heap addresses malloc can give to an xDinGrpData
  EdgeChoices, \* the selections of edges the application asks for
  Null,    \* the NULL pointer
  User     \* the application's udata pointer

Pin == 0 .. Size - 1

ASSUME SizeAssumption == Size \in Nat \ {0}
ASSUME ActAssumption == Act \in [Pin -> BOOLEAN]
ASSUME PointerAssumption ==
  /\ Null \notin Grp /\ Null # User
  /\ \A g \in Grp, p \in Pin : <<g, p>> \notin {Null, User}

(* eDinEdge is a bit mask (falling 1, rising 2): a set of edges. *)
Edge  == {"falling", "rising"}
Edges == SUBSET Edge

ASSUME EdgeAssumption == EdgeChoices \subseteq Edges

(* ctx[p].callback: none, a handler of the application, iDinGrpHandler. *)
Handler == {"none", "user", "grp"}

(* ctx[p].udata: NULL, the application's pointer, or the xDinPinData of    *)
(* pin p in the group allocated at address g, written <<g, p>>.            *)
PinData == Grp \X Pin

VARIABLES
  level,     \* electrical level of each pin
  \* ---- fields of xDinPort and of its xDinCbContext array
  run, grouped, prev, edge, callback, udata, edgeOccurred,
  \* ---- heap
  grpLive,   \* addresses of the xDinGrpData that are allocated
  pinLive,   \* the xDinPinData that are allocated
  \* ---- polling thread: program counter and locals; called and arg are the
  \*      handler it is executing and the pointer it passed to it
  poll, values, diff, bit, called, arg,
  \* ---- application thread: program counter, its loop index, the group it
  \*      works on, the edges it installs and what follows a group removal
  app, pin, grp, want, after,
  \* ---- history: the pins whose last edge that was served is a rising one
  served

portVars == <<run, grouped, prev>>
ctxVars  == <<edge, callback, udata>>
heapVars == <<grpLive, pinLive>>
callVars == <<called, arg>>
pollVars == <<poll, values, diff, bit, callVars>>
appVars  == <<app, pin, grp, want, after>>
vars == <<level, portVars, ctxVars, edgeOccurred, heapVars, pollVars, appVars, served>>

PollState == {"off", "read", "debounce", "scan", "dispatch", "handler", "done"}
AppState  == {"closed", "idle", "setEdge", "setGrp", "clear", "free", "freeGrp", "join"}

(* The pins that are active, as iDinReadAll returns them in a mask. *)
Active == {p \in Pin : level[p] = Act[p]}

(* The edge of the bit being served, decoded from the new value. *)
curEdge == IF bit \in values THEN "rising" ELSE "falling"

(* Faulty variant: the mutex excludes nobody. *)
LockedNever(p) == FALSE

(* write_mutex[p] is held by the polling thread while the handler runs. *)
Locked(p) == poll = "handler" /\ bit = p

-----------------------------------------------------------------------------
(* Opening: every field is zeroed, the thread is started. *)

Init ==
  /\ level \in [Pin -> BOOLEAN]
  /\ run = FALSE /\ grouped = FALSE /\ prev = {}
  /\ edge = [p \in Pin |-> {}]
  /\ callback = [p \in Pin |-> "none"]
  /\ udata = [p \in Pin |-> Null]
  /\ edgeOccurred = [p \in Pin |-> {}]
  /\ grpLive = {} /\ pinLive = {}
  /\ poll = "off" /\ values = {} /\ diff = {} /\ bit = 0
  /\ called = "none" /\ arg = Null
  /\ app = "closed" /\ pin = 0 /\ grp = Null /\ want = {} /\ after = "idle"
  /\ served = {}

xDinOpen ==
  /\ app = "closed"
  /\ app' = "idle" /\ poll' = "read"
  /\ run' = TRUE /\ grouped' = FALSE /\ prev' = {}
  /\ edge' = [p \in Pin |-> {}]
  /\ callback' = [p \in Pin |-> "none"]
  /\ udata' = [p \in Pin |-> Null]
  /\ edgeOccurred' = [p \in Pin |-> {}]
  /\ values' = {} /\ diff' = {} /\ bit' = 0 /\ served' = {}
  /\ UNCHANGED callVars
  /\ UNCHANGED <<level, heapVars, pin, grp, want, after>>

(* The electrical level of a pin changes at any time, bounces included. *)
Toggle(p) ==
  /\ level' = [level EXCEPT ![p] = ~ @]
  /\ UNCHANGED <<portVars, ctxVars, edgeOccurred, heapVars, pollVars, appVars, served>>

-----------------------------------------------------------------------------
(* The polling thread pvDinPoll. *)

PollStop ==
  /\ poll = "read" /\ ~ run
  /\ poll' = "done"
  /\ UNCHANGED <<level, portVars, ctxVars, edgeOccurred, heapVars, values, diff, bit, callVars, appVars, served>>

(* Faulty variant: the reading is remembered before it is confirmed. *)
PollReadForgets ==
  /\ poll = "read" /\ run /\ Active # prev
  /\ values' = Active /\ prev' = Active
  /\ poll' = "debounce"
  /\ UNCHANGED <<level, run, grouped, ctxVars, edgeOccurred, heapVars, diff, bit, callVars, appVars, served>>

PollRead ==
  /\ poll = "read" /\ run /\ Active # prev
  /\ values' = Active
  /\ poll' = "debounce"
  /\ UNCHANGED <<level, portVars, ctxVars, edgeOccurred, heapVars, diff, bit, callVars, appVars, served>>

(* The second reading, DINPUT_POLL_DELAY ms later. *)
PollDebounce ==
  /\ poll = "debounce"
  /\ IF Active = values
       THEN /\ poll' = "scan" /\ bit' = 0
            /\ diff' = (values \ prev) \cup (prev \ values)
       ELSE /\ poll' = "read"
            /\ UNCHANGED <<diff, bit>>
  /\ UNCHANGED <<level, portVars, ctxVars, edgeOccurred, heapVars, values, callVars, appVars, served>>

(* Faulty variant: a bit that did not change has no edge. *)
PollSkipForgets ==
  /\ poll = "scan" /\ diff # {} /\ bit \notin diff
  /\ bit' = bit + 1
  /\ edgeOccurred' = [edgeOccurred EXCEPT ![bit] = {}]
  /\ UNCHANGED <<level, portVars, ctxVars, heapVars, poll, values, diff, callVars, appVars, served>>

(* The loop "while (diff)": a bit that did not change is passed over. *)
PollSkip ==
  /\ poll = "scan" /\ diff # {} /\ bit \notin diff
  /\ bit' = bit + 1
  /\ UNCHANGED <<level, portVars, ctxVars, edgeOccurred, heapVars, poll, values, diff,
                 callVars, appVars, served>>

(* A bit that changed: its edge, masked by the selected ones, is recorded  *)
(* under read_mutex.                                                       *)
PollRecord ==
  /\ poll = "scan" /\ bit \in diff
  /\ diff' = diff \ {bit}
  /\ edgeOccurred' = [edgeOccurred EXCEPT ![bit] = {curEdge} \cap edge[bit]]
  /\ served' = IF curEdge = "rising" THEN served \cup {bit} ELSE served \ {bit}
  /\ poll' = "dispatch"
  /\ UNCHANGED <<level, portVars, ctxVars, heapVars, values, bit, callVars, appVars>>

(* Under write_mutex: the handler is called if the edge is selected. *)
PollDispatch ==
  /\ poll = "dispatch"
  /\ IF curEdge \in edge[bit] /\ callback[bit] # "none"
       THEN /\ poll' = "handler" /\ called' = callback[bit] /\ arg' = udata[bit]
            /\ UNCHANGED bit
       ELSE /\ poll' = "scan" /\ bit' = bit + 1
            /\ UNCHANGED callVars
  /\ UNCHANGED <<level, portVars, ctxVars, edgeOccurred, heapVars, values, diff, appVars, served>>

(* Faulty variant: prev_values is not updated. *)
EndScanKeepsPrev ==
  /\ UNCHANGED prev
  /\ poll' = "read" /\ diff' = {} /\ bit' = 0

(* After the loop, prev_values takes the values that were read. *)
EndScan ==
  /\ prev' = values
  /\ poll' = "read" /\ diff' = {} /\ bit' = 0

PollEndScan ==
  /\ poll = "scan" /\ diff = {}
  /\ EndScan
  /\ UNCHANGED <<level, run, grouped, ctxVars, edgeOccurred, heapVars, values, callVars, appVars, served>>

(* The handler returns and write_mutex is released.  A value other than 0  *)
(* stops the thread and leaves the loop, whatever remains in diff.         *)
HandlerReturn(ret) ==
  /\ poll = "handler"
  /\ IF ret = 0
       THEN poll' = "scan" /\ bit' = bit + 1 /\ UNCHANGED <<run, prev, diff>>
       ELSE run' = FALSE /\ EndScan
  /\ called' = "none" /\ arg' = Null
  /\ UNCHANGED <<level, grouped, ctxVars, edgeOccurred, heapVars, values, appVars, served>>

PollNext ==
  \/ PollStop
  \/ PollRead
  \/ PollDebounce
  \/ PollSkip
  \/ PollRecord
  \/ PollDispatch
  \/ PollEndScan
  \/ \E ret \in {0, 1} : HandlerReturn(ret)

-----------------------------------------------------------------------------
(* The API.  "Idle" is the application between two calls. *)

iDinSetCallback(p, e) ==
  /\ app = "idle" /\ ~ grouped /\ ~ Locked(p)
  /\ callback' = [callback EXCEPT ![p] = "user"]
  /\ udata' = [udata EXCEPT ![p] = User]
  /\ edge' = [edge EXCEPT ![p] = e]
  /\ UNCHANGED <<level, portVars, edgeOccurred, heapVars, pollVars, appVars, served>>

iDinClearCallback(p) ==
  /\ app = "idle" /\ ~ grouped /\ ~ Locked(p)
  /\ callback' = [callback EXCEPT ![p] = "none"]
  /\ UNCHANGED <<level, portVars, edge, udata, edgeOccurred, heapVars, pollVars, appVars, served>>

(* Called by the application, or by a handler (from the polling thread). *)
iDinEdgeOccured(p) ==
  /\ app = "idle" \/ poll = "handler"
  /\ edgeOccurred[p] # {}
  /\ edgeOccurred' = [edgeOccurred EXCEPT ![p] = {}]
  /\ UNCHANGED <<level, portVars, ctxVars, heapVars, pollVars, appVars, served>>

(* On a grouped port the call sets the edges of every pin, one at a time;  *)
(* otherwise only those of pin p.                                          *)
iDinSetEdge(p, e) ==
  /\ app = "idle"
  /\ \/ /\ ~ grouped /\ ~ Locked(p)
        /\ edge' = [edge EXCEPT ![p] = e]
        /\ UNCHANGED <<app, pin, want>>
     \/ /\ grouped
        /\ app' = "setEdge" /\ pin' = 0 /\ want' = e
        /\ UNCHANGED edge
  /\ UNCHANGED <<level, portVars, callback, udata, edgeOccurred, heapVars, pollVars, grp, after, served>>

SetEdgeNext ==
  /\ app = "setEdge" /\ ~ Locked(pin)
  /\ edge' = [edge EXCEPT ![pin] = want]
  /\ IF pin + 1 = Size THEN app' = "idle" /\ pin' = 0
                       ELSE app' = app /\ pin' = pin + 1
  /\ UNCHANGED <<level, portVars, callback, udata, edgeOccurred, heapVars, pollVars,
                 grp, want, after, served>>

-----------------------------------------------------------------------------
(* Group handlers. *)

(* iDinClearGrpCallback(port) on a grouped port; then is what the caller   *)
(* does afterwards.  It fails, and changes nothing, on another port.       *)
BeginClear(then) ==
  /\ app' = "clear" /\ pin' = 0 /\ after' = then
  /\ UNCHANGED grp

(* vClearCallback of one pin, then free of its xDinPinData. *)
ClearPin ==
  /\ app = "clear" /\ ~ Locked(pin)
  /\ callback' = [callback EXCEPT ![pin] = "none"]
  /\ grp' = udata[pin][1]
  /\ app' = "free"
  /\ UNCHANGED <<level, portVars, edge, udata, edgeOccurred, heapVars, pollVars,
                 pin, want, after, served>>

FreePin ==
  /\ app = "free"
  /\ pinLive' = pinLive \ {udata[pin]}
  /\ IF pin + 1 = Size THEN app' = "freeGrp" /\ pin' = 0
                       ELSE app' = "clear" /\ pin' = pin + 1
  /\ UNCHANGED <<level, portVars, ctxVars, edgeOccurred, grpLive, pollVars, grp, want, after, served>>

(* The allocation of the xDinGrpData of a new group. *)
NewGroup(live) ==
  \E g \in Grp \ live :
    /\ grpLive' = live \cup {g}
    /\ grp' = g
    /\ app' = "setGrp" /\ pin' = 0

(* Faulty variant: the xDinGrpData is not freed. *)
FreeGrpForgotten ==
  /\ app = "freeGrp" /\ after # "setGrp"
  /\ grouped' = FALSE
  /\ grp' = Null
  /\ app' = after
  /\ after' = "idle"
  /\ UNCHANGED <<level, run, prev, ctxVars, edgeOccurred, heapVars, pollVars, pin, want, served>>

(* free (grp), then the code that called iDinClearGrpCallback goes on. *)
FreeGrp ==
  /\ app = "freeGrp"
  /\ grouped' = FALSE
  /\ IF after = "setGrp"
       THEN NewGroup(grpLive \ {grp})
       ELSE /\ grpLive' = grpLive \ {grp}
            /\ grp' = Null
            /\ app' = after
            /\ UNCHANGED pin
  /\ after' = "idle"
  /\ UNCHANGED <<level, run, prev, ctxVars, edgeOccurred, pinLive, pollVars, want, served>>

iDinClearGrpCallback ==
  /\ app = "idle" /\ grouped
  /\ BeginClear("idle")
  /\ UNCHANGED <<level, portVars, ctxVars, edgeOccurred, heapVars, pollVars, want, served>>

iDinSetGrpCallback(e) ==
  /\ app = "idle"
  /\ want' = e
  /\ IF grouped
       THEN BeginClear("setGrp") /\ UNCHANGED grpLive
       ELSE NewGroup(grpLive) /\ UNCHANGED after
  /\ UNCHANGED <<level, portVars, ctxVars, edgeOccurred, pinLive, pollVars, served>>

(* One turn of the loop over the pins: malloc of the xDinPinData, then     *)
(* vSetCallback.  The port is marked as grouped after the last one.        *)
SetGrpPin ==
  /\ app = "setGrp" /\ ~ Locked(pin)
  /\ pinLive' = pinLive \cup {<<grp, pin>>}
  /\ callback' = [callback EXCEPT ![pin] = "grp"]
  /\ udata' = [udata EXCEPT ![pin] = <<grp, pin>>]
  /\ edge' = [edge EXCEPT ![pin] = want]
  /\ IF pin + 1 = Size THEN app' = "idle" /\ pin' = 0 /\ grouped' = TRUE
                       ELSE app' = app /\ pin' = pin + 1 /\ UNCHANGED grouped
  /\ UNCHANGED <<level, run, prev, edgeOccurred, grpLive, pollVars, grp, want, after, served>>

(* Faulty variant: the thread is not told to stop. *)
iDinCloseNoStop ==
  /\ app = "idle"
  /\ IF grouped
       THEN BeginClear("join")
       ELSE app' = "join" /\ UNCHANGED <<pin, grp, after>>
  /\ UNCHANGED <<level, portVars, ctxVars, edgeOccurred, heapVars, pollVars, want, served>>

(* iDinClose: the thread is told to stop, the group is removed, then the   *)
(* thread is joined and the port is freed.                                 *)
iDinClose ==
  /\ app = "idle"
  /\ run' = FALSE
  /\ IF grouped
       THEN BeginClear("join")
       ELSE app' = "join" /\ UNCHANGED <<pin, grp, after>>
  /\ UNCHANGED <<level, grouped, prev, ctxVars, edgeOccurred, heapVars, pollVars, want, served>>

Join ==
  /\ app = "join" /\ poll = "done"
  /\ app' = "closed" /\ poll' = "off"
  /\ UNCHANGED <<level, portVars, ctxVars, edgeOccurred, heapVars, values, diff, bit,
                 callVars, pin, grp, want, after, served>>

-----------------------------------------------------------------------------
Call ==
  \/ xDinOpen
  \/ \E p \in Pin, e \in EdgeChoices : iDinSetCallback(p, e)
  \/ \E p \in Pin : iDinClearCallback(p)
  \/ \E p \in Pin : iDinEdgeOccured(p)
  \/ \E p \in Pin, e \in EdgeChoices : iDinSetEdge(p, e)
  \/ \E e \in EdgeChoices : iDinSetGrpCallback(e)
  \/ iDinClearGrpCallback
  \/ iDinClose

(* The steps that finish a call of the application that has begun. *)
AppNext ==
  \/ SetEdgeNext
  \/ ClearPin
  \/ FreePin
  \/ FreeGrp
  \/ SetGrpPin
  \/ Join

Next ==
  \/ \E p \in Pin : Toggle(p)
  \/ PollNext
  \/ Call
  \/ AppNext

(* Both threads are scheduled; nothing obliges the application to call.    *)
Spec == Init /\ [][Next]_vars /\ WF_vars(PollNext) /\ WF_vars(AppNext)

-----------------------------------------------------------------------------
TypeOK ==
  /\ level \in [Pin -> BOOLEAN]
  /\ run \in BOOLEAN /\ grouped \in BOOLEAN /\ prev \in SUBSET Pin
  /\ edge \in [Pin -> Edges]
  /\ callback \in [Pin -> Handler]
  /\ udata \in [Pin -> {Null, User} \cup PinData]
  /\ edgeOccurred \in [Pin -> Edges]
  /\ grpLive \in SUBSET Grp /\ pinLive \in SUBSET PinData
  /\ poll \in PollState /\ values \in SUBSET Pin /\ diff \in SUBSET Pin
  /\ bit \in 0 .. Size /\ served \in SUBSET Pin
  /\ called \in Handler /\ arg \in {Null, User} \cup PinData
  /\ app \in AppState /\ pin \in Pin /\ grp \in Grp \cup {Null}
  /\ want \in Edges /\ after \in {"idle", "setGrp", "join"}

(* iDinGrpHandler follows d, then d->grp: both blocks must be allocated    *)
(* for as long as it runs, whatever the application is doing with the      *)
(* group (dinput.c, iDinGrpHandler against iDinClearGrpCallback).          *)
HandlerDataLive ==
  poll = "handler" /\ called = "grp" => arg \in pinLive /\ arg[1] \in grpLive

(* The handler that runs is the one that is installed, with its data: once *)
(* iDinClearCallback or iDinClearGrpCallback has returned, the handler it  *)
(* removed is not running and will not be called.                          *)
NoHandlerAfterClear ==
  poll = "handler" => called = callback[bit] /\ called # "none" /\ arg = udata[bit]

(* The blocks of a group are neither lost nor freed twice: between two     *)
(* calls exactly the blocks of the installed group are allocated.          *)
NoLeak ==
  app \in {"idle", "closed", "join"} =>
    /\ pinLive = IF grouped THEN {udata[p] : p \in Pin} ELSE {}
    /\ grpLive = IF grouped THEN {udata[p][1] : p \in Pin} ELSE {}

(* A grouped port is grouped for all of its pins: one group, one handler   *)
(* and one selection of edges (iDinSetCallback and iDinSetEdge on a        *)
(* grouped port must not break this).                                      *)
GroupUniform ==
  grouped /\ app = "idle" =>
    \A p, q \in Pin : /\ callback[p] = "grp"
                      /\ udata[p][1] = udata[q][1]
                      /\ edge[p] = edge[q]

(* The thread never runs on a freed port: iDinClose frees it after join. *)
PortLive == app = "closed" => poll = "off"

(* The edges served for a pin alternate, rising first, however the level   *)
(* bounces between the readings and whatever the other pins do.            *)
EdgesAlternate ==
  poll = "scan" /\ bit \in diff => (curEdge = "rising" <=> bit \notin served)

(* iDinEdgeOccured misses no activity of a pin with both edges selected:   *)
(* an edge that was recorded is followed by an edge, until a call of       *)
(* iDinEdgeOccured returns it (or the port is opened again).               *)
EdgeKept ==
  [][\A p \in Pin : edgeOccurred[p] # {} /\ edge[p] = Edge /\ edgeOccurred'[p] = {} =>
        iDinEdgeOccured(p) \/ xDinOpen]_vars

(* pDinCallbackData(p): on a grouped port the udata of the group (the      *)
(* application's pointer), otherwise the udata of the pin.                 *)
pDinCallbackData(p) == IF grouped THEN User ELSE udata[p]

(* Between two calls pDinCallbackData returns no pointer to freed memory. *)
CallbackDataNotFreed ==
  app = "idle" => \A p \in Pin : pDinCallbackData(p) \in PinData =>
                                   pDinCallbackData(p) \in pinLive

(* A level that settles while the thread runs is served: from some point   *)
(* on the last edge served for each pin is the one that led to its level.  *)
SettledLevelServed ==
  \A L \in [Pin -> BOOLEAN] :
    <>[](level = L /\ run) => <>[](served = {p \in Pin : L[p] = Act[p]})

(* iDinClose returns, whatever the handlers and the inputs do. *)
CloseReturns == (app = "join" \/ after = "join") ~> app = "closed"

=============================================================================
