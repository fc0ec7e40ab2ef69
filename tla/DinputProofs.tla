---------------------------- MODULE DinputProofs ----------------------------
(***************************************************************************)
(* Proofs about Dinput, for every number of pins, activation levels and    *)
(* heap.  The inductive invariant has four parts, stated below: PollInv on *)
(* the polling thread, ServedInv on the edges it has served, GroupInv on   *)
(* the group and its blocks at each point of the calls that build it and   *)
(* take it down, EdgeInv on the edges of a grouped port.  That no activity *)
(* is missed is a property of the steps.                                   *)
(***************************************************************************)
EXTENDS Dinput, TLAPS

Scanning == {"scan", "dispatch", "handler"}

PollInv ==
  /\ poll \in Scanning => \A p \in diff : bit <= p
  /\ poll \in {"dispatch", "handler"} => bit \in Pin /\ bit \notin diff
  /\ poll = "handler" => called = callback[bit] /\ called # "none" /\ arg = udata[bit]
  /\ app = "closed" <=> poll = "off"

(* Of the pins that changed, those that are still in diff have the edge of *)
(* prev_values as their last one, the others already that of values.       *)
ServedInv ==
  /\ poll = "read" => served = prev \/ ~ run
  /\ poll = "debounce" => served = prev
  /\ poll \in Scanning =>
       \A p \in Pin :
         IF p \in diff THEN (p \in served <=> p \in prev) /\ (p \in values <=> p \notin prev)
                       ELSE p \in served <=> p \in values

(* The pins whose xDinPinData is allocated, and those whose handler is     *)
(* iDinGrpHandler, at each point of the application's calls.               *)
Allocated(p) ==
  \/ app = "setGrp" /\ p < pin
  \/ app \in {"clear", "free"} /\ p >= pin
  \/ app \notin {"setGrp", "clear", "free", "freeGrp"} /\ grouped

Installed(p) ==
  \/ app = "setGrp" /\ p < pin
  \/ app = "clear" /\ p >= pin
  \/ app = "free" /\ p > pin
  \/ app \notin {"setGrp", "clear", "free", "freeGrp"} /\ grouped

Group(g) ==
  /\ \A h \in Grp : h \in grpLive <=> h = g
  /\ \A h \in Grp, p \in Pin : <<h, p>> \in pinLive <=> h = g /\ Allocated(p)
  /\ \A p \in Pin : Allocated(p) => udata[p] = <<g, p>>
  /\ app \in {"setGrp", "free", "freeGrp"} => grp = g

GroupInv ==
  /\ app \in {"setGrp", "join", "closed"} => ~ grouped
  /\ app \in {"setEdge", "clear", "free", "freeGrp"} => grouped
  /\ \A p \in Pin : callback[p] = "grp" <=> Installed(p)
  /\ IF grouped \/ app = "setGrp"
       THEN \E g \in Grp : Group(g)
       ELSE grpLive = {} /\ pinLive = {}

EdgeInv ==
  /\ app \in {"setGrp", "setEdge"} => \A p \in Pin : p < pin => edge[p] = want
  /\ grouped /\ app = "idle" => \A p, q \in Pin : edge[p] = edge[q]

IInv == TypeOK /\ PollInv /\ ServedInv /\ GroupInv /\ EdgeInv


-----------------------------------------------------------------------------
(* Pins are the naturals below Size. *)
LEMMA PinFacts ==
  /\ 0 \in Pin /\ 0 \in 0 .. Size
  /\ \A p \in Pin : p \in 0 .. Size /\ p + 1 \in 0 .. Size /\ p \in Nat
  /\ \A p \in Pin : p + 1 # Size => p + 1 \in Pin
BY SizeAssumption DEF Pin

(* "No edge" is a selection, and so is every subset of the edges. *)
LEMMA EdgeFacts ==
  /\ {} \in Edges
  /\ \A e \in EdgeChoices : e \in Edges
  /\ \A e \in Edges, d \in Edge : {d} \cap e \in Edges
BY EdgeAssumption DEF Edges

(* Every step keeps the types. *)
LEMMA TypeStep ==
  TypeOK /\ PollInv /\ GroupInv /\ [Next]_vars => TypeOK'
<1> SUFFICES ASSUME TypeOK, PollInv, GroupInv, [Next]_vars
             PROVE  TypeOK'
  OBVIOUS
<1> USE PinFacts, EdgeFacts DEF TypeOK, PollState, AppState, portVars, ctxVars, heapVars, pollVars, callVars, appVars
<1>1. CASE xDinOpen
  BY <1>1 DEF xDinOpen, Handler
<1>2. CASE \E p \in Pin : Toggle(p)
  BY <1>2 DEF Toggle
<1>3. CASE PollStop
  BY <1>3 DEF PollStop
<1>4. CASE PollRead
  BY <1>4 DEF PollRead, Active
<1>5. CASE PollDebounce
  <2>1. (values \ prev) \cup (prev \ values) \in SUBSET Pin
    OBVIOUS
  <2> QED BY <1>5, <2>1 DEF PollDebounce
<1>6. CASE PollSkip
  <2>1. PICK p \in diff : bit <= p
    BY <1>6 DEF PollSkip, PollInv, Scanning
  <2>2. bit + 1 \in 0 .. Size
    BY <2>1, SizeAssumption DEF Pin
  <2> QED BY <1>6, <2>2 DEF PollSkip
<1>7. CASE PollRecord
  <2>1. bit \in Pin /\ curEdge \in Edge
    BY <1>7 DEF PollRecord, curEdge, Edge
  <2> QED BY <1>7, <2>1 DEF PollRecord
<1>8. CASE PollDispatch
  <2>1. bit \in Pin
    BY <1>8 DEF PollDispatch, PollInv
  <2> QED BY <1>8, <2>1 DEF PollDispatch
<1>9. CASE PollEndScan
  BY <1>9 DEF PollEndScan, EndScan
<1>10. CASE HandlerReturn(0)
  <2>1. bit \in Pin
    BY <1>10 DEF HandlerReturn, PollInv
  <2> QED BY <1>10, <2>1 DEF HandlerReturn, EndScan, Handler
<1>11. CASE HandlerReturn(1)
  <2>1. bit \in Pin
    BY <1>11 DEF HandlerReturn, PollInv
  <2> QED BY <1>11, <2>1 DEF HandlerReturn, EndScan, Handler
<1>12. CASE \E p \in Pin, e \in EdgeChoices : iDinSetCallback(p, e)
  BY <1>12 DEF iDinSetCallback, Handler
<1>13. CASE \E p \in Pin : iDinClearCallback(p)
  BY <1>13 DEF iDinClearCallback, Handler
<1>14. CASE \E p \in Pin : iDinEdgeOccured(p)
  BY <1>14 DEF iDinEdgeOccured
<1>15. CASE \E p \in Pin, e \in EdgeChoices : iDinSetEdge(p, e)
  BY <1>15 DEF iDinSetEdge
<1>16. CASE \E e \in EdgeChoices : iDinSetGrpCallback(e)
  BY <1>16 DEF iDinSetGrpCallback, BeginClear, NewGroup
<1>17. CASE iDinClearGrpCallback
  BY <1>17 DEF iDinClearGrpCallback, BeginClear
<1>18. CASE iDinClose
  BY <1>18 DEF iDinClose, BeginClear
<1>19. CASE SetEdgeNext
  BY <1>19 DEF SetEdgeNext
<1>20. CASE ClearPin
  <2>1. Installed(pin) /\ Allocated(pin) /\ grouped
    BY <1>20 DEF ClearPin, GroupInv, Installed, Allocated
  <2>2. PICK g \in Grp : udata[pin] = <<g, pin>>
    BY <2>1 DEF GroupInv, Group
  <2> QED BY <1>20, <2>2 DEF ClearPin, Handler
<1>21. CASE FreePin
  BY <1>21 DEF FreePin
<1>22. CASE FreeGrp
  BY <1>22 DEF FreeGrp, NewGroup
<1>23. CASE SetGrpPin
  <2>1. grp \in Grp
    BY <1>23 DEF SetGrpPin, GroupInv, Group
  <2>2. <<grp, pin>> \in PinData
    BY <2>1 DEF PinData
  <2>3. /\ udata' = [udata EXCEPT ![pin] = <<grp, pin>>]
        /\ callback' = [callback EXCEPT ![pin] = "grp"]
    BY <1>23 DEF SetGrpPin
  <2>4. udata' \in [Pin -> {Null, User} \cup PinData] /\ callback' \in [Pin -> Handler]
    BY <2>2, <2>3 DEF Handler
  <2>5. edge' \in [Pin -> Edges]
    BY <1>23 DEF SetGrpPin
  <2>6. pinLive' \in SUBSET PinData
    BY <1>23, <2>2 DEF SetGrpPin
  <2>7. app' \in AppState /\ pin' \in Pin /\ grouped' \in BOOLEAN
    BY <1>23 DEF SetGrpPin
  <2> QED BY <1>23, <2>4, <2>5, <2>6, <2>7 DEF SetGrpPin
<1>24. CASE Join
  BY <1>24 DEF Join
<1>25. CASE UNCHANGED vars
  BY <1>25 DEF vars
<1> QED
  BY <1>1, <1>2, <1>3, <1>4, <1>5, <1>6, <1>7, <1>8, <1>9, <1>10, <1>11, <1>12, <1>13,
     <1>14, <1>15, <1>16, <1>17, <1>18, <1>19, <1>20, <1>21, <1>22, <1>23, <1>24, <1>25
  DEF Next, PollNext, Call, AppNext

(* Every step keeps the invariant of the polling thread. *)
LEMMA PollStep ==
  TypeOK /\ PollInv /\ [Next]_vars => PollInv'
<1> SUFFICES ASSUME TypeOK, PollInv, [Next]_vars
             PROVE  PollInv'
  OBVIOUS
<1> USE PinFacts DEF TypeOK, PollInv, Scanning, Locked, portVars, ctxVars, heapVars, pollVars, callVars, appVars
<1>1. CASE xDinOpen
  BY <1>1 DEF xDinOpen
<1>2. CASE \E p \in Pin : Toggle(p)
  BY <1>2 DEF Toggle
<1>3. CASE PollStop
  BY <1>3 DEF PollStop
<1>4. CASE PollRead
  BY <1>4 DEF PollRead
<1>5. CASE PollDebounce
  BY <1>5, PinFacts DEF PollDebounce
<1>6. CASE PollSkip
  BY <1>6, PinFacts DEF PollSkip
<1>7. CASE PollRecord
  BY <1>7 DEF PollRecord
<1>8. CASE PollDispatch
  BY <1>8, PinFacts DEF PollDispatch
<1>9. CASE PollEndScan
  BY <1>9 DEF PollEndScan, EndScan
<1>10. CASE HandlerReturn(0)
  BY <1>10, PinFacts DEF HandlerReturn, EndScan
<1>11. CASE HandlerReturn(1)
  BY <1>11, PinFacts DEF HandlerReturn, EndScan
<1>12. CASE \E p \in Pin, e \in EdgeChoices : iDinSetCallback(p, e)
  BY <1>12 DEF iDinSetCallback
<1>13. CASE \E p \in Pin : iDinClearCallback(p)
  BY <1>13 DEF iDinClearCallback
<1>14. CASE \E p \in Pin : iDinEdgeOccured(p)
  BY <1>14 DEF iDinEdgeOccured
<1>15. CASE \E p \in Pin, e \in EdgeChoices : iDinSetEdge(p, e)
  BY <1>15 DEF iDinSetEdge
<1>16. CASE \E e \in EdgeChoices : iDinSetGrpCallback(e)
  BY <1>16 DEF iDinSetGrpCallback, BeginClear, NewGroup
<1>17. CASE iDinClearGrpCallback
  BY <1>17 DEF iDinClearGrpCallback, BeginClear
<1>18. CASE iDinClose
  BY <1>18 DEF iDinClose, BeginClear
<1>19. CASE SetEdgeNext
  BY <1>19 DEF SetEdgeNext
<1>20. CASE ClearPin
  BY <1>20 DEF ClearPin
<1>21. CASE FreePin
  BY <1>21 DEF FreePin
<1>22. CASE FreeGrp
  BY <1>22 DEF FreeGrp, NewGroup
<1>23. CASE SetGrpPin
  BY <1>23 DEF SetGrpPin
<1>24. CASE Join
  BY <1>24 DEF Join
<1>25. CASE UNCHANGED vars
  BY <1>25 DEF vars
<1> QED
  BY <1>1, <1>2, <1>3, <1>4, <1>5, <1>6, <1>7, <1>8, <1>9, <1>10, <1>11, <1>12, <1>13,
     <1>14, <1>15, <1>16, <1>17, <1>18, <1>19, <1>20, <1>21, <1>22, <1>23, <1>24, <1>25
  DEF Next, PollNext, Call, AppNext

(* Every step keeps the invariant of the edges served. *)
LEMMA ServedStep ==
  TypeOK /\ PollInv /\ ServedInv /\ [Next]_vars => ServedInv'
<1> SUFFICES ASSUME TypeOK, PollInv, ServedInv, [Next]_vars
             PROVE  ServedInv'
  OBVIOUS
<1> USE PinFacts DEF TypeOK, PollInv, ServedInv, Scanning, portVars, ctxVars, heapVars, pollVars, callVars, appVars
<1>1. CASE xDinOpen
  BY <1>1 DEF xDinOpen
<1>2. CASE \E p \in Pin : Toggle(p)
  BY <1>2 DEF Toggle
<1>3. CASE PollStop
  BY <1>3 DEF PollStop
<1>4. CASE PollRead
  BY <1>4 DEF PollRead
<1>5. CASE PollDebounce
  BY <1>5 DEF PollDebounce
<1>6. CASE PollSkip
  BY <1>6 DEF PollSkip
<1>7. CASE PollRecord
  BY <1>7 DEF PollRecord, curEdge
<1>8. CASE PollDispatch
  BY <1>8 DEF PollDispatch
<1>9. CASE PollEndScan
  BY <1>9 DEF PollEndScan, EndScan
<1>10. CASE HandlerReturn(0)
  BY <1>10 DEF HandlerReturn, EndScan
<1>11. CASE HandlerReturn(1)
  BY <1>11 DEF HandlerReturn, EndScan
<1>12. CASE \E p \in Pin, e \in EdgeChoices : iDinSetCallback(p, e)
  BY <1>12 DEF iDinSetCallback
<1>13. CASE \E p \in Pin : iDinClearCallback(p)
  BY <1>13 DEF iDinClearCallback
<1>14. CASE \E p \in Pin : iDinEdgeOccured(p)
  BY <1>14 DEF iDinEdgeOccured
<1>15. CASE \E p \in Pin, e \in EdgeChoices : iDinSetEdge(p, e)
  BY <1>15 DEF iDinSetEdge
<1>16. CASE \E e \in EdgeChoices : iDinSetGrpCallback(e)
  BY <1>16 DEF iDinSetGrpCallback, BeginClear, NewGroup
<1>17. CASE iDinClearGrpCallback
  BY <1>17 DEF iDinClearGrpCallback, BeginClear
<1>18. CASE iDinClose
  BY <1>18 DEF iDinClose, BeginClear
<1>19. CASE SetEdgeNext
  BY <1>19 DEF SetEdgeNext
<1>20. CASE ClearPin
  BY <1>20 DEF ClearPin
<1>21. CASE FreePin
  BY <1>21 DEF FreePin
<1>22. CASE FreeGrp
  BY <1>22 DEF FreeGrp, NewGroup
<1>23. CASE SetGrpPin
  BY <1>23 DEF SetGrpPin
<1>24. CASE Join
  BY <1>24 DEF Join
<1>25. CASE UNCHANGED vars
  BY <1>25 DEF vars
<1> QED
  BY <1>1, <1>2, <1>3, <1>4, <1>5, <1>6, <1>7, <1>8, <1>9, <1>10, <1>11, <1>12, <1>13,
     <1>14, <1>15, <1>16, <1>17, <1>18, <1>19, <1>20, <1>21, <1>22, <1>23, <1>24, <1>25
  DEF Next, PollNext, Call, AppNext

(* Every step keeps the edges of a grouped port equal. *)
LEMMA EdgeStep ==
  TypeOK /\ GroupInv /\ EdgeInv /\ [Next]_vars => EdgeInv'
<1> SUFFICES ASSUME TypeOK, GroupInv, EdgeInv, [Next]_vars
             PROVE  EdgeInv'
  OBVIOUS
<1> USE PinFacts DEF TypeOK, EdgeInv, portVars, ctxVars, heapVars, pollVars, callVars, appVars
<1>1. CASE xDinOpen
  BY <1>1 DEF xDinOpen
<1>2. CASE \E p \in Pin : Toggle(p)
  BY <1>2 DEF Toggle
<1>3. CASE PollStop
  BY <1>3 DEF PollStop
<1>4. CASE PollRead
  BY <1>4 DEF PollRead
<1>5. CASE PollDebounce
  BY <1>5 DEF PollDebounce
<1>6. CASE PollSkip
  BY <1>6 DEF PollSkip
<1>7. CASE PollRecord
  BY <1>7 DEF PollRecord
<1>8. CASE PollDispatch
  BY <1>8 DEF PollDispatch
<1>9. CASE PollEndScan
  BY <1>9 DEF PollEndScan, EndScan
<1>10. CASE HandlerReturn(0)
  BY <1>10 DEF HandlerReturn, EndScan
<1>11. CASE HandlerReturn(1)
  BY <1>11 DEF HandlerReturn, EndScan
<1>12. CASE \E p \in Pin, e \in EdgeChoices : iDinSetCallback(p, e)
  BY <1>12 DEF iDinSetCallback
<1>13. CASE \E p \in Pin : iDinClearCallback(p)
  BY <1>13 DEF iDinClearCallback
<1>14. CASE \E p \in Pin : iDinEdgeOccured(p)
  BY <1>14 DEF iDinEdgeOccured
<1>15. CASE \E p \in Pin, e \in EdgeChoices : iDinSetEdge(p, e)
  BY <1>15 DEF iDinSetEdge
<1>16. CASE \E e \in EdgeChoices : iDinSetGrpCallback(e)
  BY <1>16 DEF iDinSetGrpCallback, BeginClear, NewGroup
<1>17. CASE iDinClearGrpCallback
  BY <1>17 DEF iDinClearGrpCallback, BeginClear
<1>18. CASE iDinClose
  BY <1>18 DEF iDinClose, BeginClear
<1>19. CASE SetEdgeNext
  <2>1. \A p \in Pin : p < pin + 1 => p < pin \/ p = pin
    BY PinFacts
  <2>2. \A p \in Pin : p < pin + 1 => edge'[p] = want
    BY <1>19, <2>1 DEF SetEdgeNext
  <2>3. pin + 1 = Size => \A p \in Pin : p < pin + 1
    BY SizeAssumption DEF Pin
  <2> QED BY <1>19, <2>2, <2>3 DEF SetEdgeNext
<1>20. CASE ClearPin
  BY <1>20 DEF ClearPin
<1>21. CASE FreePin
  BY <1>21 DEF FreePin
<1>22. CASE FreeGrp
  BY <1>22 DEF FreeGrp, NewGroup, GroupInv
<1>23. CASE SetGrpPin
  <2>1. \A p \in Pin : p < pin + 1 => p < pin \/ p = pin
    BY PinFacts
  <2>2. \A p \in Pin : p < pin + 1 => edge'[p] = want
    BY <1>23, <2>1 DEF SetGrpPin
  <2>3. pin + 1 = Size => \A p \in Pin : p < pin + 1
    BY SizeAssumption DEF Pin
  <2> QED BY <1>23, <2>2, <2>3 DEF SetGrpPin
<1>24. CASE Join
  BY <1>24 DEF Join, GroupInv
<1>25. CASE UNCHANGED vars
  BY <1>25 DEF vars
<1> QED
  BY <1>1, <1>2, <1>3, <1>4, <1>5, <1>6, <1>7, <1>8, <1>9, <1>10, <1>11, <1>12, <1>13,
     <1>14, <1>15, <1>16, <1>17, <1>18, <1>19, <1>20, <1>21, <1>22, <1>23, <1>24, <1>25
  DEF Next, PollNext, Call, AppNext

(* Every step keeps the blocks of the group and the pointers to them in agreement. *)
LEMMA GroupStep ==
  TypeOK /\ PollInv /\ GroupInv /\ [Next]_vars => GroupInv'
<1> SUFFICES ASSUME TypeOK, PollInv, GroupInv, [Next]_vars
             PROVE  GroupInv'
  OBVIOUS
<1> USE PinFacts DEF TypeOK, GroupInv, Group, Allocated, Installed, portVars, ctxVars, heapVars, pollVars, callVars, appVars
<1>1. CASE xDinOpen
  BY <1>1 DEF xDinOpen
<1>2. CASE \E p \in Pin : Toggle(p)
  BY <1>2 DEF Toggle
<1>3. CASE PollStop
  BY <1>3 DEF PollStop
<1>4. CASE PollRead
  BY <1>4 DEF PollRead
<1>5. CASE PollDebounce
  BY <1>5 DEF PollDebounce
<1>6. CASE PollSkip
  BY <1>6 DEF PollSkip
<1>7. CASE PollRecord
  BY <1>7 DEF PollRecord
<1>8. CASE PollDispatch
  BY <1>8 DEF PollDispatch
<1>9. CASE PollEndScan
  BY <1>9 DEF PollEndScan, EndScan
<1>10. CASE HandlerReturn(0)
  BY <1>10 DEF HandlerReturn, EndScan
<1>11. CASE HandlerReturn(1)
  BY <1>11 DEF HandlerReturn, EndScan
<1>12. CASE \E p \in Pin, e \in EdgeChoices : iDinSetCallback(p, e)
  BY <1>12 DEF iDinSetCallback
<1>13. CASE \E p \in Pin : iDinClearCallback(p)
  BY <1>13 DEF iDinClearCallback
<1>14. CASE \E p \in Pin : iDinEdgeOccured(p)
  BY <1>14 DEF iDinEdgeOccured
<1>15. CASE \E p \in Pin, e \in EdgeChoices : iDinSetEdge(p, e)
  BY <1>15 DEF iDinSetEdge
<1>16. CASE \E e \in EdgeChoices : iDinSetGrpCallback(e)
  BY <1>16 DEF iDinSetGrpCallback, BeginClear, NewGroup
<1>17. CASE iDinClearGrpCallback
  BY <1>17 DEF iDinClearGrpCallback, BeginClear
<1>18. CASE iDinClose
  BY <1>18 DEF iDinClose, BeginClear
<1>19. CASE SetEdgeNext
  BY <1>19 DEF SetEdgeNext
<1>20. CASE ClearPin
  BY <1>20 DEF ClearPin
<1>21. CASE FreePin
  BY <1>21 DEF FreePin
<1>22. CASE FreeGrp
  <2> SUFFICES ASSUME FreeGrp PROVE GroupInv'
    BY <1>22
  <2>1. PICK g \in Grp : Group(g)
    BY DEF FreeGrp
  <2>2. grpLive \ {grp} = {} /\ pinLive = {} /\ \A p \in Pin : callback[p] # "grp"
    BY <2>1 DEF FreeGrp, PinData
  <2>3. CASE after = "setGrp"
    <3>1. PICK h \in Grp : grpLive' = {h} /\ grp' = h /\ app' = "setGrp" /\ pin' = 0
      BY <2>2, <2>3 DEF FreeGrp, NewGroup
    <3>2. Group(h)'
      BY <2>2, <3>1 DEF FreeGrp
    <3> QED BY <2>2, <2>3, <3>1, <3>2 DEF FreeGrp
  <2>4. CASE after # "setGrp"
    BY <2>2, <2>4 DEF FreeGrp
  <2> QED BY <2>3, <2>4
<1>23. CASE SetGrpPin
  <2> SUFFICES ASSUME SetGrpPin PROVE GroupInv'
    BY <1>23
  <2>1. Group(grp) /\ grp \in Grp /\ ~ grouped
    BY DEF SetGrpPin
  <2>2. \A p \in Pin : p < pin + 1 <=> p < pin \/ p = pin
    BY PinFacts
  <2>3. pin + 1 = Size => \A p \in Pin : p < pin + 1
    BY SizeAssumption DEF Pin
  <2>4. \A p \in Pin : Allocated(p)' <=> p < pin \/ p = pin
    BY <2>1, <2>2, <2>3 DEF SetGrpPin
  <2>5. \A p \in Pin : Installed(p)' <=> p < pin \/ p = pin
    BY <2>1, <2>2, <2>3 DEF SetGrpPin
  <2> HIDE DEF Allocated, Installed
  <2>6. Group(grp)'
    BY <2>1, <2>4 DEF SetGrpPin, Allocated
  <2>7. \A p \in Pin : callback'[p] = "grp" <=> p < pin \/ p = pin
    BY DEF SetGrpPin, Installed
  <2> QED BY <2>1, <2>5, <2>6, <2>7 DEF SetGrpPin
<1>24. CASE Join
  BY <1>24 DEF Join
<1>25. CASE UNCHANGED vars
  BY <1>25 DEF vars
<1> QED
  BY <1>1, <1>2, <1>3, <1>4, <1>5, <1>6, <1>7, <1>8, <1>9, <1>10, <1>11, <1>12, <1>13,
     <1>14, <1>15, <1>16, <1>17, <1>18, <1>19, <1>20, <1>21, <1>22, <1>23, <1>24, <1>25
  DEF Next, PollNext, Call, AppNext

-----------------------------------------------------------------------------
LEMMA InitInv == Init => IInv
<1> SUFFICES ASSUME Init PROVE IInv
  OBVIOUS
<1> USE PinFacts, EdgeFacts DEF Init
<1>1. TypeOK
  BY DEF TypeOK, Handler, PollState, AppState
<1>2. PollInv /\ ServedInv /\ EdgeInv
  BY DEF PollInv, ServedInv, EdgeInv, Scanning
<1>3. GroupInv
  BY DEF GroupInv, Installed
<1> QED BY <1>1, <1>2, <1>3 DEF IInv

(* The invariant is inductive: it holds in every reachable state.          *)
THEOREM Invariance == Spec => []IInv
<1>1. IInv /\ [Next]_vars => IInv'
  BY TypeStep, PollStep, ServedStep, EdgeStep, GroupStep DEF IInv
<1> QED BY InitInv, <1>1, PTL DEF Spec

(* The variables keep their types. *)
THEOREM TypeCorrect == Spec => []TypeOK
<1>1. IInv => TypeOK
  BY DEF IInv
<1> QED BY Invariance, <1>1, PTL

(* iDinGrpHandler never follows a pointer to freed memory, whatever the    *)
(* application does with the group while the handler runs.                 *)
THEOREM HandlerDataSafety == Spec => []HandlerDataLive
<1>1. IInv => HandlerDataLive
  <2> SUFFICES ASSUME IInv, poll = "handler", called = "grp"
               PROVE  arg \in pinLive /\ arg[1] \in grpLive
    BY DEF HandlerDataLive
  <2>1. bit \in Pin /\ Installed(bit) /\ arg = udata[bit]
    BY DEF IInv, PollInv, GroupInv
  <2>2. Allocated(bit) /\ (grouped \/ app = "setGrp")
    BY <2>1, PinFacts DEF Installed, Allocated, IInv, TypeOK, GroupInv
  <2>3. PICK g \in Grp : Group(g)
    BY <2>2 DEF IInv, GroupInv
  <2> QED BY <2>1, <2>2, <2>3 DEF Group
<1> QED BY Invariance, <1>1, PTL

(* A handler that was removed is not running and is never called again;    *)
(* in particular none runs after iDinClearCallback has returned.           *)
THEOREM ClearIsFinal == Spec => []NoHandlerAfterClear
<1>1. IInv => NoHandlerAfterClear
  BY DEF IInv, PollInv, NoHandlerAfterClear
<1> QED BY Invariance, <1>1, PTL

(* The blocks of a group are freed once, and only when it is removed.      *)
THEOREM HeapBalance == Spec => []NoLeak
<1>1. IInv => NoLeak
  <2> SUFFICES ASSUME IInv, app \in {"idle", "closed", "join"}
               PROVE  /\ pinLive = IF grouped THEN {udata[p] : p \in Pin} ELSE {}
                      /\ grpLive = IF grouped THEN {udata[p][1] : p \in Pin} ELSE {}
    BY DEF NoLeak
  <2>1. CASE ~ grouped
    BY <2>1 DEF IInv, GroupInv
  <2>2. CASE grouped
    <3>1. PICK g \in Grp : Group(g)
      BY <2>2 DEF IInv, GroupInv
    <3>2. \A p \in Pin : udata[p] = <<g, p>>
      BY <2>2, <3>1 DEF Group, Allocated
    <3>3. pinLive = {udata[p] : p \in Pin}
      BY SMTT(30), <2>2, <3>1, <3>2 DEF Group, Allocated, IInv, TypeOK, PinData
    <3>4. grpLive = {udata[p][1] : p \in Pin}
      BY <3>1, <3>2, PinFacts DEF Group, IInv, TypeOK
    <3> QED BY <2>2, <3>3, <3>4
  <2> QED BY <2>1, <2>2
<1> QED BY Invariance, <1>1, PTL

(* Between two calls a grouped port has one group, one handler and one     *)
(* selection of edges for all of its pins.                                 *)
THEOREM GroupIsUniform == Spec => []GroupUniform
<1>1. IInv => GroupUniform
  <2> SUFFICES ASSUME IInv, grouped, app = "idle", NEW p \in Pin, NEW q \in Pin
               PROVE  callback[p] = "grp" /\ udata[p][1] = udata[q][1] /\ edge[p] = edge[q]
    BY DEF GroupUniform
  <2>1. PICK g \in Grp : Group(g)
    BY DEF IInv, GroupInv
  <2> QED BY <2>1 DEF Group, Allocated, Installed, IInv, GroupInv, EdgeInv
<1> QED BY Invariance, <1>1, PTL

(* The polling thread never runs on a port that iDinClose has freed. *)
THEOREM PortOutlivesThread == Spec => []PortLive
<1>1. IInv => PortLive
  BY DEF IInv, PollInv, PortLive
<1> QED BY Invariance, <1>1, PTL

(* Whatever the inputs do, the edges served for a pin alternate. *)
THEOREM Alternation == Spec => []EdgesAlternate
<1>1. IInv => EdgesAlternate
  <2> SUFFICES ASSUME IInv, poll = "scan", bit \in diff
               PROVE  curEdge = "rising" <=> bit \notin served
    BY DEF EdgesAlternate
  <2> QED BY DEF IInv, TypeOK, ServedInv, Scanning, curEdge
<1> QED BY Invariance, <1>1, PTL

(* An edge that was recorded is only taken away by the call that returns   *)
(* it: the thread writes another edge over it, since both are selected.    *)
LEMMA RecordStep ==
  TypeOK /\ [Next]_vars =>
    [\A p \in Pin : edgeOccurred[p] # {} /\ edge[p] = Edge /\ edgeOccurred'[p] = {} =>
       iDinEdgeOccured(p) \/ xDinOpen]_vars
<1> SUFFICES ASSUME TypeOK, Next, NEW p \in Pin, edgeOccurred[p] # {}, edge[p] = Edge,
                    edgeOccurred'[p] = {}
             PROVE  iDinEdgeOccured(p) \/ xDinOpen
  OBVIOUS
<1>1. CASE xDinOpen
  BY <1>1
<1>2. CASE PollRecord
  <2>1. edgeOccurred' = [edgeOccurred EXCEPT ![bit] = {curEdge} \cap edge[bit]]
    BY <1>2 DEF PollRecord
  <2>2. curEdge \in Edge
    BY DEF curEdge, Edge
  <2>3. p # bit
    BY <2>1, <2>2 DEF TypeOK
  <2> QED BY <2>1, <2>3 DEF TypeOK
<1>3. CASE \E q \in Pin : iDinEdgeOccured(q)
  <2>1. PICK q \in Pin : iDinEdgeOccured(q)
    BY <1>3
  <2>2. edgeOccurred' = [edgeOccurred EXCEPT ![q] = {}]
    BY <2>1 DEF iDinEdgeOccured
  <2>3. q = p
    BY <2>2 DEF TypeOK
  <2> QED BY <2>1, <2>3
<1>4. ASSUME ~ xDinOpen, ~ PollRecord, ~ \E q \in Pin : iDinEdgeOccured(q)
      PROVE  edgeOccurred' = edgeOccurred
  <2>1. CASE PollNext
    BY <1>4, <2>1 DEF PollNext, PollStop, PollRead, PollDebounce, PollSkip, PollDispatch,
                      PollEndScan, HandlerReturn
  <2>2. CASE Call
    BY <1>4, <2>2 DEF Call, iDinSetCallback, iDinClearCallback, iDinSetEdge, iDinSetGrpCallback,
                      iDinClearGrpCallback, iDinClose
  <2>3. CASE AppNext
    BY <2>3 DEF AppNext, SetEdgeNext, ClearPin, FreePin, FreeGrp, SetGrpPin, Join
  <2>4. CASE \E q \in Pin : Toggle(q)
    BY <2>4 DEF Toggle
  <2> QED BY <2>1, <2>2, <2>3, <2>4 DEF Next
<1> QED BY <1>1, <1>2, <1>3, <1>4

(* With both edges selected, iDinEdgeOccured misses no activity of a pin,  *)
(* whatever the thread and the other calls do in the meantime.             *)
THEOREM ActivityIsKept == Spec => EdgeKept
<1>1. IInv => TypeOK
  BY DEF IInv
<1> QED BY <1>1, Invariance, RecordStep, PTL DEF Spec, EdgeKept
=============================================================================
