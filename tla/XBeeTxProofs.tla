---------------------------- MODULE XBeeTxProofs ----------------------------
(***************************************************************************)
(* For any number of threads, of calls and of frame numbers: the blocks    *)
(* allocated are those of the calls in progress (for the functions that    *)
(* free the packet when iXBeeOut fails), whatever write does, and frame    *)
(* numbers are given in turn.  X is XBeeTx in Parts.                       *)
(***************************************************************************)
EXTENDS Parts, TLAPS

(* The functions that are called all free a packet that was not sent.      *)
NoForgetting == "error" \in Events => "ZbSend" \notin DOMAIN Overhead

(* A running call has a function of its own and a block that is allocated; *)
(* no other running call has it.                                           *)
HeapInv ==
  /\ \A t \in Thread : X!Running(t) => fun[t] \in DOMAIN Overhead /\ packet[t] \in packets
  /\ \A b \in packets : \E t \in Thread : X!Running(t) /\ packet[t] = b
  /\ \A t, u \in Thread : X!Running(t) /\ X!Running(u) /\ packet[t] = packet[u] => t = u

(* The mutex is held exactly between the increment and the reading of      *)
(* frame_id; frame_id is the last number given unless the mutex is held.   *)
IdInv ==
  /\ \A t \in Thread : pc[t] = "unlock" <=> lock = t
  /\ issued \in Seq(0 .. Base - 1)
  /\ lock = NoBlock /\ issued # << >> => outId = issued[Len(issued)]
  /\ lock # NoBlock => outId # 0
  /\ lock # NoBlock /\ Base > 2 /\ issued # << >> => outId # issued[Len(issued)]
  /\ X!FrameIdsDiffer

(* Numbers wrap to 1, and the next one is another one.                     *)
LEMMA NextIdFacts ==
  ASSUME X!TxAssumption, NEW i \in 0 .. Base - 1
  PROVE  /\ X!NextId(i) \in 1 .. Base - 1
         /\ Base > 2 => X!NextId(i) # i
<1>1. (i + 1) % Base = IF i + 1 = Base THEN 0 ELSE i + 1
  BY DEF X!TxAssumption
<1> QED
  BY <1>1 DEF X!NextId, X!TxAssumption

(* Every step keeps the types. *)
LEMMA TypeStep ==
  X!TxAssumption /\ X!TypeOK /\ [X!Next]_X!vars => X!TypeOK'
<1> SUFFICES ASSUME X!TxAssumption, X!TypeOK, [X!Next]_X!vars
             PROVE  X!TypeOK'
  OBVIOUS
<1> USE DEF X!TxAssumption, X!TypeOK
<1>1. CASE UNCHANGED X!vars
  BY <1>1 DEF X!vars, X!callVars
<1>2. ASSUME NEW t \in Thread, NEW f \in DOMAIN Overhead, NEW n \in 0 .. MaxLen, X!Call(t, f, n)
     PROVE  X!TypeOK'
  <2>1. n + Overhead[f] \in Nat
    OBVIOUS
  <2>2. packetSize' \in [Thread -> Nat] /\ UNCHANGED <<outId, lock, frameId, iDataWrite, toWrite>>
    BY <1>2, <2>1 DEF X!Call
  <2>3. packets' \in SUBSET Block /\ packet' \in [Thread -> Block \cup {NoBlock}]
    BY <1>2 DEF X!Call
  <2>4. /\ pc' \in [Thread -> {"idle", "lock", "unlock", "out", "sent", "failed"}]
        /\ fun' \in [Thread -> X!Function]
    BY <1>2 DEF X!Call, X!Goto, X!Function
  <2> QED BY <2>2, <2>3, <2>4
<1>3. ASSUME NEW t \in Thread, X!LockId(t)
     PROVE  X!TypeOK'
  <2>1. X!NextId(outId) \in 0 .. Base - 1
    BY NextIdFacts
  <2> QED BY <1>3, <2>1 DEF X!LockId, X!Goto, X!callVars
<1>4. ASSUME NEW t \in Thread, X!UnlockId(t)
     PROVE  X!TypeOK'
  <2>1. packetSize[t] % Base \in 0 .. Base - 1
    OBVIOUS
  <2> QED BY <1>4, <2>1 DEF X!UnlockId, X!Goto, X!callVars
<1>5. ASSUME NEW t \in Thread, NEW m \in 1 .. Base, X!Write(t, m)
     PROVE  X!TypeOK'
  <2>3. toWrite[t] - m \in 0 .. Base - 1
    BY <1>5 DEF X!Write
  <2> QED BY <1>5, <2>3 DEF X!Write, X!Goto, X!callVars
<1>6. ASSUME NEW t \in Thread, X!OutDone(t)
     PROVE  X!TypeOK'
  BY <1>6 DEF X!OutDone, X!Goto, X!callVars
<1>7. ASSUME NEW t \in Thread, X!WriteError(t)
     PROVE  X!TypeOK'
  BY <1>7 DEF X!WriteError, X!Goto, X!callVars
<1> QED
  BY <1>1, <1>2, <1>3, <1>4, <1>5, <1>6, <1>7 DEF X!Next

(* Every step keeps the blocks and the calls in agreement. *)
LEMMA HeapStep ==
  X!TxAssumption /\ NoForgetting /\ X!TypeOK /\ HeapInv /\ [X!Next]_X!vars => HeapInv'
<1> SUFFICES ASSUME X!TxAssumption, NoForgetting, X!TypeOK, HeapInv, [X!Next]_X!vars
             PROVE  HeapInv'
  OBVIOUS
<1> USE DEF X!TxAssumption, NoForgetting, X!TypeOK, HeapInv, X!Running
<1>1. CASE UNCHANGED X!vars
  BY <1>1 DEF X!vars, X!callVars
<1>2. ASSUME NEW t \in Thread, NEW f \in DOMAIN Overhead, NEW n \in 0 .. MaxLen, X!Call(t, f, n)
     PROVE  HeapInv'
  <2>1. PICK b \in Block \ packets : packets' = packets \cup {b} /\ packet' = [packet EXCEPT ![t] = b]
    BY <1>2 DEF X!Call
  <2>2. /\ pc[t] \in {"idle", "sent", "failed"} /\ pc'[t] = "lock"
        /\ fun'[t] = f /\ packet'[t] = b
    BY <1>2, <2>1 DEF X!Call, X!Goto
  <2>3. \A u \in Thread \ {t} : pc'[u] = pc[u] /\ fun'[u] = fun[u] /\ packet'[u] = packet[u]
    BY <1>2, <2>1 DEF X!Call, X!Goto
  <2> QED BY <2>1, <2>2, <2>3
<1>3. ASSUME NEW t \in Thread, X!LockId(t)
     PROVE  HeapInv'
  BY <1>3 DEF X!LockId, X!Goto, X!callVars
<1>4. ASSUME NEW t \in Thread, X!UnlockId(t)
     PROVE  HeapInv'
  BY <1>4 DEF X!UnlockId, X!Goto, X!callVars
<1>5. ASSUME NEW t \in Thread, NEW m \in 1 .. Base, X!Write(t, m)
     PROVE  HeapInv'
  BY <1>5 DEF X!Write, X!Goto, X!callVars
<1>6. ASSUME NEW t \in Thread, X!OutDone(t)
     PROVE  HeapInv'
  BY <1>6 DEF X!OutDone, X!Goto, X!callVars
<1>7. ASSUME NEW t \in Thread, X!WriteError(t)
     PROVE  HeapInv'
  BY <1>7 DEF X!WriteError, X!Goto, X!callVars, X!FreeOnError
<1> QED
  BY <1>1, <1>2, <1>3, <1>4, <1>5, <1>6, <1>7 DEF X!Next

(* Every step keeps the numbers in turn. *)
LEMMA IdStep ==
  X!TxAssumption /\ X!TypeOK /\ IdInv /\ [X!Next]_X!vars => IdInv'
<1> SUFFICES ASSUME X!TxAssumption, X!TypeOK, IdInv, [X!Next]_X!vars
             PROVE  IdInv'
  OBVIOUS
<1> USE DEF X!TxAssumption, X!TypeOK, IdInv
<1>1. CASE UNCHANGED X!vars
  BY <1>1 DEF X!vars, X!callVars, X!FrameIdsDiffer
<1>2. ASSUME NEW t \in Thread, NEW f \in DOMAIN Overhead, NEW n \in 0 .. MaxLen, X!Call(t, f, n)
     PROVE  IdInv'
  BY <1>2 DEF X!Call, X!Goto, X!callVars, X!FrameIdsDiffer
<1>3. ASSUME NEW t \in Thread, X!LockId(t)
     PROVE  IdInv'
  <2>1. X!NextId(outId) \in 1 .. Base - 1 /\ (Base > 2 => X!NextId(outId) # outId)
    BY NextIdFacts
  <2> QED BY <1>3, <2>1 DEF X!LockId, X!Goto, X!callVars, X!FrameIdsDiffer
<1>4. ASSUME NEW t \in Thread, X!UnlockId(t)
     PROVE  IdInv'
  <2>1. lock = t /\ lock # NoBlock
    BY <1>4 DEF X!UnlockId
  <2>2. issued' = Append(issued, outId) /\ outId' = outId /\ lock' = NoBlock
    BY <1>4 DEF X!UnlockId
  <2>3. /\ issued' \in Seq(0 .. Base - 1) /\ issued' # << >>
        /\ Len(issued') = Len(issued) + 1 /\ issued'[Len(issued')] = outId
        /\ \A i \in 1 .. Len(issued) : issued'[i] = issued[i]
    BY <2>2
  <2>4. X!FrameIdsDiffer'
    <3> SUFFICES ASSUME NEW i \in 1 .. Len(issued')
                 PROVE  /\ issued'[i] # 0
                        /\ i > 1 /\ Base > 2 => issued'[i] # issued'[i - 1]
      BY DEF X!FrameIdsDiffer
    <3>1. CASE i <= Len(issued)
      <4>1. i \in 1 .. Len(issued) /\ (i > 1 => i - 1 \in 1 .. Len(issued))
        BY <3>1
      <4>2. issued'[i] = issued[i] /\ (i > 1 => issued'[i - 1] = issued[i - 1])
        BY <2>3, <4>1
      <4> QED BY <4>1, <4>2 DEF X!FrameIdsDiffer
    <3>2. CASE i = Len(issued) + 1
      <4>1. i > 1 => issued # << >> /\ Len(issued) \in 1 .. Len(issued) /\ i - 1 = Len(issued)
        BY <3>2
      <4> QED BY <2>1, <2>3, <3>2, <4>1
    <3> QED BY <2>3, <3>1, <3>2
  <2>5. \A u \in Thread : pc'[u] = "unlock" <=> lock' = u
    BY <1>4, <2>1, <2>2 DEF X!UnlockId, X!Goto
  <2> QED BY <2>2, <2>3, <2>4, <2>5
<1>5. ASSUME NEW t \in Thread, NEW m \in 1 .. Base, X!Write(t, m)
     PROVE  IdInv'
  BY <1>5 DEF X!Write, X!Goto, X!callVars, X!FrameIdsDiffer
<1>6. ASSUME NEW t \in Thread, X!OutDone(t)
     PROVE  IdInv'
  BY <1>6 DEF X!OutDone, X!Goto, X!callVars, X!FrameIdsDiffer
<1>7. ASSUME NEW t \in Thread, X!WriteError(t)
     PROVE  IdInv'
  BY <1>7 DEF X!WriteError, X!Goto, X!callVars, X!FrameIdsDiffer
<1> QED
  BY <1>1, <1>2, <1>3, <1>4, <1>5, <1>6, <1>7 DEF X!Next

(* The state keeps its types. *)
THEOREM TypeCorrect == X!Spec => []X!TypeOK
<1>1. X!Init => X!TypeOK
  BY Assumptions DEF X!Init, X!TypeOK, X!Function, X!TxAssumption
<1>2. X!TypeOK /\ [X!Next]_X!vars => X!TypeOK'
  BY TypeStep, Assumptions
<1> QED
  BY <1>1, <1>2, PTL DEF X!Spec

(* A packet is freed once, by iXBeeOut or by the function that built it,   *)
(* whether write fails, or takes a part and then fails, as long as no call *)
(* of iXBeeZbSend meets an error of write.                                 *)
THEOREM PacketBalance == NoForgetting => (X!Spec => []PacketFreedOnce)
<1> SUFFICES ASSUME NoForgetting
             PROVE  X!Spec => []PacketFreedOnce
  OBVIOUS
<1>1. X!Init => HeapInv
  BY DEF X!Init, HeapInv, X!Running
<1>2. X!TypeOK /\ HeapInv /\ [X!Next]_X!vars => HeapInv'
  BY HeapStep, Assumptions
<1>3. HeapInv => PacketFreedOnce
  BY DEF HeapInv, PacketFreedOnce, X!PacketFreedOnce
<1>4. X!Spec => []X!TypeOK
  BY TypeCorrect
<1> QED
  BY <1>1, <1>2, <1>3, <1>4, PTL DEF X!Spec

(* Frame numbers are not 0 and two that follow each other differ, whatever *)
(* threads ask for them.                                                   *)
THEOREM FrameIdsInTurn == X!Spec => []FrameIdsDiffer
<1>1. X!Init => IdInv
  BY Assumptions DEF X!Init, IdInv, X!FrameIdsDiffer, X!TxAssumption
<1>2. X!TypeOK /\ IdInv /\ [X!Next]_X!vars => IdInv'
  BY IdStep, Assumptions
<1>3. IdInv => FrameIdsDiffer
  BY DEF IdInv, FrameIdsDiffer
<1>4. X!Spec => []X!TypeOK
  BY TypeCorrect
<1> QED
  BY <1>1, <1>2, <1>3, <1>4, PTL DEF X!Spec

=============================================================================
