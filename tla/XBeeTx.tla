------------------------------- MODULE XBeeTx -------------------------------
(***************************************************************************)
(* Transmission to the XBee modem (src/xbee.c, src/xbee1.c, src/xbee2.c):  *)
(* threads that call iXBeeSendAt, iXBeeSendRemoteAt, iXBeeSend64,          *)
(* iXBeeSend16 and iXBeeZbSend at the same time.  The five functions       *)
(* allocate a packet, number it, fill it and give it to iXBeeOut; they     *)
(* differ in the bytes they add to the data and in what they do when       *)
(* iXBeeOut fails.  Byte i of a packet is the number i.                    *)
(***************************************************************************)
EXTENDS Naturals, Sequences

CONSTANTS
  Base,        \* number of values of a byte
  Thread,
  Block, None, \* addresses malloc returns; no block
  Overhead,    \* function -> bytes of its packet that are not data
  Unit,        \* sizeof (xXBeePkt)
  MaxLen,      \* bound: data of a call
  Events,      \* subset of {"short", "error"}: what write may do
  MaxCalls     \* bound: calls made

Function == {"At", "RemoteAt", "Send64", "Send16", "ZbSend"}

TxAssumption ==
  /\ Base \in Nat \ {0, 1} /\ Unit \in Nat \ {0} /\ MaxLen \in Nat /\ MaxCalls \in Nat
  /\ DOMAIN Overhead \subseteq Function
  /\ \A f \in DOMAIN Overhead : Overhead[f] \in Nat
  /\ Events \subseteq {"short", "error"}
  /\ None \notin Block /\ None \notin Thread

VARIABLES
  outId,   \* xbee->out.frame_id
  lock,    \* holder of xbee->mutex
  issued,  \* history: frame numbers given, in order
  live,    \* blocks that are allocated
  ncalls,
  pc, fun, block, size, frameId, \* locals of each call
  pos,     \* iXBeeOut: iDataWrite
  left,    \* iXBeeOut: len
  wire     \* history: indexes of the bytes written for each call

callVars == <<fun, block, size>>
vars == <<outId, lock, issued, live, ncalls, pc, callVars, frameId, pos, left, wire>>

Init ==
  /\ outId = 0 /\ lock = None /\ issued = << >> /\ live = {} /\ ncalls = 0
  /\ pc = [t \in Thread |-> "idle"] /\ fun = [t \in Thread |-> "At"]
  /\ block = [t \in Thread |-> None] /\ size = [t \in Thread |-> 0]
  /\ frameId = [t \in Thread |-> 0]
  /\ pos = [t \in Thread |-> 0] /\ left = [t \in Thread |-> 0]
  /\ wire = [t \in Thread |-> << >>]

Goto(t, l) == pc' = [pc EXCEPT ![t] = l]

(* A send function with n bytes of data; no block: -ENOMEM. *)
Call(t, f, n) ==
  /\ pc[t] \in {"idle", "sent", "failed"} /\ ncalls < MaxCalls
  /\ \E b \in Block \ live :
       live' = live \cup {b} /\ block' = [block EXCEPT ![t] = b]
  /\ fun' = [fun EXCEPT ![t] = f]
  /\ size' = [size EXCEPT ![t] = n + Overhead[f]]
  /\ wire' = [wire EXCEPT ![t] = << >>]
  /\ ncalls' = ncalls + 1
  /\ Goto(t, "lock")
  /\ UNCHANGED <<outId, lock, issued, frameId, pos, left>>

(* ucXBeeNextFrameId: numbers go round, without 0. *)
NextId(i) == IF (i + 1) % Base = 0 THEN 1 ELSE (i + 1) % Base

(* Faulty variant: the mutex is not taken. *)
LockIdNoLock(t) ==
  /\ pc[t] = "lock"
  /\ outId' = NextId(outId)
  /\ Goto(t, "unlock")
  /\ UNCHANGED <<lock, issued, live, ncalls, callVars, frameId, pos, left, wire>>

LockId(t) ==
  /\ pc[t] = "lock" /\ lock = None
  /\ lock' = t
  /\ outId' = NextId(outId)
  /\ Goto(t, "unlock")
  /\ UNCHANGED <<issued, live, ncalls, callVars, frameId, pos, left, wire>>

(* The number is read before the mutex is released; the packet is filled   *)
(* and given to iXBeeOut, whose len has 8 bits.                            *)
UnlockId(t) ==
  /\ pc[t] = "unlock"
  /\ frameId' = [frameId EXCEPT ![t] = outId] /\ issued' = Append(issued, outId)
  /\ lock' = None
  /\ pos' = [pos EXCEPT ![t] = 0] /\ left' = [left EXCEPT ![t] = size[t] % Base]
  /\ Goto(t, "out")
  /\ UNCHANGED <<outId, live, ncalls, callVars, wire>>

(* write takes m bytes from &pkt[iDataWrite]: the index counts packets of  *)
(* Unit bytes, and is the number of bytes of the last write only.          *)
Write(t, m) ==
  /\ pc[t] = "out" /\ m \in 1 .. left[t]
  /\ m < left[t] => "short" \in Events
  /\ wire' = [wire EXCEPT ![t] = @ \o [i \in 1 .. m |-> Unit * pos[t] + i]]
  /\ pos' = [pos EXCEPT ![t] = m] /\ left' = [left EXCEPT ![t] = @ - m]
  /\ UNCHANGED <<outId, lock, issued, live, ncalls, pc, callVars, frameId>>

(* All is written: iXBeeOut frees the packet, the number is returned. *)
OutDone(t) ==
  /\ pc[t] = "out" /\ left[t] = 0
  /\ live' = live \ {block[t]}
  /\ Goto(t, "sent")
  /\ UNCHANGED <<outId, lock, issued, ncalls, callVars, frameId, pos, left, wire>>

(* Faulty variant: iXBeeSend16 forgets the packet too. *)
FreeOnErrorNotSend16(f) == f \notin {"ZbSend", "Send16"}

(* write fails: the caller frees the packet, but for iXBeeZbSend. *)
FreeOnError(f) == f # "ZbSend"

WriteError(t) ==
  /\ pc[t] = "out" /\ left[t] > 0 /\ "error" \in Events
  /\ live' = IF FreeOnError(fun[t]) THEN live \ {block[t]} ELSE live
  /\ Goto(t, "failed")
  /\ UNCHANGED <<outId, lock, issued, ncalls, callVars, frameId, pos, left, wire>>

Next == \E t \in Thread :
  \/ \E f \in DOMAIN Overhead, n \in 0 .. MaxLen : Call(t, f, n)
  \/ LockId(t) \/ UnlockId(t)
  \/ \E m \in 1 .. Base : Write(t, m)
  \/ OutDone(t) \/ WriteError(t)

Spec == Init /\ [][Next]_vars

-----------------------------------------------------------------------------
Running(t) == pc[t] \in {"lock", "unlock", "out"}

TypeOK ==
  /\ outId \in 0 .. Base - 1 /\ lock \in Thread \cup {None} /\ live \in SUBSET Block
  /\ pc \in [Thread -> {"idle", "lock", "unlock", "out", "sent", "failed"}]
  /\ fun \in [Thread -> Function] /\ block \in [Thread -> Block \cup {None}]
  /\ frameId \in [Thread -> 0 .. Base - 1]
  /\ size \in [Thread -> Nat] /\ pos \in [Thread -> Nat] /\ left \in [Thread -> 0 .. Base - 1]

(* What iXBeeOut says of itself: a call whose number is returned has put   *)
(* the bytes of its packet on the line, each once and in order.            *)
SentWhole ==
  \A t \in Thread : pc[t] = "sent" => wire[t] = [i \in 1 .. size[t] |-> i]

(* ucXBeeNextFrameId gives numbers other than 0, and never twice the same  *)
(* one in a row, whatever threads ask for them.                            *)
FrameIdsDiffer ==
  \A i \in 1 .. Len(issued) :
    /\ issued[i] # 0
    /\ i > 1 /\ Base > 2 => issued[i] # issued[i - 1]

(* The blocks allocated are those of the calls in progress, one for each:  *)
(* a packet is freed once, by iXBeeOut or by its caller.                   *)
PacketFreedOnce ==
  /\ live = {block[t] : t \in {u \in Thread : Running(u)}}
  /\ \A t, u \in Thread : Running(t) /\ Running(u) /\ block[t] = block[u] => t = u

=============================================================================
