------------------------------- MODULE XBeeRx -------------------------------
(***************************************************************************)
(* Reception of the XBee modem (src/xbee.c): iXBeePoll reads a chunk of    *)
(* the serial line and vXBeeIn builds packets out of it, whatever way the  *)
(* packets are cut into chunks, and hands each to a handler.               *)
(*                                                                         *)
(* A byte is a number below Base (256 in the code), so that the two bytes  *)
(* of the length, the 8 bit counters and the check sum are those of the    *)
(* code on a smaller byte.  One step is one byte taken from the chunk.     *)
(***************************************************************************)
EXTENDS Naturals, Sequences, SequencesExt

CONSTANTS
  Base,       \* number of values of a byte
  Start,      \* XBEE_PKT_START
  MaxData,    \* XBEE_MAX_DATA_LEN
  Addr, Null, \* addresses malloc returns, NULL
  Payload,    \* what the modem may send: a packet type, then its data
  Handled,    \* the types that the series knows and that have a handler
  FaultSets,  \* what may go wrong: sets of FaultKind
  MaxSent,    \* bound: packets put on the line, for each of FaultSets
  MaxChunk    \* bound: bytes read by one iXBeePoll

Byte == 0 .. Base - 1

(* "noise": bytes between packets; "crc": a wrong check sum; "length": a   *)
(* wrong length; "nomem": malloc fails; "refused": a handler returns -1.   *)
FaultKind == {"noise", "crc", "length", "nomem", "refused"}

ASSUME ByteAssumption ==
  /\ Base \in Nat /\ MaxData \in Nat \ {0} /\ MaxData + 4 < Base
  /\ Start \in Byte
ASSUME NullAssumption == Null \notin Addr
ASSUME EnvAssumption ==
  /\ FaultSets \subseteq SUBSET FaultKind
  /\ Payload \subseteq Seq(Byte) /\ \A p \in Payload : Len(p) \in 1 .. MaxData
  /\ MaxSent \in [FaultSets -> Nat] /\ MaxChunk \in Nat

VARIABLES
  line,      \* bytes sent by the modem, not read yet
  sent, got, \* history: payloads sent, payloads given to a handler
  nsent,     \* number of packets put on the line, good or bad
  faults,    \* what may go wrong
  \* ---- xXBee.in
  rcvd, left, packet, hdr,
  \* ---- heap: allocated blocks, size of the blocks, what the packet under
  \*      construction holds after its header; history: the blocks of the
  \*      packets whose check failed
  live, cap, body, bad,
  \* ---- vXBeeIn: its argument buf, the index of data in it, its variable len
  pc, chunk, pos, len

inVars == <<rcvd, left, packet, hdr>>
heapVars == <<live, cap, body, bad>>
vars == <<line, sent, got, nsent, faults, inVars, heapVars, pc, chunk, pos, len>>

(* ucXBeeCrc: the complement of the sum of the bytes after the header. *)
ucXBeeCrc(p) == (Base - 1) - (FoldSeq(+, 0, p) % Base)

Header(n) == <<Start, n \div Base, n % Base>>
Packet(p, crc) == Header(Len(p)) \o p \o <<crc>>

(* ntohs (hdr->len) *)
Length == hdr[1] * Base + hdr[2]

Init ==
  /\ line = << >> /\ sent = << >> /\ got = << >> /\ nsent = 0 /\ faults \in FaultSets
  /\ rcvd = 0 /\ left = 0 /\ packet = Null /\ hdr = <<0, 0>>
  /\ live = {} /\ cap = [a \in Addr |-> 0] /\ body = << >> /\ bad = {}
  /\ pc = "idle" /\ chunk = << >> /\ pos = 1 /\ len = 0

-----------------------------------------------------------------------------
(* The modem and the line. *)

Put(bytes) ==
  /\ nsent < MaxSent[faults] /\ nsent' = nsent + 1
  /\ line' = line \o bytes
  /\ UNCHANGED <<got, faults, inVars, heapVars, pc, chunk, pos, len>>

SendPacket(p) ==
  /\ Put(Packet(p, ucXBeeCrc(p)))
  /\ sent' = IF p[1] \in Handled THEN Append(sent, p) ELSE sent

Corrupt ==
  /\ \/ "noise" \in faults /\ \E b \in {0, Base - 1} \ {Start} : Put(<<b>>)
     \/ "crc" \in faults /\ \E p \in Payload : \E c \in {(ucXBeeCrc(p) + 1) % Base} \ {ucXBeeCrc(p)} :
                            Put(Packet(p, c))
     \/ "length" \in faults /\ \E n \in {MaxData + 1, Base + 1} : Put(Header(n))
  /\ UNCHANGED sent

-----------------------------------------------------------------------------
(* iXBeePoll: what read returns is given to vXBeeIn. *)
iXBeePoll(n) ==
  /\ pc = "idle" /\ n <= Len(line)
  /\ chunk' = SubSeq(line, 1, n) /\ line' = SubSeq(line, n + 1, Len(line))
  /\ pc' = "in" /\ pos' = 1 /\ len' = n
  /\ UNCHANGED <<sent, got, nsent, faults, inVars, heapVars>>

(* *data++: past the end of buf, any value. *)
Data == {b \in Byte : pos <= Len(chunk) => b = chunk[pos]}

(* --len; vXBeeIn returns when nothing is left. *)
Consume ==
  /\ pos' = pos + 1 /\ len' = len - 1
  /\ pc' = IF len = 1 THEN "idle" ELSE "in"

(* case 0: everything up to a start byte is skipped. *)
InStart ==
  /\ pc = "in" /\ rcvd = 0
  /\ \E b \in Data : rcvd' = IF b = Start THEN 1 ELSE 0
  /\ Consume
  /\ UNCHANGED <<line, sent, got, nsent, faults, left, packet, hdr, heapVars, chunk>>

(* case 1 *)
InLengthHigh ==
  /\ pc = "in" /\ rcvd = 1
  /\ \E b \in Data : hdr' = <<b, hdr[2]>>
  /\ rcvd' = 2
  /\ Consume
  /\ UNCHANGED <<line, sent, got, nsent, faults, left, packet, heapVars, chunk>>

(* Faulty variant: no room for the check sum in the block. *)
InLengthLowNoCrc ==
  /\ pc = "in" /\ rcvd = 2
  /\ \E b \in Data, a \in Addr \ live :
       /\ b <= MaxData
       /\ hdr' = <<hdr[1], b>> /\ left' = b + 1
       /\ packet' = a /\ live' = live \cup {a} /\ cap' = [cap EXCEPT ![a] = b + 3]
  /\ rcvd' = 3 /\ body' = << >>
  /\ Consume
  /\ UNCHANGED <<line, sent, got, nsent, faults, bad, chunk>>

(* case 2: bytes_left takes the low 8 bits of the length; a block is       *)
(* allocated for the header, the data and the check sum.                   *)
InLengthLow ==
  /\ pc = "in" /\ rcvd = 2
  /\ \E b \in Data, a \in Addr \ live :
       /\ b <= MaxData
       /\ hdr' = <<hdr[1], b>> /\ left' = b + 1
       /\ packet' = a /\ live' = live \cup {a} /\ cap' = [cap EXCEPT ![a] = b + 4]
  /\ rcvd' = 3 /\ body' = << >>
  /\ Consume
  /\ UNCHANGED <<line, sent, got, nsent, faults, bad, chunk>>

(* case 2, no packet: a length that is too large or no memory.  "continue" *)
(* is reached with the byte taken, bytes_rcvd = 3 and len not decremented. *)
InLengthRejected ==
  /\ pc = "in" /\ rcvd = 2
  /\ \E b \in Data :
       /\ hdr' = <<hdr[1], b>>
       /\ \/ b > MaxData /\ UNCHANGED packet
          \/ b <= MaxData /\ "nomem" \in faults /\ packet' = Null
  /\ rcvd' = 3 /\ left' = 0
  /\ pos' = pos + 1
  /\ UNCHANGED <<line, sent, got, nsent, faults, heapVars, pc, chunk, len>>

(* default: one byte is stored; the last one leads to the check, and the   *)
(* test that ends the loop wraps bytes_left.                               *)
InBody ==
  /\ pc = "in" /\ rcvd >= 3 /\ left > 0
  /\ \E b \in Data : body' = Append(body, b)
  /\ rcvd' = (rcvd + 1) % Base
  /\ left' = IF left = 1 THEN Base - 1 ELSE left - 1
  /\ pos' = pos + 1 /\ len' = len - 1
  /\ pc' = IF left = 1 THEN "check" ELSE IF len = 1 THEN "idle" ELSE "in"
  /\ UNCHANGED <<line, sent, got, nsent, faults, packet, hdr, live, cap, bad, chunk>>

(* default with bytes_left = 0: the loop ends at once and wraps it. *)
InNoBody ==
  /\ pc = "in" /\ rcvd >= 3 /\ left = 0
  /\ left' = Base - 1
  /\ pc' = "check"
  /\ UNCHANGED <<line, sent, got, nsent, faults, rcvd, packet, hdr, heapVars, chunk, pos, len>>

(* The memory that ucXBeeCrc and the comparison read is that of the packet *)
(* that was just received; otherwise the outcome may be any.               *)
Sound == packet \in live /\ Length + 4 <= cap[packet] /\ Len(body) = Length + 1

(* Faulty variant: any check sum is right. *)
CrcOkAlways == TRUE

CrcOk == ucXBeeCrc(Front(body)) = Last(body)

Resume == pc' = IF len = 0 THEN "idle" ELSE "in"

(* The check fails: reception starts again, the packet is not freed. *)
CheckFailed ==
  /\ pc = "check"
  /\ Sound => ~ CrcOk
  /\ rcvd' = 0 /\ bad' = bad \cup {packet}
  /\ Resume
  /\ UNCHANGED <<line, sent, got, nsent, faults, left, packet, hdr, live, cap, body, chunk, pos, len>>

(* Faulty variant: the handler's 0 is taken for a refusal. *)
HandlerReturnDrops ==
  /\ pc = "handler" /\ pc' = "drop"
  /\ UNCHANGED <<line, sent, got, nsent, faults, inVars, heapVars, chunk, pos, len>>

(* iXBeeRecvPktCB: the type selects a handler, if there is one.  As the    *)
(* API asks, the handler frees the packet before it returns.               *)
CheckPassed ==
  /\ pc = "check"
  /\ Sound => CrcOk
  /\ \/ /\ Sound => body[1] \in Handled
        /\ got' = Append(got, IF Sound THEN Front(body) ELSE body)
        /\ live' = live \ {packet}
        /\ pc' = "handler"
     \/ /\ Sound => body[1] \notin Handled
        /\ pc' = "drop"
        /\ UNCHANGED <<got, live>>
  /\ UNCHANGED <<line, sent, nsent, faults, inVars, cap, body, bad, chunk, pos, len>>

HandlerReturn ==
  /\ pc = "handler"
  /\ \/ rcvd' = 0 /\ Resume
     \/ "refused" \in faults /\ pc' = "drop" /\ UNCHANGED rcvd
  /\ UNCHANGED <<line, sent, got, nsent, faults, left, packet, hdr, heapVars, chunk, pos, len>>

(* Faulty variant: a packet that was not processed is forgotten. *)
DropForgets ==
  /\ pc = "drop" /\ rcvd' = 0
  /\ Resume
  /\ UNCHANGED <<line, sent, got, nsent, faults, left, packet, hdr, heapVars, chunk, pos, len>>

(* A packet that was not processed (-1) is freed by the library. *)
Drop ==
  /\ pc = "drop"
  /\ live' = live \ {packet}
  /\ rcvd' = 0
  /\ Resume
  /\ UNCHANGED <<line, sent, got, nsent, faults, left, packet, hdr, cap, body, bad, chunk, pos, len>>

vXBeeIn ==
  \/ InStart \/ InLengthHigh \/ InLengthLow \/ InLengthRejected
  \/ InBody \/ InNoBody \/ CheckFailed \/ CheckPassed
  \/ HandlerReturn \/ Drop

Next ==
  \/ \E p \in Payload : SendPacket(p)
  \/ Corrupt
  \/ \E n \in 1 .. MaxChunk : iXBeePoll(n)
  \/ vXBeeIn

(* The application polls the line for ever, as its main loop must. *)
Spec == Init /\ [][Next]_vars
             /\ WF_vars((\E n \in 1 .. MaxChunk : iXBeePoll(n)) \/ vXBeeIn)

-----------------------------------------------------------------------------
TypeOK ==
  /\ rcvd \in Byte /\ left \in Byte
  /\ packet \in Addr \cup {Null} /\ hdr \in Byte \X Byte
  /\ live \in SUBSET Addr /\ cap \in [Addr -> 0 .. MaxData + 4]
  /\ pc \in {"idle", "in", "check", "handler", "drop"}
  /\ pos \in Nat /\ len \in Nat

(* A byte received is stored inside the block allocated for the packet,    *)
(* whatever the line delivers (vXBeeIn, packet[bytes_rcvd++]).             *)
WriteInBounds ==
  pc = "in" /\ rcvd >= 3 /\ left > 0 => packet \in live /\ rcvd < cap[packet]

(* Every length is legal and every packet gets a block.  Otherwise vXBeeIn *)
(* reads past its buffer and checks a packet that it did not receive.      *)
Allocated == faults \cap {"length", "nomem"} = {}

(* ... and a handler takes the packets that it frees. *)
Taken == Allocated /\ "refused" \notin faults

(* The packet that is checked and handed over is the one that was just     *)
(* allocated for it, not a pointer left by an earlier reception, and       *)
(* ucXBeeCrc reads no byte outside of it.                                  *)
PacketFresh ==
  Allocated /\ pc = "check" => packet \in live /\ Length + 4 <= cap[packet]

(* The library frees no packet that the handler has already freed. *)
NoDoubleFree == Taken /\ pc = "drop" => packet \in live

(* Both: from its allocation until it is handed over a packet belongs to   *)
(* vXBeeIn, and to the handler then (src/xbee.c, vXBeeIn).                 *)
PacketOwned == PacketFresh /\ NoDoubleFree

(* A packet is freed once it was handed over or dropped: whatever fails,   *)
(* the only blocks that are allocated are the one of the packet under      *)
(* construction, and those of packets with a wrong check sum, which        *)
(* vXBeeIn never frees.                                                    *)
NoLeak == live \subseteq bad \cup (IF rcvd >= 3 THEN {packet} ELSE {})

(* However packets are cut into chunks and whatever noise or bad check     *)
(* sums come in between, the handlers get the packets sent, in order.      *)
Link == INSTANCE FrameLink WITH Frame <- Payload, sent <- IF Taken THEN sent ELSE << >>,
                                got <- IF Taken THEN got ELSE << >>
LinkSpec == Link!Spec

(* What the comment of iXBeeRecvPktCB promises, whatever the line delivers: *)
(* the packet that is checked for it was received and is allocated.        *)
CheckedIsAllocated == pc = "check" => packet \in live

=============================================================================
