-------------------------------- MODULE Tnc --------------------------------
(***************************************************************************)
(* The link to a terminal node controller (radio/src/tnc.c), in one        *)
(* direction: iTncWrite at one end, iTncPoll at the other.  Both ends are  *)
(* terminals with queues in the kernel, which iTncWrite empties before it  *)
(* writes: tcflush (TCIOFLUSH) drops what was not transmitted yet and what *)
(* was received and not read.                                              *)
(*                                                                         *)
(* A message is a sequence of hexadecimal digits, two for a byte; the      *)
(* check sum of a sequence is ideal: it is the one of no other.            *)
(***************************************************************************)
EXTENDS Naturals, Sequences, SequencesExt, FiniteSets

CONSTANTS
  Sizes,      \* bytes of the messages
  MaxSent,    \* bound: messages written
  MaxFaults   \* bound: faults of the line and of the ends

TncAssumption ==
  /\ Sizes \subseteq Nat \ {0}
  /\ MaxSent \in Nat /\ MaxFaults \in Nat

SOH == <<"soh">>
STX == <<"stx">>
ETX == <<"etx">>
EOT == <<"eot">>
Digit(v) == <<"digit", v>>
CrcDigit(k, s) == <<"digit", k, s>>
Control == {SOH, STX, ETX, EOT}

Crc(s) == [k \in 1 .. 4 |-> CrcDigit(k, s)]

VARIABLES
  outq, inq, \* queues of the terminals: of the one that sends, of the other
  faults,
  \* ---- xTnc: state, the digits of rxbuf and msb, with the check sum crc_rx
  \*      of just those, the digits in crc_tx
  state, digits, crcTx,
  \* ---- history: messages written, handed over, those that must be
  sent, got, due

lineVars == <<outq, inq, faults>>
rxVars == <<state, digits, crcTx>>
histVars == <<sent, got, due>>
vars == <<lineVars, rxVars, histVars>>

Init ==
  /\ outq = << >> /\ inq = << >> /\ faults = 0
  /\ state = "none" /\ digits = << >> /\ crcTx = << >>
  /\ sent = << >> /\ got = << >> /\ due = {}

-----------------------------------------------------------------------------
(* The ends and the line. *)

(* A message carries its number, so that it is like no other. *)
Message(n, size) == [d \in 1 .. 2 * size |-> Digit(n)]
Frame == {Message(n, size) : n \in 1 .. MaxSent, size \in Sizes}

Number(m) == m[1][2]
Numbers(s) == {Number(s[i]) : i \in DOMAIN s}

Encode(m) == <<SOH, STX>> \o m \o <<ETX>> \o Crc(m) \o <<EOT>>

(* What is under way may be lost. *)
NotDue == due \cap Numbers(got)

iTncWrite(size) ==
  /\ Len(sent) < MaxSent
  /\ LET m == Message(Len(sent) + 1, size) IN
       /\ outq' = Encode(m)
       /\ sent' = Append(sent, m)
       /\ due' = {Number(m)} \cup (IF outq = << >> THEN due ELSE NotDue)
  /\ UNCHANGED <<inq, faults, rxVars, got>>

(* write fails after some characters: TNC_IO_ERROR. *)
WriteError(size) ==
  /\ Len(sent) < MaxSent /\ faults < MaxFaults
  /\ LET m == Message(Len(sent) + 1, size) IN
       /\ \E n \in 0 .. Len(Encode(m)) - 1 : outq' = SubSeq(Encode(m), 1, n)
       /\ sent' = Append(sent, m)
  /\ due' = IF outq = << >> THEN due ELSE NotDue
  /\ faults' = faults + 1
  /\ UNCHANGED <<inq, rxVars, got>>

(* The other end writes a message of its own. *)
WriteBack ==
  /\ inq # << >> /\ faults < MaxFaults /\ faults' = faults + 1
  /\ inq' = << >> /\ due' = NotDue
  /\ UNCHANGED <<outq, rxVars, sent, got>>

Transmit ==
  /\ outq # << >>
  /\ inq' = Append(inq, Head(outq)) /\ outq' = Tail(outq)
  /\ UNCHANGED <<faults, rxVars, histVars>>

(* The line loses a character or adds one. *)
Lose ==
  /\ outq # << >> /\ faults < MaxFaults /\ faults' = faults + 1
  /\ outq' = Tail(outq) /\ due' = NotDue
  /\ UNCHANGED <<inq, rxVars, sent, got>>

Add ==
  /\ faults < MaxFaults /\ faults' = faults + 1
  /\ \E x \in Control \cup {Digit(0)} : inq' = Append(inq, x)
  /\ due' = NotDue
  /\ UNCHANGED <<outq, rxVars, sent, got>>

-----------------------------------------------------------------------------
(* iTncPoll: the loop reads until a message ends; the next call begins     *)
(* with another one.                                                       *)

PollStart ==
  /\ state = "EOT" /\ state' = "none"
  /\ UNCHANGED <<lineVars, digits, crcTx, histVars>>

(* read fails: the message under way is forgotten. *)
ReadError ==
  /\ state # "EOT" /\ faults < MaxFaults /\ faults' = faults + 1
  /\ state' = "IO_ERROR" /\ due' = NotDue
  /\ UNCHANGED <<outq, inq, digits, crcTx, sent, got>>

Poll == state # "EOT" /\ inq # << >> /\ inq' = Tail(inq) /\ UNCHANGED <<outq, faults>>

PollSoh ==
  /\ Poll /\ Head(inq) = SOH
  /\ state' = "SOH" /\ digits' = << >>
  /\ UNCHANGED <<crcTx, histVars>>

PollStx ==
  /\ Poll /\ Head(inq) = STX
  /\ state' = IF state = "SOH" THEN "STX" ELSE "none"
  /\ UNCHANGED <<digits, crcTx, histVars>>

PollEtx ==
  /\ Poll /\ Head(inq) = ETX
  /\ IF state = "STX" THEN state' = "ETX" /\ crcTx' = << >>
                      ELSE state' = "none" /\ UNCHANGED crcTx
  /\ UNCHANGED <<digits, histVars>>

(* Faulty variant: the check sum is not compared. *)
PollEotNoCrc ==
  /\ Poll /\ Head(inq) = EOT
  /\ IF state = "ETX" THEN state' = "EOT" /\ got' = Append(got, digits)
                      ELSE state' = "none" /\ UNCHANGED got
  /\ UNCHANGED <<digits, crcTx, sent, due>>

(* TNC_EOT is returned for a message, TNC_CRC_ERROR for a bad one. *)
PollEot ==
  /\ Poll /\ Head(inq) = EOT
  /\ CASE state = "ETX" /\ crcTx = Crc(digits) -> state' = "EOT" /\ got' = Append(got, digits)
       [] state = "ETX" /\ crcTx # Crc(digits) -> state' = "CRC_ERROR" /\ UNCHANGED got
       [] OTHER -> state' = "none" /\ UNCHANGED got
  /\ UNCHANGED <<digits, crcTx, sent, due>>

(* A digit of a byte, of the check sum (no more than four) or of nothing. *)
PollDigit ==
  /\ Poll /\ Head(inq) \notin Control
  /\ CASE state = "STX" -> digits' = Append(digits, Head(inq)) /\ UNCHANGED <<state, crcTx>>
       [] state = "ETX" /\ Len(crcTx) < 4 -> crcTx' = Append(crcTx, Head(inq)) /\ UNCHANGED <<state, digits>>
       [] state = "ETX" /\ Len(crcTx) = 4 -> state' = "ILLEGAL_MSG" /\ UNCHANGED <<digits, crcTx>>
       [] OTHER -> state' = "none" /\ UNCHANGED <<digits, crcTx>>
  /\ UNCHANGED histVars

Receive == PollStart \/ PollSoh \/ PollStx \/ PollEtx \/ PollEot \/ PollDigit

Next ==
  \/ \E size \in Sizes : iTncWrite(size) \/ WriteError(size)
  \/ WriteBack \/ Transmit \/ Lose \/ Add
  \/ ReadError \/ Receive

(* The line transmits; the application polls for ever. *)
Fairness == WF_vars(Transmit) /\ WF_vars(Receive)

Spec == Init /\ [][Next]_vars /\ Fairness

-----------------------------------------------------------------------------
(* What is handed over was written, unaltered, in order and once, whatever *)
(* the line, the flushes and the errors do.                                *)
Link == INSTANCE LossyLink WITH next <- IF got = << >> THEN 1 ELSE Number(Last(got)) + 1
LinkSpec == Link!Spec

(* A message that meets no fault after it was written is handed over,      *)
(* whatever the state in which the receiver was left: another message must *)
(* not be written before it is transmitted, and the other end must not     *)
(* write before it is read.                                                *)
MessageArrives ==
  \A n \in 1 .. MaxSent : n \in due ~> n \in Numbers(got) \/ n \notin due
=============================================================================
