-------------------------------- MODULE Ax25 --------------------------------
(***************************************************************************)
(* The AX.25 link of libsysio-radio (radio/src/ax25.c): iAx25Send frames   *)
(* and escapes the bytes of a frame, bAx25Poll searches the line for       *)
(* frames, one character after the other, and iAx25Read decodes the one    *)
(* that was found.  The line loses, adds and cuts characters.              *)
(*                                                                         *)
(* A symbol stands for a byte or for a field that is never cut: the flag,  *)
(* the reset and the escape, an address, the control field, the check sum. *)
(* The check sum of a sequence is ideal: it is the one of no other.        *)
(***************************************************************************)
EXTENDS Naturals, Sequences, SequencesExt, FiniteSets

CONSTANTS
  Contents,  \* what stations send: records of Content
  Noise,     \* symbols that the line adds
  Clears,    \* TRUE: the application clears the object when iAx25Read fails
  MaxRpt,    \* AX25_MAX_RPT
  BufLen,    \* AX25_FRAME_BUF_LEN, in symbols
  MaxSent,   \* bound: frames sent
  MaxFaults, \* bound: faults of the line
  MaxLine    \* bound: symbols on the line when a station sends

Flag == <<"flag">>
Reset == <<"reset">>
Esc == <<"esc">>
Byte(v) == <<"byte", v>>
Addr(last) == <<"addr", last>>
Ctrl(ui) == <<"ctrl", ui>>
Crc(s) == <<"crc", s>>

Special == {Flag, Reset, Esc}
Symbol == Special \cup {Byte(0)}

(* Two addresses, the control field, the protocol and the check sum are    *)
(* the AX25_MIN_FRAME_LEN bytes.                                           *)
MinLen == 5

Content == [rpt : 0 .. MaxRpt, ui : BOOLEAN, info : Seq(Symbol)]

Ax25Assumption ==
  /\ MaxRpt \in Nat /\ BufLen \in Nat
  /\ Contents \subseteq Content /\ Noise \subseteq Symbol /\ Clears \in BOOLEAN
  /\ \A c \in Contents : Len(c.info) <= BufLen  \* iAx25FrameSetInfo
  /\ MaxSent \in Nat /\ MaxFaults \in Nat /\ MaxLine \in Nat

VARIABLES
  line,            \* symbols not read yet
  faults,
  \* ---- xAx25: buf[0 .. len - 1], with the check sum crc_in of just that
  buf, sync, escape, frmRecv,
  \* ---- history: frames sent, frames handed over, whether nothing happened
  \*      since the last frame, frames that must be handed over
  sent, got, calm, due

lineVars == <<line, faults>>
rxVars == <<buf, sync, escape, frmRecv>>
histVars == <<sent, got, calm, due>>
vars == <<lineVars, rxVars, histVars>>

Init ==
  /\ line = << >> /\ faults = 0
  /\ buf = << >> /\ sync = FALSE /\ escape = FALSE /\ frmRecv = FALSE
  /\ sent = << >> /\ got = << >> /\ calm = TRUE /\ due = {}

-----------------------------------------------------------------------------
(* A station that sends. *)

(* A frame carries its number, so that it is like no other. *)
Numbered(k, c) == [n |-> k, rpt |-> c.rpt, ui |-> c.ui, info |-> c.info]
Frame == {Numbered(k, c) : k \in 1 .. MaxSent, c \in Contents}

(* Faulty variant: the reset is sent as it is. *)
PutCharNoReset(x) == IF x \in {Flag, Esc} THEN <<Esc, x>> ELSE <<x>>

(* prvvPutChar *)
PutChar(x) == IF x \in Special THEN <<Esc, x>> ELSE <<x>>

(* prviSendCall: the last address is marked. *)
Path(rpt) == [i \in 1 .. rpt + 2 |-> Addr(i = rpt + 2)]

Body(f) == Path(f.rpt) \o <<Ctrl(f.ui), Byte(f.n)>> \o f.info

Encode(f) == <<Flag>> \o FlattenSeq([i \in 1 .. Len(Body(f)) |-> PutChar(Body(f)[i])])
                      \o <<Crc(Body(f)), Flag>>

Room == Len(sent) < MaxSent /\ Len(line) <= MaxLine

(* The frames that a receiver can take. *)
Readable(f) == f.ui /\ Len(Body(f)) < BufLen

(* iAx25Send *)
Send(c) ==
  /\ Room
  /\ LET f == Numbered(Len(sent) + 1, c) IN
       /\ line' = line \o Encode(f)
       /\ sent' = Append(sent, f)
       /\ due' = IF calm /\ Readable(f) THEN due \cup {f.n} ELSE due
  /\ calm' = TRUE
  /\ UNCHANGED <<faults, rxVars, got>>

(* iAx25Send finds an illegal character in an address: the flag and the    *)
(* addresses that are before it are sent.                                  *)
SendIllegal(n) ==
  /\ Room /\ faults < MaxFaults /\ n <= MaxRpt + 1
  /\ line' = line \o <<Flag>> \o [i \in 1 .. n |-> Addr(FALSE)]
  /\ faults' = faults + 1
  /\ UNCHANGED <<rxVars, histVars>>

-----------------------------------------------------------------------------
(* The line: what was not handed over yet may suffer. *)

Numbers(s) == {s[i].n : i \in DOMAIN s}

Fault ==
  /\ faults < MaxFaults /\ faults' = faults + 1
  /\ calm' = FALSE /\ due' = due \cap Numbers(got)
  /\ UNCHANGED <<rxVars, sent, got>>

Lose == \E i \in 1 .. Len(line) : line' = RemoveAt(line, i) /\ Fault

Add == \E x \in Noise, i \in 1 .. Len(line) + 1 : line' = InsertAt(line, i, x) /\ Fault

-----------------------------------------------------------------------------
(* bAx25Poll, a character: the loop ends when a frame is found.            *)

Poll == ~ frmRecv /\ line # << >> /\ line' = Tail(line)

Unescaped(x) == ~ escape /\ Head(line) = x

(* crc_in = AX25_CRC_CORRECT: the last field is the check sum of the rest. *)
CrcCorrect == Last(buf) = Crc(Front(buf))

PollFlag ==
  /\ Poll /\ Unescaped(Flag)
  /\ IF Len(buf) >= MinLen /\ CrcCorrect
       THEN frmRecv' = TRUE /\ UNCHANGED <<buf, sync>>
       ELSE sync' = TRUE /\ buf' = << >> /\ UNCHANGED frmRecv
  /\ UNCHANGED <<faults, escape, histVars>>

PollReset ==
  /\ Poll /\ Unescaped(Reset)
  /\ sync' = FALSE
  /\ UNCHANGED <<faults, buf, escape, frmRecv, histVars>>

PollEsc ==
  /\ Poll /\ Unescaped(Esc)
  /\ escape' = TRUE
  /\ UNCHANGED <<faults, buf, sync, frmRecv, histVars>>

PollByte ==
  /\ Poll
  /\ escape \/ Head(line) \notin Special
  /\ IF sync /\ Len(buf) < BufLen THEN buf' = Append(buf, Head(line)) /\ UNCHANGED sync
                                  ELSE sync' = FALSE /\ UNCHANGED buf
  /\ escape' = FALSE
  /\ UNCHANGED <<faults, frmRecv, histVars>>

-----------------------------------------------------------------------------
(* iAx25Read, prviDecode *)

(* The source is the first address that may be the last. *)
LastAddr == CHOOSE i \in 2 .. MaxRpt + 2 :
  /\ i = MaxRpt + 2 \/ buf[i] = Addr(TRUE)
  /\ \A j \in 2 .. i - 1 : buf[j] # Addr(TRUE)

Decoded == [n |-> buf[LastAddr + 2][2], rpt |-> LastAddr - 2, ui |-> TRUE,
            info |-> SubSeq(buf, LastAddr + 3, Len(buf) - 1)]

Decodable == buf[LastAddr + 1] = Ctrl(TRUE)

Forget == buf' = << >> /\ sync' = FALSE /\ escape' = FALSE /\ frmRecv' = FALSE

Read ==
  /\ frmRecv /\ Decodable
  /\ got' = Append(got, Decoded)
  /\ Forget
  /\ UNCHANGED <<lineVars, sent, calm, due>>

(* AX25_INVALID_FRAME: prviDecode returns before it clears anything.  An   *)
(* application that wants the next frames calls iAx25Clear and             *)
(* iAx25SetFdin.                                                           *)
ReadInvalid ==
  /\ frmRecv /\ ~ Decodable /\ Clears
  /\ Forget
  /\ UNCHANGED <<lineVars, histVars>>

Receive ==
  \/ PollFlag \/ PollReset \/ PollEsc \/ PollByte
  \/ Read \/ ReadInvalid

Next ==
  \/ \E c \in Contents : Send(c)
  \/ \E n \in 0 .. MaxRpt + 1 : SendIllegal(n)
  \/ Lose \/ Add
  \/ Receive

(* The application polls and reads for ever. *)
Fairness == WF_vars(Receive)

Spec == Init /\ [][Next]_vars /\ Fairness

-----------------------------------------------------------------------------
(* What is handed over was sent, unaltered, in order and once, whatever    *)
(* the line does.                                                          *)
Link == INSTANCE LossyLink WITH next <- IF got = << >> THEN 1 ELSE Last(got).n + 1
LinkSpec == Link!Spec

(* A frame that the receiver can take and that follows a frame without any *)
(* fault is handed over, whatever came before: bad frames, resets, frames  *)
(* that are too long, frames of another kind, calls that fail.             *)
FrameArrives ==
  \A n \in 1 .. MaxSent : n \in due ~> n \in Numbers(got) \/ n \notin due
=============================================================================
