------------------------------- MODULE Blyss -------------------------------
(***************************************************************************)
(* The remote control Blyss (src/gpio/blyss.c): the fields of a frame in   *)
(* the nibbles of raw, set in any order, the rolling code and the token of *)
(* each sending, and the pulses on the output pin, which a receiver of the *)
(* protocol decodes.  The output port has no failures.                     *)
(***************************************************************************)
EXTENDS Naturals, Sequences

CONSTANTS
  GlobalChannels, Addresses, Channels, \* what the application sets
  Seeds,                               \* the first tokens, at random in the code
  MaxSends                             \* bound: calls of iBlyssSend

BLYSS_FLAG == 254
BLYSS_NOF_BITS == 52
barrel == <<152, 218, 30, 230, 103>>
channels == <<0, 8, 4, 2, 1, 3, 5, 6, 7>>
HEADER_TIME == 2400
T1 == 400
T2 == 800
FOOTER_TIME == 24000

Nibble == 0 .. 15
Byte == 0 .. 255
Word == 0 .. 65535
Channel == 0 .. 7 \* the channel 8 is refused

BlyssAssumption ==
  /\ GlobalChannels \subseteq Nibble /\ Addresses \subseteq Word /\ Channels \subseteq Channel
  /\ Seeds \subseteq Byte /\ MaxSends \in Nat

VARIABLES
  raw,                  \* the frame, seven bytes
  roll_idx, last_token, \* xBlyss
  fields,               \* history: what the setters were given
  heard, asked, earlier, \* history: the frames that a receiver decoded at the
                        \* last sending, what fields were, and the frames of
                        \* the sending before
  sends

vars == <<raw, roll_idx, last_token, fields, heard, asked, earlier, sends>>

-----------------------------------------------------------------------------
(* Shifts, by 12 at most. *)
Power == <<1, 2, 4, 8, 16, 32, 64, 128, 256, 512, 1024, 2048, 4096>>
Up(v, n) == v * Power[n + 1]
Shl(v, n) == Up(v, n) % 256
Shr(v, n) == v \div Power[n + 1]
Low(b) == b % 16
High(b) == b \div 16

(* The position p of the frame is in a field. *)
InField(p, index, len) == index <= p /\ p < index + len

(* Faulty variant of vSetBits: the nibble that shares a byte is not kept. *)
vSetBitsAlone(f, index, len, value) ==
  LET end == index + len
      NibbleAt(p) == Shr(value, end - p - 4)
  IN [i \in DOMAIN f |->
        IF InField(8 * i, index, len)
          THEN IF end - 8 * i >= 8 THEN Shr(value, 8 * i - index) % 256 ELSE Shl(NibbleAt(8 * i), 4)
        ELSE IF InField(8 * i + 4, index, len) THEN NibbleAt(8 * i + 4)
        ELSE f[i]]

(* vSetBits: a byte, if it is in the field as a whole, or a nibble.        *)
vSetBits(f, index, len, value) ==
  LET end == index + len
      NibbleAt(p) == Shr(value, end - p - 4)
  IN [i \in DOMAIN f |->
        IF InField(8 * i, index, len)
          THEN IF end - 8 * i >= 8 THEN Shr(value, 8 * i - index) % 256
               ELSE Low(f[i]) + Shl(NibbleAt(8 * i), 4)
        ELSE IF InField(8 * i + 4, index, len) THEN 16 * High(f[i]) + NibbleAt(8 * i + 4)
        ELSE f[i]]

(* usGetBits: a field of 16 bits is in three bytes at most. *)
usGetBits(f, index, len) ==
  LET end == index + len
      Part(i) ==
        IF InField(8 * i, index, len)
          THEN IF end - 8 * i >= 8 THEN Up(f[i], end - 8 * i - 8)
               ELSE Up(High(f[i]), end - 8 * i - 4)
        ELSE IF InField(8 * i + 4, index, len) THEN Up(Low(f[i]), end - 8 * i - 8)
        ELSE 0
      first == index \div 8
  IN Part(first) + Part(first + 1) + Part(first + 2)

(* The setters and the getters of fields. *)
SetFlag(f) == vSetBits(f, 0, 8, BLYSS_FLAG)
SetGlobalChannel(f, v) == vSetBits(f, 8, 4, v)
SetAddress(f, v) == vSetBits(f, 12, 16, v)
SetChannel(f, c) == IF c < Len(channels) - 1 THEN vSetBits(f, 28, 4, channels[c + 1]) ELSE f
SetState(f, on) == vSetBits(f, 32, 4, IF on THEN 0 ELSE 1)
SetRollingCode(f, code) == vSetBits(f, 36, 8, code)
SetToken(f, token) == vSetBits(f, 44, 8, token)

ucToken(f) == usGetBits(f, 44, 8)
ucDecodeChannel(field) ==
  IF \E c \in 1 .. Len(channels) : channels[c] = field
    THEN (CHOOSE c \in 1 .. Len(channels) : channels[c] = field) - 1 ELSE 255
bBlyssFrameIsValid(f) ==
  f[0] = BLYSS_FLAG /\ \E k \in 1 .. Len(barrel) : barrel[k] = usGetBits(f, 36, 8)
Fields(f) ==
  [global |-> usGetBits(f, 8, 4), address |-> usGetBits(f, 12, 16),
   channel |-> ucDecodeChannel(usGetBits(f, 28, 4)), on |-> usGetBits(f, 32, 4) = 0]

-----------------------------------------------------------------------------
(* iSendFrame: the pulses, a level and its time. *)
iSendBit(bit) ==
  << <<FALSE, IF bit THEN T1 ELSE T2>>, <<TRUE, IF bit THEN T2 ELSE T1>> >>

Bit(f, i) == Shr(f[i \div 8], 7 - (i % 8)) % 2 = 1

iSendFrame(f) ==
  [k \in 1 .. 2 * BLYSS_NOF_BITS + 2 |->
     IF k = 1 THEN <<TRUE, HEADER_TIME>>
     ELSE IF k = 2 * BLYSS_NOF_BITS + 2 THEN <<FALSE, FOOTER_TIME>>
     ELSE LET pulses == iSendBit(Bit(f, (k - 2) \div 2)) IN pulses[1 + (k % 2)]]

(* A receiver of the protocol: a pulse longer than the pause before it is  *)
(* a 1; the last byte has only its first nibble.                           *)
Decoded(line) ==
  LET One(i) == i < BLYSS_NOF_BITS /\ line[2 * i + 3][2] > line[2 * i + 2][2]
      Worth(i) == IF One(i) THEN Up(1, 7 - (i % 8)) ELSE 0
  IN [b \in 0 .. 6 |->
        Worth(8 * b) + Worth(8 * b + 1) + Worth(8 * b + 2) + Worth(8 * b + 3)
          + Worth(8 * b + 4) + Worth(8 * b + 5) + Worth(8 * b + 6) + Worth(8 * b + 7)]

-----------------------------------------------------------------------------
(* The application. *)

(* xBlyssNew, xBlyssFrameNew *)
Init ==
  \E g \in GlobalChannels, a \in Addresses :
    /\ raw = SetAddress(SetGlobalChannel(SetFlag([b \in 0 .. 6 |-> 0]), g), a)
    /\ fields = [global |-> g, address |-> a, channel |-> 0, on |-> TRUE]
    /\ roll_idx = 0 /\ last_token \in Seeds
    /\ heard = {} /\ earlier = {} /\ asked = fields /\ sends = 0

Set(f, given) ==
  /\ raw' = f /\ fields' = given
  /\ UNCHANGED <<roll_idx, last_token, heard, asked, earlier, sends>>

vBlyssFrameSetTxId(g, a) ==
  Set(SetAddress(SetGlobalChannel(raw, g), a), [fields EXCEPT !.global = g, !.address = a])
vBlyssFrameSetChannel(c) == Set(SetChannel(raw, c), [fields EXCEPT !.channel = c])
vBlyssFrameSetState(on) == Set(SetState(raw, on), [fields EXCEPT !.on = on])

(* iBlyssSend: one rolling code and one token for the repetitions, which *)
(* are the same frame again.                                               *)
iBlyssSend(repeat) ==
  LET f == SetToken(SetRollingCode(raw, barrel[roll_idx + 1]), last_token)
  IN /\ sends < MaxSends /\ sends' = sends + 1
     /\ raw' = f
     /\ roll_idx' = (roll_idx + 1) % Len(barrel)
     /\ last_token' = (last_token + 10) % 256
     /\ heard' = IF repeat = 0 THEN {} ELSE {Decoded(iSendFrame(f))}
     /\ asked' = fields /\ earlier' = heard
     /\ UNCHANGED fields

Next ==
  \/ \E g \in GlobalChannels, a \in Addresses : vBlyssFrameSetTxId(g, a)
  \/ \E c \in Channels : vBlyssFrameSetChannel(c)
  \/ \E on \in BOOLEAN : vBlyssFrameSetState(on)
  \/ \E repeat \in {0, 1, 2} : iBlyssSend(repeat)

Spec == Init /\ [][Next]_vars

-----------------------------------------------------------------------------
(* What a receiver decodes from the pulses is a valid frame, with all that *)
(* the application asked in whatever order, and a token that is not the    *)
(* one of the sending before, which raw still held.                        *)
HeardIsAsked ==
  \A f \in heard :
    /\ bBlyssFrameIsValid(f) /\ Fields(f) = asked
    /\ \A g \in earlier : ucToken(f) # ucToken(g)
=============================================================================
