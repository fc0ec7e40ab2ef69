----------------------------- MODULE SerialLine -----------------------------
(***************************************************************************)
(* The settings of a serial line (src/unix/serial.c): the application sets *)
(* the speed, the data bits, the parity, the stop bits and the flow        *)
(* control, together or one by one; the flags of termios and the RS485     *)
(* mode of the driver, which is not in termios, hold them.                 *)
(*                                                                         *)
(* The queues that tcflush empties, DTR and RTS, polling and the strings   *)
(* are left out.  The line keeps its flags when it is closed, and another  *)
(* program may have left any of them in any state.                         *)
(***************************************************************************)
EXTENDS Naturals, Sequences, SequencesExt

CONSTANTS
  Bauds, DataBits, Parities, Stops, Flows, \* what the application asks for
  Rs485Able                                \* whether the driver may have RS485

VARIABLES
  ts,      \* struct termios of the device
  rs485,   \* struct serial_rs485 of the device: flags, none when disabled
  able,    \* the driver has RS485
  lineFd,  \* the descriptor is open
  asked    \* history: what the calls have asked for

vars == <<ts, rs485, able, lineFd, asked>>

Rs485Flow == {"rs485 after send", "rs485 on send"}
SoftFlags == {"IXON", "IXOFF", "IXANY"}

(* The rates that have a constant Bxxx, in the order of these constants. *)
Rates == <<0, 50, 75, 110, 134, 150, 200, 300, 600, 1200, 1800, 2400, 4800, 9600, 19200,
  38400, 57600, 115200, 230400, 460800, 500000, 576000, 921600, 1000000, 1152000, 1500000,
  2000000, 2500000, 3000000, 3500000, 4000000>>

eSerialIntToSpeed(baud) == CHOOSE s \in 1 .. Len(Rates) : Rates[s] = baud
iSerialSpeedToInt(speed) == Rates[speed]

HasRate(baud) == baud \in ToSet(Rates)

Init ==
  /\ able \in Rs485Able
  /\ ts \in [speed : {eSerialIntToSpeed(b) : b \in {c \in Bauds : HasRate(c)}},
             csize : {"CS7", "CS8"}, parenb : BOOLEAN, parodd : BOOLEAN, inpck : {FALSE},
             cstopb : BOOLEAN, crtscts : BOOLEAN, soft : {{}, {"IXON"}, SoftFlags}]
  /\ rs485 \in IF able THEN {{}, {"RTS_ON_SEND"}} ELSE {{}}
  /\ lineFd = FALSE
  /\ asked = [baud |-> "any"]

-----------------------------------------------------------------------------
(* Setting the fields of a struct termios: what cannot be set is refused.  *)

Refused == [refused |-> TRUE]

iSerialTermiosSetBaudrate(t, baud) ==
  IF HasRate(baud) THEN [t EXCEPT !.speed = eSerialIntToSpeed(baud)] ELSE Refused

CSize == [b \in {5, 6, 7, 8} |-> CASE b = 5 -> "CS5" [] b = 6 -> "CS6" [] b = 7 -> "CS7" [] OTHER -> "CS8"]

iSerialTermiosSetDataBits(t, dbits) ==
  IF dbits \in DOMAIN CSize THEN [t EXCEPT !.csize = CSize[dbits]] ELSE Refused

iSerialTermiosSetStopBits(t, sbits) ==
  IF sbits \in {1, 2} THEN [t EXCEPT !.cstopb = (sbits = 2)] ELSE Refused

iSerialTermiosSetParity(t, parity) ==
  IF parity \notin {"none", "even", "odd"} THEN Refused
  ELSE [t EXCEPT !.parenb = (parity # "none"), !.parodd = (parity = "odd"), !.inpck = (parity # "none")]

(* Faulty variant: the flags of the other kind of flow control stay set. *)
iSerialTermiosSetFlowAdd(t, flow) ==
  CASE flow \in Rs485Flow \cup {"none"} -> [t EXCEPT !.crtscts = FALSE, !.soft = {}]
    [] flow = "hardware" -> [t EXCEPT !.crtscts = TRUE, !.soft = {}]
    [] flow = "software" -> [t EXCEPT !.soft = SoftFlags]
    [] OTHER -> Refused

iSerialTermiosSetFlow(t, flow) ==
  CASE flow \in Rs485Flow \cup {"none"} -> [t EXCEPT !.crtscts = FALSE, !.soft = {}]
    [] flow = "hardware" -> [t EXCEPT !.crtscts = TRUE, !.soft = {}]
    [] flow = "software" -> [t EXCEPT !.crtscts = FALSE, !.soft = SoftFlags]
    [] OTHER -> Refused

(* One after the other, until one is refused. *)
iSerialTermiosSetAttr(t, ios) ==
  LET Then(u, v) == IF u = Refused THEN Refused ELSE v
      t1 == iSerialTermiosSetBaudrate(t, ios.baud)
      t2 == Then(t1, iSerialTermiosSetDataBits(t1, ios.dbits))
      t3 == Then(t2, iSerialTermiosSetParity(t2, ios.parity))
      t4 == Then(t3, iSerialTermiosSetStopBits(t3, ios.sbits))
  IN Then(t4, iSerialTermiosSetFlow(t4, ios.flow))

-----------------------------------------------------------------------------
(* Reading them. *)

iSerialTermiosGetParity(t) == IF ~ t.parenb THEN "none" ELSE IF t.parodd THEN "odd" ELSE "even"

iSerialTermiosGetFlow(t) ==
  IF t.crtscts THEN "hardware" ELSE IF t.soft # {} THEN "software" ELSE "none"

eSerialGetFlow ==
  LET f == iSerialTermiosGetFlow(ts)
  IN IF f # "none" \/ rs485 = {} THEN f
     ELSE CASE rs485 = {"RTS_AFTER_SEND"} -> "rs485 after send"
            [] rs485 = {"RTS_ON_SEND"} -> "rs485 on send"
            [] OTHER -> "unknown"

iSerialGetAttr ==
  [baud |-> iSerialSpeedToInt(ts.speed),
   dbits |-> CHOOSE b \in DOMAIN CSize : CSize[b] = ts.csize,
   parity |-> iSerialTermiosGetParity(ts),
   sbits |-> IF ts.cstopb THEN 2 ELSE 1,
   flow |-> eSerialGetFlow]

-----------------------------------------------------------------------------
(* The calls.  Those that set one field read termios, change it and write  *)
(* it back.                                                                *)

SetOne(t, field, value) ==
  /\ lineFd
  /\ IF t = Refused THEN UNCHANGED <<ts, asked>>
                    ELSE ts' = t /\ asked' = [asked EXCEPT ![field] = value]
  /\ UNCHANGED <<rs485, able, lineFd>>

iSerialSetBaudrate(baud) == SetOne(iSerialTermiosSetBaudrate(ts, baud), "baud", baud)
iSerialSetDataBits(dbits) == SetOne(iSerialTermiosSetDataBits(ts, dbits), "dbits", dbits)
iSerialSetStopBits(sbits) == SetOne(iSerialTermiosSetStopBits(ts, sbits), "sbits", sbits)
iSerialSetParity(parity) == SetOne(iSerialTermiosSetParity(ts, parity), "parity", parity)

(* The flow control of a line whose termios is t: termios, then the mode   *)
(* RS485, which is disabled when it is not asked for.  The call fails if   *)
(* the driver has no RS485, once termios is without flow control.          *)
SetFlow(t, flow) ==
  /\ ts' = iSerialTermiosSetFlow(t, flow)
  /\ rs485' = CASE able /\ flow = "rs485 after send" -> {"RTS_AFTER_SEND"}
                [] able /\ flow = "rs485 on send" -> {"RTS_ON_SEND"}
                [] OTHER -> {}

FlowFails(flow) == flow \in Rs485Flow /\ ~ able
Obtained(flow) == IF FlowFails(flow) THEN "none" ELSE flow

iSerialSetFlow(flow) ==
  /\ lineFd
  /\ IF iSerialTermiosSetFlow(ts, flow) = Refused THEN UNCHANGED <<ts, rs485, asked>>
     ELSE SetFlow(ts, flow) /\ asked' = [asked EXCEPT !.flow = Obtained(flow)]
  /\ UNCHANGED <<able, lineFd>>

iSerialSetAttr(ios) ==
  LET t == iSerialTermiosSetAttr(ts, ios)
  IN /\ lineFd
     /\ IF t = Refused THEN UNCHANGED <<ts, rs485, asked>>
        ELSE SetFlow(t, ios.flow) /\ asked' = [ios EXCEPT !.flow = Obtained(@)]
     /\ UNCHANGED <<able, lineFd>>

(* cfmakeraw, then all the settings.  If it fails, the descriptor is       *)
(* closed.                                                                 *)
cfmakeraw(t) ==
  [t EXCEPT !.csize = "CS8", !.parenb = FALSE, !.soft = @ \ {"IXON"}]

iSerialOpen(ios) ==
  LET t == iSerialTermiosSetAttr(cfmakeraw(ts), ios)
  IN /\ ~ lineFd
     /\ IF t = Refused THEN UNCHANGED <<ts, rs485, asked, lineFd>>
        ELSE /\ SetFlow(t, ios.flow)
             /\ lineFd' = ~ FlowFails(ios.flow)
             /\ asked' = [ios EXCEPT !.flow = Obtained(@)]
     /\ UNCHANGED able

vSerialClose == lineFd /\ lineFd' = FALSE /\ UNCHANGED <<ts, rs485, able, asked>>

Ios == [baud : Bauds, dbits : DataBits, parity : Parities, sbits : Stops, flow : Flows]

Next ==
  \/ \E b \in Bauds : iSerialSetBaudrate(b)
  \/ \E d \in DataBits : iSerialSetDataBits(d)
  \/ \E s \in Stops : iSerialSetStopBits(s)
  \/ \E p \in Parities : iSerialSetParity(p)
  \/ \E f \in Flows : iSerialSetFlow(f)
  \/ \E ios \in Ios : iSerialSetAttr(ios) \/ iSerialOpen(ios)
  \/ vSerialClose

Spec == Init /\ [][Next]_vars

-----------------------------------------------------------------------------
(* The line is as the calls have asked, whatever it was before: a setting  *)
(* does not disturb the others, no flag of an earlier flow control and no  *)
(* RS485 mode remains, and a call that is refused changes nothing.         *)
LineAsAsked == lineFd => iSerialGetAttr = asked
=============================================================================
