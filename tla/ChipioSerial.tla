---------------------------- MODULE ChipioSerial ----------------------------
(***************************************************************************)
(* The serial port of a ChipIo (chipio/src/serial.c): pvSerialThread moves *)
(* bytes between the UART of the chip, which it reaches through I2C, and a *)
(* pseudo terminal, whose other side the application reads and writes.     *)
(* chipio.c makes each access to the chip atomic.                          *)
(*                                                                         *)
(* A byte is its rank on the line, or among those the application writes.  *)
(***************************************************************************)
EXTENDS Naturals, Sequences, FiniteSets

CONSTANTS
  Irq,       \* subset of BOOLEAN: whether there is an interrupt pin
  Block,     \* I2C_BLOCK_MAX, and the size of the buffer of the thread
  MaxIn,     \* bound: bytes that the line brings
  MaxOut,    \* bound: bytes that the application writes
  MaxErrors, \* bound: accesses that fail
  MaxAttrs   \* bound: calls of iChipIoSerialSetAttr

ASSUME ChipioAssumption == Block \in Nat \ {0} /\ MaxIn \in Nat /\ MaxOut \in Nat

VARIABLES
  pin,           \* port->irq # NULL
  rx, tx, busy,  \* the chip: its queues, whether it is being configured
  up, down,      \* the pseudo terminal: to the application, to the thread
  \* ---- pvSerialThread, its buffer and iBytesAvailable
  loop, buffer, n, cancelled,
  app,           \* the application
  \* ---- history
  heard, got, asked, wired, errors, attrs, \* flushed: the last byte heard before a flush
  flushed

chipVars == <<rx, tx, busy>>
loopVars == <<loop, buffer, n>>
histVars == <<heard, got, asked, wired, attrs, flushed>>
vars == <<pin, chipVars, up, down, loopVars, cancelled, app, histVars, errors>>

Least(i, j) == IF i < j THEN i ELSE j
First(s, k) == SubSeq(s, 1, Least(k, Len(s)))
Rest(s, k) == SubSeq(s, Least(k, Len(s)) + 1, Len(s))

(* xChipIoSerialNew, the chip idle *)
Init ==
  /\ pin \in Irq
  /\ rx = << >> /\ tx = << >> /\ busy = FALSE /\ up = << >> /\ down = << >>
  /\ loop = "irq" /\ buffer = << >> /\ n = 0 /\ cancelled = FALSE /\ app = "idle"
  /\ heard = 0 /\ got = << >> /\ asked = 0 /\ wired = << >> /\ errors = 0 /\ attrs = 0
  /\ flushed = 0

Fails == errors < MaxErrors /\ errors' = errors + 1
Works == errors' = errors

(* iChipIsBusy: a chip that does not answer is busy. *)
Ready == Works /\ tx = << >> /\ ~ busy
NotReady == Fails \/ (Works /\ (tx # << >> \/ busy))

-----------------------------------------------------------------------------
(* pvSerialThread: from the chip *)

LoopStep(from, to) == loop = from /\ loop' = to

bIrqIsSet == pin => rx # << >>

(* Faulty variant: without a pin there is never an interrupt. *)
CheckIrqPin ==
  /\ LoopStep("irq", IF pin /\ bIrqIsSet THEN "busy" ELSE "down") /\ Works
  /\ UNCHANGED <<pin, chipVars, up, down, buffer, n, cancelled, app, histVars>>

CheckIrq ==
  /\ \/ LoopStep("irq", IF bIrqIsSet THEN "busy" ELSE "down") /\ Works
     \/ LoopStep("irq", "down") /\ pin /\ Fails
  /\ UNCHANGED <<pin, chipVars, up, down, buffer, n, cancelled, app, histVars>>

(* Faulty variant: p and iBytesRead go on from the last turn. *)
CheckBusyKeepsBuffer ==
  /\ \/ LoopStep("busy", "count") /\ Ready
     \/ LoopStep("busy", "down") /\ NotReady
  /\ UNCHANGED <<pin, chipVars, up, down, buffer, n, cancelled, app, histVars>>

CheckBusy ==
  /\ \/ LoopStep("busy", "count") /\ Ready /\ buffer' = << >>
     \/ LoopStep("busy", "down") /\ NotReady /\ UNCHANGED buffer
  /\ UNCHANGED <<pin, chipVars, up, down, n, cancelled, app, histVars>>

(* The loop ends when the pin is low, or nothing is to be read, or unknown. *)
CountRx ==
  /\ \/ /\ LoopStep("count", IF rx = << >> THEN "write" ELSE "block") /\ Works
        /\ n' = Len(rx)
     \/ LoopStep("count", "write") /\ Fails /\ UNCHANGED n
  /\ UNCHANGED <<pin, chipVars, up, down, buffer, cancelled, app, histVars>>

(* iChipIoReadRegBlock at p, which is not bounded by the end of buffer. *)
ReadBlock ==
  /\ n' = 0
  /\ \/ /\ Works
        /\ buffer' = buffer \o First(rx, Least(Block, n))
        /\ rx' = Rest(rx, Least(Block, n))
        /\ LoopStep("block", IF Len(buffer') > Block THEN "overrun" ELSE "pause")
     \/ /\ LoopStep("block", "pause") /\ Fails /\ UNCHANGED buffer
        /\ rx' \in {rx, Rest(rx, Least(Block, n))}
  /\ UNCHANGED <<pin, tx, busy, up, down, cancelled, app, histVars>>

Pause ==
  /\ LoopStep("pause", "count") /\ Works
  /\ UNCHANGED <<pin, chipVars, up, down, buffer, n, cancelled, app, histVars>>

WriteUp ==
  /\ LoopStep("write", "down") /\ Works
  /\ up' = up \o buffer
  /\ UNCHANGED <<pin, chipVars, down, buffer, n, cancelled, app, histVars>>

-----------------------------------------------------------------------------
(* pvSerialThread: to the chip *)

CheckDown ==
  /\ \/ LoopStep("down", "irq") /\ down = << >> /\ Works /\ UNCHANGED n
     \/ LoopStep("down", "down") /\ down # << >> /\ NotReady /\ UNCHANGED n
     \/ LoopStep("down", "read") /\ down # << >> /\ Ready /\ n' = Len(down)
  /\ UNCHANGED <<pin, chipVars, up, down, buffer, cancelled, app, histVars>>

ReadDown ==
  /\ LoopStep("read", "send") /\ Works
  /\ buffer' = First(down, Least(Block, n)) /\ down' = Rest(down, Least(Block, n)) /\ n' = 0
  /\ UNCHANGED <<pin, chipVars, up, cancelled, app, histVars>>

(* The result of iChipIoWriteRegBlock is not looked at. *)
WriteBlock ==
  /\ LoopStep("send", "down")
  /\ \/ Works /\ tx' = tx \o buffer
     \/ Fails /\ UNCHANGED tx
  /\ UNCHANGED <<pin, rx, busy, up, down, buffer, n, cancelled, app, histVars>>

(* read, write and delay_ms are cancellation points, with which each way   *)
(* from "down" begins or ends; the accesses to the chip are not.           *)
Cancelled ==
  /\ cancelled /\ loop \in {"pause", "write", "down", "read"} /\ loop' = "ended"
  /\ UNCHANGED <<pin, chipVars, up, down, buffer, n, cancelled, app, histVars, errors>>

pvSerialThread ==
  \/ CheckIrq \/ CheckBusy \/ CountRx \/ ReadBlock \/ Pause \/ WriteUp
  \/ CheckDown \/ ReadDown \/ WriteBlock \/ Cancelled

-----------------------------------------------------------------------------
(* The UART and the line *)

LineIn ==
  /\ heard < MaxIn /\ app # "deleted"
  /\ heard' = heard + 1 /\ rx' = Append(rx, heard')
  /\ UNCHANGED <<pin, tx, busy, up, down, loopVars, cancelled, app, got, asked, wired, attrs, errors, flushed>>

LineOut ==
  /\ tx # << >>
  /\ wired' = Append(wired, Head(tx)) /\ tx' = Tail(tx)
  /\ UNCHANGED <<pin, rx, busy, up, down, loopVars, cancelled, app, heard, got, asked, attrs, errors, flushed>>

Configured ==
  /\ busy /\ busy' = FALSE
  /\ UNCHANGED <<pin, rx, tx, up, down, loopVars, cancelled, app, histVars, errors>>

-----------------------------------------------------------------------------
(* The application *)

Idle == app = "idle" /\ loop # "overrun"

AppWrite ==
  /\ Idle /\ asked < MaxOut
  /\ asked' = asked + 1 /\ down' = Append(down, asked')
  /\ UNCHANGED <<pin, chipVars, up, loopVars, cancelled, app, heard, got, wired, attrs, errors, flushed>>

AppRead ==
  /\ Idle /\ up # << >>
  /\ got' = Append(got, Head(up)) /\ up' = Tail(up)
  /\ UNCHANGED <<pin, chipVars, down, loopVars, cancelled, app, heard, asked, wired, attrs, errors, flushed>>

(* iChipIoSerialSetAttr writes the baud rate, then eRegSerCr.  It returns   *)
(* at once when there is nothing to change, when what is asked is illegal  *)
(* (the baud rate is written by then) or when an access other than the     *)
(* last one fails; an access that fails may have reached the chip.         *)
iChipIoSerialSetAttr ==
  /\ Idle /\ attrs < MaxAttrs /\ attrs' = attrs + 1
  /\ \/ Works /\ busy' = TRUE /\ app' = "config"
     \/ (Works \/ Fails) /\ busy' \in {busy, TRUE} /\ UNCHANGED app
     \/ Fails /\ busy' \in {busy, TRUE} /\ app' = "config"
  /\ UNCHANGED <<pin, rx, tx, up, down, loopVars, cancelled, heard, got, asked, wired, flushed>>

(* ... and waits until the chip is configured. *)
AttrWaits ==
  /\ app = "config" /\ loop # "overrun"
  /\ \/ Ready /\ app' = "idle"
     \/ NotReady /\ UNCHANGED app
  /\ UNCHANGED <<pin, chipVars, up, down, loopVars, cancelled, histVars>>

iChipIoSerialFlush ==
  /\ Idle
  /\ \/ Works /\ rx' = << >> /\ tx' = << >> /\ busy' = FALSE /\ flushed' = heard
     \/ Fails /\ UNCHANGED <<chipVars, flushed>>
  /\ UNCHANGED <<pin, up, down, loopVars, cancelled, app, heard, got, asked, wired, attrs>>

(* Faulty variant: the thread is joined and was not cancelled. *)
DeleteNoCancel ==
  /\ Idle /\ app' = "join"
  /\ UNCHANGED <<pin, chipVars, up, down, loopVars, cancelled, histVars, errors>>

vChipIoSerialDelete ==
  /\ Idle /\ app' = "join" /\ cancelled' = TRUE
  /\ UNCHANGED <<pin, chipVars, up, down, loopVars, histVars, errors>>

(* pthread_join returns; the chip is flushed and the terminal closed. *)
Join ==
  /\ app = "join" /\ loop = "ended" /\ app' = "deleted"
  /\ \/ Works /\ rx' = << >> /\ tx' = << >> /\ busy' = FALSE
     \/ Fails /\ UNCHANGED chipVars
  /\ up' = << >> /\ down' = << >>
  /\ UNCHANGED <<pin, loopVars, cancelled, histVars>>

Environment ==
  \/ LineIn \/ LineOut \/ Configured \/ AppWrite \/ AppRead
  \/ iChipIoSerialSetAttr \/ AttrWaits \/ iChipIoSerialFlush
  \/ vChipIoSerialDelete \/ Join

Next == pvSerialThread \/ Environment

(* The thread runs, the chip transmits and ends its configuration; the     *)
(* application reads, and ends what it begins.  AttrWaits may meet a chip  *)
(* that is transmitting each time it asks, but not for ever.               *)
Fairness ==
  /\ WF_vars(pvSerialThread) /\ SF_vars(Cancelled)
  /\ WF_vars(LineOut) /\ WF_vars(Configured) /\ WF_vars(AppRead)
  /\ WF_vars(AttrWaits) /\ SF_vars(AttrWaits /\ app' = "idle") /\ WF_vars(Join)

Spec == Init /\ [][Next]_vars /\ Fairness

-----------------------------------------------------------------------------
(* What is read or sent is what came, unaltered, in order and once: a      *)
(* failure loses bytes but never repeats or mixes them.                    *)
LastOf(s) == IF s = << >> THEN 0 ELSE s[Len(s)]
Up == INSTANCE LossyLink
  WITH Frame <- 1 .. MaxIn, sent <- [k \in 1 .. heard |-> k], got <- got, next <- LastOf(got) + 1
Down == INSTANCE LossyLink
  WITH Frame <- 1 .. MaxOut, sent <- [k \in 1 .. asked |-> k], got <- wired, next <- LastOf(wired) + 1
BridgeLinks == Up!Spec /\ Down!Spec

(* A byte that the line brings is read by the application, with and        *)
(* without a pin, whatever is sent meanwhile, unless an access fails, the  *)
(* chip is flushed, the port deleted or the buffer overrun.                *)
Over == errors > 0 \/ app \in {"join", "deleted"} \/ loop = "overrun"
Read(k) == \E i \in 1 .. Len(got) : got[i] = k
ArrivalsRead == \A k \in 1 .. MaxIn : heard = k ~> Read(k) \/ flushed >= k \/ Over

(* iChipIoSerialSetAttr and vChipIoSerialDelete return. *)
BridgeCallsReturn ==
  /\ app = "config" ~> app # "config" \/ loop = "overrun"
  /\ app = "join" ~> app = "deleted" \/ loop = "overrun"
=============================================================================
