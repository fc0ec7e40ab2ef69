------------------------------- MODULE Parts -------------------------------
(***************************************************************************)
(* The small parts of the library beside each other, each a state machine  *)
(* of its own with its own variables: the output ports, the memory on I2C, *)
(* the vector, the list, the pin of the system files, the remote control,  *)
(* the serial line, the pin of the C++ classes, the leds and the sending   *)
(* threads of the modem.                                                   *)
(***************************************************************************)
EXTENDS Gpio

CONSTANTS
  MemSize, PageSize, Reach, Writes, Reads, Value, TryMax, MaxCalls,
  Element, Growth, MaxSize, Copies, Cell, Edges,
  GlobalChannels, Addresses, Channels, Seeds, MaxSends,
  Bauds, DataBits, Parities, Stops, Flows, Rs485Able,
  PinMode, Pull, AskedMode,
  Setups, Out, Led, LedMode, Color, Dimming, Period, MaxLedCalls,
  Base, Thread, Block, NoBlock, Overhead, Unit, MaxLen, Events

VARIABLES
  mem, call, addr, offset, p, tries, answer, calls,
  twice, data, length, alloc, freed, torn, items, given,
  head, tail, size, next, prev, live, list,
  signal, fileEdge, pending, isopen, useSysFs, valueFd, firstPolling, edge, run,
  irq, irqFd, caller, unseen,
  raw, roll_idx, last_token, fields, heard, sendAsked, earlier, sends,
  ts, rs485, able, lineFd, lineAsked,
  reg, gpioOpen, gpioRoc, pinOpen, sysFs, wanted, held, found,
  setup, chip, shadow, phase, nof_ctrl, leds, todo, ledCall, shows, ledCalls,
  outId, lock, issued, packets, ncalls, pc, fun, packet, packetSize, frameId, iDataWrite, toWrite, wire

memVars == <<mem, call, addr, offset, p, tries, answer, calls>>
vectorVars == <<twice, data, length, alloc, freed, torn, items, given>>
dlistVars == <<head, tail, size, next, prev, live, list>>
pinVars == <<signal, fileEdge, pending, isopen, useSysFs, valueFd, firstPolling, edge, run,
             irq, irqFd, caller, unseen>>
blyssVars == <<raw, roll_idx, last_token, fields, heard, sendAsked, earlier, sends>>
lineVars == <<ts, rs485, able, lineFd, lineAsked>>
modeVars == <<reg, gpioOpen, gpioRoc, pinOpen, sysFs, wanted, held, found>>
ledVars == <<setup, chip, shadow, phase, nof_ctrl, leds, todo, ledCall, shows, ledCalls>>
txVars == <<outId, lock, issued, packets, ncalls, pc, fun, packet, packetSize, frameId, iDataWrite, toWrite, wire>>

M == INSTANCE I2cMem
V == INSTANCE Vector WITH size <- length, list <- items
D == INSTANCE Dlist
P == INSTANCE GpioPin
B == INSTANCE Blyss WITH asked <- sendAsked
S == INSTANCE SerialLine WITH asked <- lineAsked
H == INSTANCE PinModes WITH roc <- gpioRoc
L == INSTANCE LedRgb
X == INSTANCE XBeeTx WITH None <- NoBlock, live <- packets, block <- packet, size <- packetSize,
                          pos <- iDataWrite, left <- toWrite

ASSUME Assumptions ==
  /\ M!I2cMemAssumption /\ V!VectorAssumption /\ D!DlistAssumption /\ B!BlyssAssumption
  /\ H!PinModesAssumption /\ L!LedRgbAssumption /\ X!TxAssumption

-----------------------------------------------------------------------------
MemorySpec == M!MemorySpec

(* The containers are the sequences that their calls describe: the vector  *)
(* has its elements, in a block as large as it says, unless iVectorRemove  *)
(* has moved blocks that overlap, and the list its links in both           *)
(* directions (src/vector.c, src/dlist.c).                                 *)
ContainersKept == V!VectorIsList /\ D!ListIsLinked

ChangeSeen == P!ChangeSeen
HeardIsAsked == B!HeardIsAsked
LineAsAsked == S!LineAsAsked
PinGivenBack == H!PinGivenBack
LedsAsAsked == L!LedsAsAsked
FrameIdsDiffer == X!FrameIdsDiffer
PacketFreedOnce == X!PacketFreedOnce
=============================================================================
