# Models of the SysIo library

SysIo is a C and C++ library for the inputs, outputs and buses of small Linux
boards. This directory holds TLA+ models of the parts of it in which something
can go wrong that a test would hardly reach: threads that share data with the
application, framing state machines fed by a serial line, retries over a radio
link, counts of users, containers. TLC checks the models on small instances;
TLAPS proves the most important results for every value of the constants.

1. [Inventory](#1-the-system-inventory)
2. [Plan](#2-plan)
3. [What each module models](#3-what-each-module-models)
4. [Runs](#4-runs)
5. [Fairness](#5-fairness)
6. [Proofs](#6-proofs)
7. [Known divergences](#7-known-divergences)
8. [Not modelled](#8-not-modelled)

Paths are those of the repository: `src/gpio/dinput.c` is the file of the
library, `include/sysio/dinput.h` its header.

## 1. The system: inventory

| Component | State | Operations | Interacts with | What is hard |
|---|---|---|---|---|
| `gpio/dinput` input port | `ctx[]` per pin (edge selection, handler, udata, edge that occurred), `prev_values`, `run`, `grouped`, group data on the heap | open, close, set/clear handler, set/clear group handler, edge selection, `iDinEdgeOccured` | a polling thread per port; calls user handlers with a mutex held; used by `rf69_sysio`, `chipio/serial` | handlers against removal and freeing of their data, debounce, an early stop of the thread |
| `gpio/gpiopin.cpp` pin (C++) | open flag, layer of access, descriptor of `value`, edge, `_run`, the thread of the routine; mode and pull asked, mode, pull and level held | open, close, `forceUseSysFs`, `setEdge`, `setMode`, `setPull`, read, write, release, attach/detach/wait for an interrupt | sysfs of the kernel, registers; a thread per attached routine | one event in the kernel for several readers, a file closed while the thread polls it, giving the pin back through two layers |
| `gpio/gpio`, `arch/arm/rpi/gpio`, `gpio/doutput` | links to `xGpio`, `roc`, mode and saved mode of each pin, output register | open, close, set mode, release, write, toggle; the same on ports | memory mapped registers; used by the ports | link counts, restoring modes, a port that fails to open |
| `xbee` radio modem | receive state (`bytes_rcvd`, `bytes_left`, packet under construction), frame id | `vXBeeIn`, `iXBeePoll`, `iXBeeOut`, send functions | serial port; user callbacks take ownership of packets | framing in chunks of any size, bad length, bad check sum, allocation failure, ownership of packets, short writes |
| `spi/rf69` radio | mode, received frame, ACK fields, two mutexes | send, send with retry, ACK, receive, interrupt handler, deletion | SPI, `dinput` thread of the interrupt pin | interrupt against sender, lost frames and ACKs, deletion while the thread waits |
| `unix/timer` | epoll set, one thread, callback and state per timer | create, delete, start, stop, set/unset callback, wait | kernel timerfd/epoll | callbacks against deletion, re-registration, a thread that blocks for all timers |
| `tinfo` meter receiver | frame buffer, search for STX, separator, last values | `iTinfoPoll`, handlers of frames and of changes | serial line | frames split between chunks, two frames in a chunk, resynchronisation |
| `libgps` | `xData`, fix count, two mutexes used as event flags, callbacks | new, delete, read, data available, error | gpsd, a thread that reads it | the report is shared without a lock; events told by unlocking |
| `radio` AX.25 | receive buffer, check sum, `sync`, `escape`, `frmRecv` | send, poll, read, clear | serial port | byte stuffing, a bad frame that blocks reception, frames that are too long |
| `radio` TNC | state of the receiver, `rxbuf`, check sum | write, poll | terminals with queues of the kernel | messages cut by errors and flushes |
| `chipio` serial bridge | buffer of the thread, registers of the chip | new, delete, attributes, flush | `dinput`, I2C, pseudo terminal | the thread and the application share the chip; accesses fail in the middle of a turn |
| `i2c` memories | offset, I2C address of the block | open, close, read, write | I2C bus | the chip does not answer while it programs; pages; the offset is split between two bytes and the address |
| `gpio/blyss` | frame, rolling code, token | frame fields, send | output port, delay | fields that share bytes, counters that wrap |
| `dlist`, `vector` | cells and links; array with its capacity | insert, remove, replace, resize, clear | `vector` holds the leds of `tlc59116` | empty and single element cases, growth, who frees an element |
| `ledrgb`, `i2c/tlc59116` RGB leds | copies of the registers of the controllers, leds | open, close, add a led, modes, colours, dimming, blinking of leds and groups | I2C bus; a reset is for all the controllers of a bus | outputs that share registers, writes that fail in the middle of a call |
| `unix/serial` serial line | flags of termios, RS485 mode of the driver | open, close, each setting alone or all | kernel | flags and modes that former settings or programs left |
| `pwm` | duty | set, open, close | registers | little |
| sensors and drivers (`hih6130`, `adc`, `gp2`, `iaq`, `rtc`...) | shadow registers | register read and write | `i2c`, `spi` | mostly pure I/O |
| `unix/log`, `clock`, `delay`, `scheduler`, `crc`, `string` | log mask | wrappers of system calls, pure functions | kernel | little state |

`3rdparty/` (modbus, ssdv), `python/`, the Arduino compatible wrappers, `demo/`,
`utils/` and the build files are not modelled.

How the parts interact:

- **Threads.** `xDinOpen` starts one polling thread per port, the first
  `iTimerSetCallback` the one thread of all timers, `attachInterrupt` a thread
  per pin; `gps` and `chipio/serial` have a thread each. Handlers of the user
  run in these threads. `rf69` has no thread of its own: its interrupt handler
  runs in the polling thread of the `dinput` port of the pin DIO0.
- **Calls by the application.** `xbee`, `tinfo`, `tnc` and `ax25` do their work
  inside a poll function that the main loop must call; their handlers run in it.
- **Ownership.** A packet received by `xbee` belongs to the handler that gets
  it; a packet to send belongs to `iXBeeOut` when it succeeds and to its caller
  when it fails. The data of a `dinput` group belong to the port. An element
  belongs to its vector until it is replaced.
- **Shared objects.** There is one `xGpio` for all ports of the process; its
  last close gives the pins back.

What makes each component correct:

| Component | Properties |
|---|---|
| dinput | a handler runs only while it is installed and only on data that are allocated; the group memory balances; a level that settles is served; edges alternate and are kept until they are read; closing returns |
| pin (C++) | a change that the kernel notifies while somebody waits for it is seen by somebody; the pin is given back as it was |
| serial line | every setting is the one asked, whatever the line had before |
| RGB leds | every output shows what the last call asked, unless it failed, whatever is done to the leds beside it |
| gpio, output ports | the modes of the pins come back with the last close; an open port drives its pins whatever others open and close |
| xbee reception | every packet sent reaches its handler once, in order, however it is cut; no byte is stored or read outside a buffer; packets are freed once |
| xbee transmission | a packet is written whole; frame numbers differ; packets are freed once |
| rf69 | what is sent is what was given; a reported packet is whole and stable; an acknowledgement is reported once; every call returns |
| timer | an expiration is served once and eventually; the thread stays in its array; what is watched has a callback |
| tinfo | every good frame is handed over once, in order; a handler of changes is called exactly for the changes |
| gps | no part of a copy is older than the fix that was told; no event is lost; deletion ends the thread |
| tnc, ax25 | what is handed over was sent, unaltered, once and in order; after a fault the next frame arrives |
| chipio serial | bytes cross the bridge in order, in both directions; what arrives is read; calls return |
| i2c memories | a memory across retries, timeouts and errors |
| blyss | what a receiver hears is what was asked, with a new token |
| containers | the operations are those of a sequence; an element is freed once |

## 2. Plan

Done: `Dinput`, `GpioPin`, `Gpio`, `XBeeRx`, `XBeeTx`, `Rf69`, `Timer`, `Tinfo`,
`Ax25`, `Tnc`, `Gps`, `ChipioSerial`, `I2cMem`, `Blyss`, `Vector`, `Dlist`,
`SerialLine`, `PinModes`, `LedRgb`; `Radio` and `Parts`, which put the small ones
beside each other; the abstract specifications `FrameLink` (a link that loses
nothing), `LossyLink` (a link that may lose) and `FlatMemory`; proofs about all of
them (section 6).

What could follow, the most important first:

1. Two `Rf69` nodes with a medium that loses and duplicates frames, against an
   abstract acknowledged exchange ("true only if the peer got the frame"): today
   the frames of the other nodes come from an environment that knows nothing of
   what is sent, and `iRf69SendWithRetry` does not keep such a promise
   (section 7).
2. `Rf69` over `Dinput`, so that the delay of the interrupt thread is the one of
   the debounce, and closing uses the real `iDinClose`.
3. `GpioPin` and `PinModes` with calls of sysfs that fail; the nanopi variant of
   `Gpio`.

## 3. What each module models

Every module has a comment at its head, one action per operation and, just
before some of the definitions, a *faulty variant*: the same definition with a
plausible mistake. For each property `PROJECT.json` names the variant that
breaks it; this shows that the property depends on that piece of the code.

### Dinput: `src/gpio/dinput.c`

| Model | Code |
|---|---|
| `level` | the electrical level of each pin, changed at any time by `Toggle` |
| `run`, `grouped`, `prev` | `xDinPort.run`, `.grouped`, `.prev_values` |
| `edge`, `callback`, `udata`, `edgeOccurred` | the fields of `ctx[p]`; a mask of edges is a set |
| `grpLive`, `pinLive` | the blocks `xDinGrpData` and `xDinPinData` that are allocated; `malloc` gives any free address, so that a stale pointer may point to a block used again |
| `poll`, `values`, `diff`, `bit` | position and locals of the thread `pvDinPoll` |
| `called`, `arg` | the handler that runs and its pointer |
| `app`, `pin`, `grp`, `want`, `after` | position and locals of the call of the application |
| `served` | history: pins whose last edge that was served is a rising one |

The thread: `PollRead` and `PollDebounce` (two readings, `DINPUT_POLL_DELAY` = 20 ms apart),
`PollSkip`, `PollRecord` (under `read_mutex`), `PollDispatch` and
`HandlerReturn` (under `write_mutex`), `PollEndScan`, `PollStop`. A handler that
returns another value than 0 stops the thread and leaves the loop with `diff`
unserved, as in the code. The application: `xDinOpen`, `iDinSetCallback`,
`iDinClearCallback`, `iDinSetEdge`, `iDinEdgeOccured`, `iDinSetGrpCallback`,
`iDinClearGrpCallback`, `iDinClose`; those that go through all pins are cut into
one step per pin, since the code takes a mutex per pin. `Locked(p)` is
`write_mutex` of pin p held by a handler that runs. A handler may call
`iDinEdgeOccured`; handlers that call functions taking `write_mutex` are left
out (they wait for themselves, section 7).

### XBeeRx: `vXBeeIn` and `iXBeePoll` of `src/xbee.c`

`line` holds the bytes not read yet. `iXBeePoll(n)` takes n of them as `chunk`;
then every step is one byte, in the `switch` on `bytes_rcvd` (`rcvd`), with
`bytes_left` (`left`), both of 8 bits in the code and of `Base` values here.
`InLengthRejected` is the `continue` of the code that takes a byte without
counting it. When `vXBeeIn` reads memory that is not that of the packet under
construction (`~ Sound`), the outcome is any: any byte, a good or a bad check
sum, any type. `CheckPassed` is `iXBeeRecvPktCB`, `HandlerReturn` the return of
the user's handler, `Drop` the freeing of a packet that was not processed. The
handler frees its packet, as the API asks. What may go wrong is a set `faults`
that each initial state chooses from `FaultSets`: noise between packets, wrong
check sums, wrong lengths, `malloc` that fails, a handler that returns -1. The
properties that hold for some of them only say so in their hypothesis
(`Allocated`, `Taken`).

### XBeeTx: the send functions of `src/xbee.c`, `src/xbee1.c`, `src/xbee2.c`

`Call` is the allocation and the size, `LockId` and `UnlockId` are
`ucXBeeNextFrameId` (the number is read before the mutex is released), `Write`,
`OutDone` and `WriteError` are the loop of `iXBeeOut`. Byte i of a packet is the
number i, and `wire` records which indexes reached the line: the index of the
second `write` is computed as in the code, in packets of `Unit` bytes. `Events`
says whether a `write` may take a part of what it is given or fail.

### Rf69: `src/spi/rf69.c`, `src/spi/rf69_sysio.c`

One node. `fifo` and `pin` are the chip's FIFO and DIO0; `mode`, `hdr`, `data`
are `rf->mode`, `rf->hdr`, `rf->data`; `rcv` is the holder of `rcv_mutex`,
`spi` says that `vRf69Delete` holds `spi_mutex`. A frame that is heard goes to
the FIFO and queues an interrupt (`irq`), if the filter of addresses lets it
pass: `promiscuous` is set by `iRf69Open` and changed by `SetPromiscuous`.
`IsrCall` ... `IsrDone` is `iIrqCallback` with `vRf69Isr`, one step per access of
a register; without `PayloadReady` it does nothing. The thread polls every few
milliseconds: an interrupt is served as late as it wants.
`Begin(c, to)` starts a call; `ChannelFree`, `ChannelBusy`, `ChannelTimeout` are
`iRf69WaitToSend`, `Standby` ... `EndTx` are `iRf69SendFrame`, `PollAck` and
`PollTimeout` the loop of `iRf69SendWithRetry` and `iRf69WaitAckReceived`,
`DeleteLockSpi` ... `DeleteJoin` `vRf69Delete`. The functions that send do not
take `rcv_mutex`, as in the code. `clean` is the history of `iRf69CanSend`: it
looks at the packet in store only, and `clean` is false when it put the radio in
standby while a heard frame was still in the FIFO or in the hands of `vRf69Isr`.
`env`, chosen by the initial state, says what the node meets: the functions that
are called and the frames that the other nodes send.

### Timer: `src/unix/timer.c`

`open`, `armed`, `periodic`, `count`, `reg` belong to the kernel (timerfd and
epoll set); `live`, `active`, `callback` to `xTimer`; `thread`, `ev`, `i`,
`ret`, `todo` are the locals of `pvThread`. `EpollWait` fills the first entries
of `ev` and leaves the others, `LoopRead` enters a `read` that blocks if the
timer has nothing, `ReadDone` overwrites `ret`, the bound of the loop, with the
size that was read, `Serve` calls the callback once per expiration. Calls that
do two things the thread can see are cut in two (`EpollAdd`, `ClearCallback`,
`Free`). No mutex protects anything, as in the code. Durations are abstracted:
an armed timer may expire at any time.

### Tinfo: `src/tinfo.c`

A symbol of the line is STX, ETX, EOT or a group `LF label data checksum CR`.
`Search` and `Collect` are the two halves of `prviProbeBuffer`, `AfterEot` the
treatment of EOT, `prviProbeFrame` the check sums, `prviSplitFrame` with
`Groups`, `Parse`, `Exceptions` and `CallsFor` the cutting of the text into
groups, their reading and the choice of the handlers, `Remember` the values kept from frame to frame. Of the fields of
a frame only those that select a handler are kept. An application that polls in
time (`Prompt`) gets chunks with one control character at most (`InTime`).

### Ax25: `radio/src/ax25.c`

A symbol of the line is a flag, a reset, an escape, a byte, an address, a
control field or a check sum; the check sum of a sequence is that of no other.
`Send` is `iAx25Send` with `prvvPutChar` (`PutChar`) and the addresses of
`prviSendCall` (`Path`); `SendIllegal` is the call that finds an illegal
character and has already sent the beginning of a frame. The line loses (`Lose`)
and adds (`Add`) symbols. `PollFlag`, `PollReset`, `PollEsc`, `PollByte` are the
`switch` of `bAx25Poll`, with `buf`, `sync`, `escape` and `frmRecv`; a frame
longer than `BufLen` ends the synchronisation. `Read` is `iAx25Read` with
`prviDecode`; `ReadInvalid` is the same call on a frame that is not UI, followed
by the `iAx25Clear` that the application must then make (`Clears`). `due` is the
history of the frames that nothing disturbed since they were sent.

### Tnc: `radio/src/tnc.c`

`outq` is the queue of the kernel at the sending end, `inq` at the receiving end.
`iTncWrite` flushes both queues of its own terminal before it writes a message,
so it may erase the end of its previous message; `WriteBack` is the write of the
other end, which erases what that end has received and not read; `WriteError`
and `ReadError` are the errors of `write` and `read`. `PollSoh` ...
`PollDigit` are the `switch` of `iTncPoll`, one character at a time, with the
states of the code; the bytes of the message and of the check sum are pairs of
hexadecimal digits.

### Gps: `src/libgps/gps.c`

`data` is `xData` in two parts, which `gps_read` writes (`ReadBegins`,
`ReadEnds`) and `iGpsRead` copies (`iGpsRead`, `iGpsReadEnds`) one after the
other, since nothing protects it. `fixFree` and `errorFree` say that `xFixMutex`
and `xErrorMutex` are unlocked: `Tell` unlocks, `bGpsDataAvailable` and
`iGpsError` are the `trylock` that takes the event. `TestCallback`, `Call` and
`CallbackReturns` are the call of a callback, which the application may remove in
between (`SetCallback`): the pointer is read twice, and the program may end
("crashed"). `Renew` is the timeout of `gps_waiting`. `vGpsDelete` cancels the
thread and `Join` waits for it; it ends (`Cancelled`) where it calls gpsd.

### ChipioSerial: `chipio/src/serial.c`

`rx`, `tx` and `busy` are in the chip; `up` and `down` are the two directions of
the pseudo terminal; `loop`, `buffer` and `n` the locals of `pvSerialThread`.
`CheckIrq` ... `WriteUp` are its first half (interrupt pin or not, chip busy,
count, blocks of `Block` bytes, `write` to the terminal), `CheckDown` ...
`WriteBlock` the second. Every access to the chip may fail, with or without
having reached it. `iChipIoSerialSetAttr` with `AttrWaits`,
`iChipIoSerialFlush`, `vChipIoSerialDelete` and `Join` are the calls that share
the chip with the thread. The specification is two copies of `LossyLink`, one
for each direction.

### Gpio: `src/gpio/gpio.c`, `src/arch/arm/rpi/gpio.c`, `src/gpio/doutput.c`

`pin[g]` holds the mode register, `pinmode` and `pinmode_release`; `link` and
`roc` are those of `xGpio`. `iArchGpioSetMode` keeps the mode to come back to at
the first change only, `iArchGpioRelease` goes back to it, `iGpioClose` releases
all pins at the last close if `roc` is set. `xDoutOpen`, `xDoutOpenError` (a pin
that is not valid after some that are), `iDoutClose` and the operations on one
or all outputs are those of the ports, with outputs active high or low.

### GpioPin: class `Pin` of `src/gpio/gpiopin.cpp`

`pending` is the one event that the kernel keeps for the open file `value`.
`attachInterrupt` prepares the pin (`Prepare`), reads the event of before
(`ClearPending`) and starts the thread (`StartThread`), whose descriptor is a
copy (`irqFd`) of the one of the pin. `irqThread` is `WhileRun`, `PollReady` or
`PollTimeout`, `IsrRead`, `IsrReturns`. `waitForInterrupt` with `FirstPolling`,
`WaitReturns`, `WaitTimeout`; `close` and `forceUseSysFs(false)` close the file
(`Disable`) and then give the pin back (`Unexport`). A descriptor that was
closed under the thread is ready or not, as it pleases. `unseen` is the history
of a notified change that nobody has read yet.

### I2cMem: the memories of `src/i2c/i2c.c`

The cells of the chip, the call of the application and `xI2cMem` (`offset`, the
bits of the offset in the I2C address, `io_try`). `prviSetOffset` splits the
offset; `WritePage` writes up to a page, and the chip wraps at the end of its
page (`Programmed`); `NotReady` is `EIO`, retried `TryMax` times, `OtherError`
ends the call. `FlatMemory` is what a memory promises.

### Blyss: `src/gpio/blyss.c`

`raw` is the frame of seven bytes. The loops of `vSetBits` and `usGetBits` go
from the first nibble of a field to its last one, by a byte where the field has
the whole of it; the model says for each byte of the frame what its turn of the
loop does with it. The setters of fields are calls of them with the positions of
the code. `iBlyssSend` sets the rolling code and the
token, sends the frame some times and goes to the next ones; `iSendFrame` gives
the pulses (level and time). `Decoded` is a receiver of the protocol, which is
no part of the library.

### PinModes: class `Pin` of `src/gpio/gpiopin.cpp`, `src/gpio/gpio.cpp`

`reg` is the pin (mode, pull, level of the output), which another program changes
while it is closed. `wanted` is `_mode` and `_pull`, `held` is `_holdMode`,
`_holdPull` and `_holdState`. `WriteMode` is `writeMode` by the layer in use:
sysfs knows inputs and outputs only and sets an output low, a device refuses the
mode that it does not have ("bad": it throws, and the call ends there). `open`,
`OpenAgain` after it threw, `close`, `forceUseSysFs`, `release` and the setters
are the functions of the code, `Unexported` what the kernel may do to a pin that
sysfs leaves. `found` is the history of what the pin was. The interrupts of the
same class are in `GpioPin`; what the two share is `_isopen` and `_useSysFs`.

### SerialLine: `src/unix/serial.c`

`ts` has the flags of termios that the library sets, `rs485` those of the driver,
which has this mode or not (`able`). `iSerialTermiosSet...` and
`iSerialTermiosGet...` change and read the flags; `iSerialSet...` read termios,
change it and write it back; `iSerialSetAttr` and `iSerialOpen` set everything
and then the flow control once more, with the RS485 mode. The line keeps its
flags when it is closed.

### LedRgb: `src/ledrgb.c`, `src/i2c/tlc59116.c`

`chip` are the registers of the controllers, `shadow` the copies `ctrl[].regs`.
A call (`iLedRgbAddLed`, `iLedRgbSetGrpMode`, ...) is the list `todo` of the
registers it writes; `WriteOk` changes the copy and the register, `WriteFails`
changes the copy, may or may not have changed the register, and ends the call,
which removes the led that was being added; but `iClrError` goes on with the next
controller when the second write for one fails (`GoesOn`). A register is cut into the fields of
the outputs (`ModeCell`, `PwmCell`) and those that all share. `iSwReset` resets
all the controllers of a bus. A group of one led stands for the functions on one
led. `shows` is the history of what each output may show.

### Vector, Dlist: `src/vector.c`, `src/dlist.c`

`Vector` has the block (`data`, `alloc`), where cells that `realloc` gave are
junk until they are written, and counts how often `fdestroy` had each element.
`iVectorRemove` moves the elements that follow by `memcpy`. One element moves;
two or more are blocks that overlap (`Overlaps`), which C leaves undefined: a
cell then gets its neighbour or an element from further on (`Sources`), `torn` is
set and the model stops.
`Dlist` has the cells and their two pointers; `malloc` gives again any cell that
was freed, with what it held. Both keep the `list` that the calls describe.

### FrameLink, LossyLink, FlatMemory

`FrameLink`: `sent` grows, `got` follows it in order and to the end. `LossyLink`:
`got` may skip frames but never repeats, alters or exchanges them; it has no
liveness, what must arrive is said by properties of the links. They are refined
by `XBeeRx` and `Tinfo` (`FrameLink`), by `Ax25`, `Tnc` and both directions of
`ChipioSerial` (`LossyLink`), and by `I2cMem` (`FlatMemory`).

### MC modules

`MCDinput`, `MCXBeeRx`, `MCXBeeTx`, `MCRf69`, `MCTimer` extend their component
and give its constants. Three more check several small components in one run
each: the initial state chooses the component that runs and the others stay as
they are: `MCSerial` (the bridge, the meter), `MCRadio` (AX.25, TNC, GPS) and
`MCParts` (GPIO, I2C memory, vector, list, interrupts and modes of a C++ pin,
Blyss, serial line, RGB leds, transmission to the XBee modem). Fairness there is that of the component that was
chosen. `MCRadio` extends `Radio` and `MCParts` extends `Parts`: these two have the
components as instances, each with its own variables, and the properties and the
assumptions under names of their own; the theorems are about these definitions.

## 4. Runs

| Run | Shows |
|---|---|
| `dinput` | all properties of the port under every interleaving of thread and application, safety and liveness |
| `dinput_stale_data` | *violation*: `pDinCallbackData` returns a freed pointer after `iDinClearGrpCallback` |
| `xbee_rx` | with noise and bad check sums, the handlers get the packets sent, once, in order, accesses stay inside the buffers, packets are freed once; with every fault at once no byte is stored outside the packet and no block is lost |
| `xbee_rx_stale` | *violation*: a length above `XBEE_MAX_DATA_LEN`, the first thing received, makes `vXBeeIn` check a packet while `in.packet` is NULL |
| `xbee_short` | *violation*: after a `write` that takes part of a packet, `iXBeeOut` goes on outside the packet and says that it was sent |
| `rf69` | whatever the delay of the interrupt thread, promiscuous or not: acknowledgements of other nodes are reported once, a reported packet stays as it is, calls return; unless `iRf69CanSend` left a heard frame unserved, packets are whole and what is sent is what was asked |
| `rf69_race` | *violation*: the interrupt of a heard frame is still pending when `iRf69CanSend` finds the channel free; `iRf69SendFrame` writes behind that frame in the FIFO, the chip transmits the heard frame and the call returns true |
| `timer` | two timers, every interleaving of calls and thread: the thread stays in `ev`, what epoll watches has a callback, expirations are served at most once |
| `timer_late` | *violation*: the thread waits in `read` for one timer while others expire |
| `serial` | the bridge loses bytes only when an access fails or the chip is flushed, never repeats or mixes them, reads what arrives, and its calls return; the meter's good frames are handed over once and in order, and exactly the changes are reported |
| `radio` | over lines that lose, add and cut, AX.25 and TNC hand over only what was sent, once and in order, and after a fault the next frame arrives; the client of gpsd is told of every fix and error, copies nothing older than what it was told, and its deletion returns |
| `parts` | pins are given back as they were and ports drive theirs; vector and list are the sequences of their calls; an I2C memory is a memory across retries and errors; a change on a pin that interrupts is seen; what is heard of the remote control is what was asked; a serial line has the settings asked; a C++ pin is given back as it was, by registers and by sysfs; every output of an RGB led shows what was asked although writes fail; threads that send to the XBee modem at the same time get numbers in turn and free their packets once, with short and failing writes |

Bounds, and why they are enough:

- **dinput.** Two pins: one whose handler runs and one that is scanned next or
  is being installed; one is active high, the other low. One group address:
  every new group gets the address of the one just freed, the hardest case for
  stale pointers. No bound on the number of calls or toggles: the state space
  is finite.
- **xbee_rx.** `Base` = 8, `MaxData` = 3: the payloads have one to three bytes,
  types with and without a handler, and data equal to the start byte. Three
  packets (two with every fault) are enough for a bad one between good ones.
  Chunks of up to three bytes cut a packet at every place, and hold the end of
  one and the beginning of the next. The length `Base + 1` has a high byte that
  is not 0. Sizes up to `MaxData` + 4 do not wrap in the bytes of the model, as
  those up to `XBEE_MAX_DATA_LEN` + 4 do not in 8 bits.
- **xbee_rx_stale.** The only fault is the wrong length, and malloc does not fail:
  lengths of `MaxData` + 1 and above.
- **xbee_short.** Packets of one to three bytes of two bits, `Unit` = 4.
- **rf69.** Two calls and two frames heard: a frame before or during the first
  call and one later; two peers, so that a frame may be for another node.
  Retries 2: one failure, one success. No bound on the delay of the thread. Three
  scenarios (`MCEnvs`) share out the calls: reception with the filter of
  addresses turned on and off, sending and acknowledging, and the rest.
- **timer.** Two timers, `MaxEvents` = `ReadSize` = 2: the loop runs over
  entries that `epoll_wait` did not write, as in the code where `read` gives 8
  and `MAX_EVENTS` is larger. Two expirations of each timer.
- **serial, bridge.** Blocks of two bytes and two bytes in each direction: the
  second byte comes before, during or after the turn of the first. One failed
  access, at any place, one change of attributes, flushes without bound. With
  more than `Block` bytes in one turn the buffer is overrun (section 7); the run
  is bounded so that this does not happen.
- **serial, meter.** Three frames out of four kinds that change each value that
  a handler watches, chunks of up to three symbols. `Prompt` is TRUE: no chunk
  holds two control characters (section 7 says what happens otherwise).
- **radio, AX.25.** Three frames: with no and one repeater, with a flag, a reset
  and an escape in their text, not UI, and one too long for a buffer of eight
  symbols; one fault of the line or one call that fails. `MaxLine` = 3: a frame
  may be sent before the one before it was read.
- **radio, TNC.** Two messages of one byte and one fault: error of read or write,
  character lost or added, flush by either end.
- **radio, GPS.** Two reports or errors, two copies, two changes of callbacks: a
  copy before, during and after the second report.
- **parts.** GPIO: two pins, one of them with PWM, three ports (active high,
  active low, one that cannot be opened), one more user. Memory: eight cells,
  pages of two, two blocks with different I2C addresses; four calls: two writes
  to one page and what is read of it. Vector: blocks of two, five elements, at most
  four at a time: the block grows twice and is cut in between, and a removal has
  none, one or more elements behind it. List: four cells. Pin: no bound, the
  state space is finite. Blyss: global channels and addresses with different
  nibbles, two channels, two sendings, at the second of which the token has wrapped
  at 256. Serial line: two rates and one that does not exist, two of the four sizes, every parity,
  flow control and stop bits, values that are refused, every state of the flags at
  first; the number of calls is not bounded. Modes of a pin: three modes of which
  sysfs knows two, one that is refused, two pulls; no bound on the calls. Leds: one
  controller, two on a bus, two on two buses; leds on one controller or on two, with
  outputs 0 and 3 in one register and 4 in another; four calls: a led is added, a
  call for it fails, another led or call writes the same register. Transmission to
  the modem: two threads, two blocks, packets of one or two bytes, four of the send
  functions (`iXBeeZbSend` leaks, section 7), `Base` = 4: numbers are 1 to 3 and
  wrap at the fourth call.

`CHECK_DEADLOCK FALSE` stands in all runs but those of `Dinput` and `Timer`: once
the bounded number of packets, calls, frames or reports is used up these systems
really have nothing left to do (and a radio, a bridge or a GPS client that was
deleted stops).

## 5. Fairness

- `Dinput`: `WF(PollNext)`, the polling thread is scheduled and its handlers
  return; `WF(AppNext)`, a call that has begun goes on. Nothing obliges the
  application to begin a call, nor the inputs to settle.
- `XBeeRx`: weak fairness of polling and of the processing of what was read: the
  API asks the main loop to call `iXBeePoll`. The modem need not send.
- `Rf69`: `WF(Isr)` and `WF(Run)`, both threads are scheduled. The waits of the
  code are bounded by delays: `SF(ChannelTimeout)` (`iRf69WaitToSend`,
  `RF69_CSMA_TIMEOUT_MS`), `SF(PollTimeout)` (the wait for an acknowledgement) and
  `WF(EndTx(FALSE))` (the wait for the end of transmission). They are strong
  where the loop around them has steps of its own: time passes whatever is
  heard in between.
- `Timer`: `WF(pvThread)`, `WF(AppNext)`. A callback returns.
- `Tinfo`: weak fairness of the main loop that reads the line.
- `Ax25`, `Tnc`: `WF(Receive)`, the main loop polls and reads; for `Tnc` also
  `WF(Transmit)`, the line is not stopped. Nobody need send.
- `Gps`: weak fairness of each step of the thread (`gps_waiting` and `gps_read`
  return, a callback returns) and of the steps that end a call of the
  application; `SF(Cancelled)`: a thread that was cancelled ends at the next of
  its calls of gpsd. `SF(bGpsDataAvailable)` and `SF(iGpsError)`: the
  application asks again and again, whatever it does in between; `EventsLearnt`
  speaks of such applications only.
- `ChipioSerial`: the thread, the UART, the configuration of the chip and the
  reading of the application are weakly fair. `SF(Cancelled)` as above.
  `SF(AttrWaits /\ app' = "idle")`: the wait of `iChipIoSerialSetAttr` asks the
  chip every few milliseconds and the chip is ready between two blocks of the
  thread, so it does not find it transmitting for ever. Nothing obliges
  accesses to fail or to work, nor the line to bring bytes.
- `GpioPin`: `WF(irqThread)` and `WF(CallNext)`: the thread runs and what the
  application has called goes on. That `waitForInterrupt` times out is not
  assumed.
- `XBeeTx`, `Gpio`, `I2cMem`, `Blyss`, `Vector`, `Dlist`, `SerialLine`, `PinModes`,
  `LedRgb`: none, their properties
  are safety properties.

In the MC modules that hold several components these conditions apply to the one
that was chosen, so that the others, which do not move, do not make the
specification void.

## 6. Proofs

`DinputProofs`, `XBeeRxProofs`, `XBeeTxProofs`, `Rf69Proofs`, `TimerProofs`,
`SerialProofs` (bridge, tele-information), `RadioProofs` (GPS, AX.25, TNC) and
`PartsProofs` (output ports, modes of a pin, serial line, list, vector, I2C
memory, leds, remote control, interrupts of a pin) hold the theorems,
with one lemma per part of the invariant or per action, and in it one step per
action or per conjunct.

**Dinput**, for any number of pins, activation levels and heap. `IInv` is
`TypeOK`, `PollInv`, `ServedInv`, `GroupInv` and `EdgeInv`. The properties are
not inductive alone: that the group handler's data are allocated
(`HandlerDataLive`) rests on knowing, at each point of the loops that build and
take down a group, which pins already have their data (`Allocated`) and which
still have the handler (`Installed`), and on the mutex that keeps the loop from
the pin whose handler runs. That edges alternate rests on `ServedInv`: during a
scan the pins still in `diff` have the edge of `prev_values` as their last one,
the others that of the new values. That an activity is not missed (`EdgeKept`, a
property of the steps) is that `PollRecord` writes an edge and not 0 when both
are selected, and that no step but `iDinEdgeOccured` and opening writes 0.
Proved: `TypeOK`, `HandlerDataLive`, `NoHandlerAfterClear`, `NoLeak`,
`GroupUniform`, `PortLive`, `EdgesAlternate`, `EdgeKept`.

**Gpio**, for any set of pins, of modes and of ports. `ModesRestored` needs to
know, as long as a link is open, that each pin either has the mode of before or
keeps it in `pinmode_release`; `PortsDrive` that the open ports are disjoint and
that the links are the open ports and the users.

**XBeeRx**, for any base, size and set of faults. `BuildInv`: between two bytes
of the body, what was received and what is left are together the size of the
block that was allocated; so the next byte has room (`WriteInBounds`), whatever
the line delivers. With the state of each block (under construction, handed
over, left behind by a bad check sum) it gives `NoLeak`. Without a wrong length
or a `malloc` that fails, `PacketInv` says that the length of a packet is that
of its block from the byte of the length on, and that the block stays allocated
until it is handed over; hence `PacketOwned`. `StreamInv` labels the state of
the receiver with the packet that the line is delivering and how much of it was
read: what is left of the chunk, and then the line, lead on from this label,
byte by byte, to the packets that follow. Hence every step hands over nothing or
the next packet that was sent for a handler, unaltered (`PacketsInOrder`: the
safety part of `FrameLink`, under `Taken`), however the chunks cut the packets.
`EnvAssumption`: payloads have 1 to `MaxData` bytes.

**XBeeTx**, for any number of threads. `IdInv` relates the mutex, `frame_id` and
the last number given (`FrameIdsDiffer`). `HeapInv` is the ownership of packets;
`PacketFreedOnce` needs the assumption `NoForgetting`, that `iXBeeZbSend` meets
no error of `write`; writes may be short. Nothing is proved of what reaches the
line: it is wrong as soon as a `write` is short (run `xbee_short`), and without
that there is nothing to say. The theorems are about the instance `X` of `Parts`.

**Rf69**, for any peers, calls, frames and delays, promiscuous or not. An
acknowledgement of another node is reported once (`AcksOnce`): the ones heard and
not reported yet are at least those that `iRf69AckReceived` may still find, in
store, in the FIFO or left in `rf->data` (`AckInv`), and finding one leaves
reception. A radio that receives with nothing in store has no frame of its own in
the FIFO (`OwnInv`). `PacketIsStable` rests on the radio being in standby, where
the polling thread turns back at its first test, even if it is late
(`StandbyInv`). `PacketIsWhole` and `SentWasAsked` are about calls that
`iRf69CanSend` began with nothing heard left unserved (`clean`), and allow any
delay and any interrupt after that: until the end of `iRf69SendFrame` the radio
hears nothing, so `vRf69Isr`, if it comes at all, finds no payload and copies
nothing over `rf->data` (`CopyInv`); the FIFO has but the frame that
`iRf69SendFrame` wrote, and what raises the pin while it waits is that frame
(`FifoInv`). Without `clean` the code does otherwise (run `rf69_race`).

**Timer**, for any number of timers and any size of `ev` not below what `read`
returns (`TimerAssumption`; 20 and 8 in the code). `ServeInv`: for each timer,
what was served, what the kernel counts and what the loop on `j` still has to
serve are together no more than its expirations; hence `ServedOnce`. `LifeInv`
says what holds of a timer in each phase of its life and in the middle of each
call; hence `ArmedIsActive` and `RegisteredHasCallback`. `LoopInv` and the range
of `ret` give `EventInBounds`; with `RegisteredHasCallback` this is
`ThreadSafe`.

**Gps**, for any number of reports: the numbers only grow, and a fix is told
after both parts of `xData` have it; so both parts that are copied later have it
or a newer one (`CopyIsFresh`).

**Ax25** and **Tnc**, for contents of any length, any number of frames, of
repeaters and of faults. Both implement `LossyLink` (`Ax25KeepsLink`,
`TncKeepsLink`, together `LinksAreKept`). The check sum of a frame is that of no
other, so it marks the frame. The invariant: the marks in the buffer of the
receiver, on the line and in the queues of the kernel are, read in that order,
marks of frames sent, in the order in which they were sent, each once and all
after the last frame handed over. Losing, adding, cutting and flushing leave a
part of that sequence (`PartOf`), sending adds one mark at its end, and a frame
that passes the check is the one of its mark (`BodyIsOfOneFrame`,
`DecodedIsTheFrame`), whose mark leaves the way. That escaping a text gives a
sequence of the symbols of its pieces, for any length, is an induction over
data: it is done in `FlattenIsSequence` with the smallest element of a set of
numbers (`SmallestOf`), as no theorem of the library on induction can be used.
That a changed frame never passes the check is part of the model, and an
idealisation of 16 or 32 bits.

**Pins of C++** (`PinModes`), for any modes, pulls and devices. What is held is,
while the pin is open, what the registers had when it was first changed, or
nothing; and what is not held has not changed; in each layer and after each call
that fails (`CloseGivesPinBack`). `PinModesAssumption`: the device has inputs
and outputs, and what is asked is a mode of the device or one that it refuses.

**GpioPin**, for any edges. `ChangeSeen` is liveness and stays with TLC; the
safety it rests on is proved: a change that was notified to somebody who waits,
and that nobody has read, is still in the file `value`, where `poll` finds it
(`ChangeIsKept`). `PinInv` adds that a thread that runs has the file as long as
the pin has it, and that the calls that forget old events
(`attachInterrupt`, the first `waitForInterrupt`) do so while no thread runs.

**SerialLine**, for any rates and settings: `LineIsAsAsked`. The getters are the
inverses of the setters on every state of the flags, and each setter leaves what
the others read.

**Dlist** and **Vector**, for any number of cells, elements and operations
(`ListIsKept`, `ContainersAreKept`). `Dlist`: neighbours in the list that the
calls describe are linked in both directions, and no cell is there twice.
`Vector`: the block holds that list, and `fdestroy` had an element once if the
vector was given it and has it no more, and never otherwise; as long as no element
was removed with two or more behind it (`torn`): what `memcpy` does then is
undefined (section 7). (An application that puts an element twice only appends and
clears, section 7.)

**I2cMem**, for any sizes of the memory, its pages and its blocks: every step is
a step of `FlatMemory` or a stutter (`MemoryIsFlat`), under `I2cMemAssumption`:
writes do not leave a page (for longer ones the code breaks the promise, section
7: the theorem would be false) and nothing leaves the memory. What it covers is
the reading of any length, the retries, timeouts and errors, and the splitting of
the offset. The
invariant says that the offset and the address of the chip are those of the
access, and that what was written is all or nothing of the call.

**LedRgb**, for any controllers, buses, leds, groups and failing writes
(`LedsShowAsked`). After a write that fails, the registers and their copy
differ, and a later write for another led sends the copy; so `LedsAsAsked` is
not inductive. `LedInv` says of each item, in the registers and in the copy,
that it holds what the last calls asked, with what the call under way asks added
(`Fits`); of the call under way, that each item it asks is still to be written
or has already what is asked (`AsksInv`); and that the bit of blinking is set
only after its period and with it in both places (`TodoInv`, `Fresh`).
`LedRgbAssumption`: outputs are 0 to 15, and a led names outputs in use.

**ChipioSerial**, for any size of block and number of bytes, errors and calls.
The invariant says that what is on its way in each direction, read from the
place where it arrives to the place where it leaves, is increasing and lies
between the last byte that came out and the last one that went in; hence every
step is a step of `LossyLink` in both directions or changes nothing of them
(`BridgeIsLossy`: the module implements its abstract specification).

**Tinfo**, for frames of any length, any handlers, number of frames and size of
chunks. `LinkInv`: the line is the rest of a frame and then a frame that nobody
has begun to read; with what is stored, each of the two is a good frame or
nothing for the receiver, and what was sent is what was handed over followed by
these two. So every step hands over nothing or the next good frame
(`FramesInOrder`, the safety part of `TinfoLink`), however the frames are cut and
whatever frames are wrong or interrupted between them. `ReportInv`: `ptec`,
`motdetat` and `demain` are what the last of the frames handed over that said
something said, and each handler of changes was called for the frames that say
something else than those before them, and only for them. Hence
`ChangesReported`, for what handlers are installed. That the groups cut out of
a text are its frame's, and that what is read of them is what the last group of
a label says, are inductions over data, done with the smallest counterexample.
Two hypotheses are limits of the code (section 7): `Prompt` in both theorems, and
`CompleteFrames` in the second: no frame is a short one (ADIR). The run meets
both.

**Blyss**, for any channels, addresses, first tokens and number of sendings. The
arithmetic of the nibbles is done once: what each byte of a frame has after
`vSetBits` (its two nibbles, in a field or not), what `usGetBits` makes of two or
three bytes, that a receiver decodes each byte from its eight pulses, but the
nibble that is not sent (`DecodedIs`). `BlyssInv` says that the fields of `raw` are
those that were set (`Holds`), whatever was set before and after them, and that
what was heard had the fields asked then, a rolling code of the code's list and
a token ten below the next one (`Sent`). Hence `HeardIsAsked`.

What is assumed of the constants is the `ASSUME` of each module; TLC evaluates
it in the runs.

The proofs found flaws of the models that TLC could not see on its instances,
and which are corrected: `CASE` with arms that overlap (`SerialLine`,
`PinModes`), of which TLC takes the first and TLA+ any; a guard of `PinModes`
that bound less than it looked; a wrong check sum that could be the right one by
chance (`XBeeRx`); sizes and outputs that the constants were silently assumed to
respect.

Only model-checked: every liveness property (`SettledLevelServed`,
`CloseReturns`, `CallsReturn`, the fairness of `LinkSpec` and `TinfoLink`,
`NextArrives`, `EventsLearnt`, `DeleteReturns`, `ArrivalsRead`,
`BridgeCallsReturn`, `ChangeSeen`). Liveness under fairness and `ENABLED` are
out of the prover's reach. Every invariant of a passing run is stated by a
theorem, some under the hypotheses above. The proofs about `XBeeRx` use no more
than the type of the check sum: what `ucXBeeCrc` folds is left to TLC.

## 7. Known divergences

Found while modelling. Those marked with a run have a counterexample; the others
are kept out of the passing runs by the constants or by what the properties
except, or are described here only.

**dinput**
- After `iDinClearGrpCallback` the pointer `ctx[pin].udata` points to freed
  memory and `pDinCallbackData` returns it (run `dinput_stale_data`).
- With a single edge selected the opposite edge writes 0 to `edge_occurred`
  (`PollRecord` masks it): `iDinEdgeOccured` misses an edge. `EdgeKept` is
  stated for pins with both edges.
- While a group is being installed `grouped` is still false: a group handler
  that calls `pDinCallbackData` gets the library's own `xDinPinData`.
- A handler runs with `write_mutex` of its pin held: if it calls a function that
  takes it, it waits for itself. `ctx` is not freed at the closing.

**pin (C++)**
- `Gpio::close`, as the signal handler of `demo/gpio/interrupt` calls it, closes
  the file that `irqThread` polls: the descriptor is nobody's, or soon that of
  another file, and the routine is called again and again. A routine that reads
  the pin between the closing of the file and the end of `close` throws in the
  thread, which ends the program. `ChangeSeen` excepts a pin that is closed.
- A routine that never reads the pin is called for ever: only a read clears the
  event.
- `_firstPolling` is never set again: after `close` and `open`,
  `waitForInterrupt` polls the descriptor -1. `attachInterrupt` on a closed pin
  does the same for ever.
- `forceUseSysFs(false)` and `close` make `_useSysFs` false even when the Gpio
  allows sysfs only; `gpiopin.h` says that the function then does nothing.
- The first `waitForInterrupt` of a pin with an attached routine discards an
  event of that routine. `detachInterrupt` inside the routine joins itself.
- When `setEdge` throws after the pin was exported, it stays exported and open.
- `release` by an application that uses sysfs writes the mode through sysfs, which
  loses one that is neither input nor output, and the pin that is unexported
  afterwards changes again: `PinModes` releases through sysfs only in `close`, which
  leaves it first. A Gpio that has sysfs only holds the modes from a device that was
  never opened: the model has both layers.
- A mode or a pull that was asked and kept from before is written again by the next
  `open`. What is held survives a `close` without release. If a device throws in
  `Gpio::open`, its pin stays open, and the next `open` skips it.
- The device of the Raspberry Pi cannot read a pull: it is not given back there.

**gpio, output ports**
- Nothing protects the registers and the count of links: one thread only.
- A port that cannot be opened leaves the pins it has made outputs as outputs
  until the last close.

**xbee**
- A length above `XBEE_MAX_DATA_LEN` leaves `bytes_rcvd` at 3 with no packet: the
  check sum is computed through `in.packet`, NULL when nothing was received before
  (run `xbee_rx_stale`), the freed block of the packet before otherwise. A `malloc`
  that fails does the same.
- Only the low byte of the length is tested: with a high byte other than 0
  `ucXBeeCrc` reads past the block. `PacketOwned` excepts the fault "length".
- A handler that returns -1 after it freed its packet, as its contract asks,
  meets a second `free`. A packet with a bad check sum is never freed (`NoLeak`
  allows exactly these).
- The accessors of packets, not modelled: `sample_len_from_mask` tests `len` where it
  should test `mask`, so that `iXBeePktDigital` and `iXBeePktAnalog` read the wrong
  sample; the `iXBeePktParamGetU...` compare a signed length with `sizeof`, so that a
  negative one passes.
- After a short write `iXBeeOut` goes on at `&pkt[n]`, n packets and not n bytes
  further (run `xbee_short`). `iXBeeZbSend` does not free the packet when `write`
  fails. Packets above 255 bytes are cut to 8 bits.

**rf69**
- `iRf69CanSend` takes "nothing in store" for "nothing heard". If the interrupt of
  a heard frame is still pending, `iRf69SendFrame` writes its frame behind it in the
  FIFO, which nobody flushes, and the chip transmits the heard frame (run
  `rf69_race`). If `vRf69Isr` is at work on it, `rf->data` and the mode are
  overwritten in the middle of `iRf69SendFrame`; and what was left in the FIFO or in
  `rf->data` may then give a packet whose header and data are of different frames.
  `PacketWhole` and `CleanSentIsAsked` except these (`clean`).
- A frame of this node left in the FIFO in that way may be read back as a packet;
  `iRf69WaitAckReceived` for the broadcast address then takes an acknowledgement
  that this node sent for one it received. `AckReportedOnce` counts those of other
  nodes.
- `iRf69SendWithRetry` takes the success of the transmission for an
  acknowledgement; `bRequestACK` is not used, `RF69_ACKREQ` is always set.
- `vRf69Delete` holds both mutexes and joins the thread, which may wait for one
  of them. `iRf69WaitToSend` drops a packet that it receives. Acknowledgements
  have no number: a late one answers the next frame.

**timer**
- The thread waits in `read` (run `timer_late`).
- `iTimerSetCallback` on a timer that has a callback removes it and returns 0.
- `iTimerStop` leaves `is_active` true; `lTimerRemainingTime` then returns 0
  and not -1, and truncates what remains to whole milliseconds.
- `iTimerDelete` frees an `xTimer` whose address may still be in `ev`. The test
  and the call of `tm->callback` are two reads. `ev` is never initialised: the
  model takes the stack of a new thread as zero.

**tinfo**
- A chunk with two control characters: what follows ETX is dropped, and a second
  STX stays in the buffer; frames are lost or merged. Hence `Prompt`.
- A short frame (ADIR) leaves `ptec` and `motdetat` 0 in the frame, so the
  handlers of changes are called for it and for the next frame.
- The phase number is read from the data instead of the label (`data[4]`,
  `data[5]`), so the values per phase are not stored.
- The frame buffer has no test of its size in the collection, and
  `prviProbeFrame` looks past the end of the frame for its last separator.

**ax25, tnc**
- `iAx25Read` returns `AX25_INVALID_FRAME` for a frame that is not UI without
  clearing it: `bAx25Poll` reports it until the application calls `iAx25Clear`,
  which also forgets the descriptor, so that `iAx25SetFdin` is needed again.
- `iTncPoll` stores the bytes of a message at `rxbuf[p->len++]` without looking at
  the size of `rxbuf`, which the application gave: a longer message, or one whose end
  is lost, is written beyond it. The model has no size of `rxbuf`.
- `iTncClear` forgets the address of `rxbuf`. `iTncWrite` drops what its
  terminal has not transmitted or not read yet: `NextArrives` excepts it.

**gps**
- `iGpsRead` copies `xData` while the thread writes it: a copy may have parts of
  two reports. `FreshCopy` says what still holds.
- The callbacks are tested and then read again: one that is removed in between
  is called as NULL. `xGpsNew` that cannot start its thread deletes the object
  with a thread that is not valid.

**chipio serial**
- In one turn the thread goes on through `buffer` as long as the interrupt pin
  is set: more than 32 bytes are stored beyond its end. The model stops there
  ("overrun").
- The result of `write` to the terminal is compared with the size of the last
  block; that of `iChipIoWriteRegBlock` is not looked at, so bytes are lost.
- When the chip does not answer for good, `iChipIoSerialSetAttr` waits for ever.
  `xChipIoSerialNew` leaves descriptors and the pin open when it fails.

**RGB leds**
- `iOpen` resets the bus of each controller ("Software RESET sur chaque bus"): the
  name it compares with, `str`, is never assigned, so the second controller of a bus
  stops the oscillator of the first, which nothing starts again. `LedsAsAsked` speaks
  of the oscillator of a controller that is alone on its bus.
- When this reset fails `iOpen` returns without `iClose` and leaks its blocks.
- A write that fails leaves the copy ahead of the chip: a later call for another led
  writes it with its own value, and after `iClrError` failed, the bit EFCLR with the
  next change of blinking. `iLedRgbAddLed` that fails removes the led but leaves the
  outputs it has changed.
- `iClrError` stops when the first write for a controller fails, but goes on with the
  next controller when the second one does, and returns the result of the last: a call
  that failed in this way may return 0.

**i2c memories**
- `iI2cMemWrite` does not advance the offset from page to page, so that a write
  of several pages writes them all to the first; `include/sysio/i2c.h` says that
  it is done page by page ("L'écriture se fait page par page"). The messages
  have two bytes of offset also for memories with one. `MemorySpec` is checked
  for writes within a page and two bytes of offset.
- Closing a read only memory and an opening that fails leak what they allocated.

**blyss**
- `vBlyssFrameSetChannel` refuses the channel 8 (`channel < sizeof(channels) - 1`),
  `include/sysio/blyss.h` says "numéro du canal à commander entre 1 et 8": the
  run uses channels below. `xBlyssNew` that fails does not close the port.

**containers**
- `iVectorRemove` calls `memcpy` for the elements behind the one it removes, from
  one place to the place before it: with two or more of them the blocks overlap, which
  is undefined in C (a sanitizer stops there). `ContainersKept` says nothing of a
  vector after such a removal (`torn`).
- `iVectorReplace` accepts an index equal to the size and writes past the
  elements. Resizing to 0 a vector with elements violates an assertion.
  `iVectorAppend` with `fnew` loses the element that `fnew` made. An element
  that is there twice is freed twice by `iVectorRemove` and `iVectorResize`;
  `iVectorClear` looks for copies with `fkey`, called on the freed element.

## 8. Not modelled

| Part | Why |
|---|---|
| packet accessors of `xbee`, AT commands | pure functions of one packet; the frames of AT commands are those of `XBeeTx` |
| registers of `rf69`, temperature, encryption, bus errors | writes of registers; nothing they share with the thread |
| failures of `xDinOpen`, of `pthread` and `timerfd` calls | the functions return an error before anything is shared |
| `lTimerRemainingTime`, `bTimerIsTimeout` | they read the kernel's timer, whose durations are abstracted |
| the fields of a tinfo frame that select no handler | data copied from the line |
| building and printing of AX.25 frames and nodes, distances and text of GPS reports, printing of Blyss frames | conversions |
| the opening of the ChipIo and its other devices; values of the attributes of its serial port | accesses to registers, each atomic |
| numberings and pull resistors of pins, the mapping of registers, the nanopi variant of `gpio` | tables and registers; the nanopi variant has the same structure as the one modelled |
| names of C++ pins, connectors, failures of the files of sysfs | tables; the connectors call their pins one after the other |
| gain and error flags of the leds | one register each, that nothing else uses |
| polling, flushing, strings and durations of the serial line, failures of `tcsetattr` | each is one call of the kernel; a failure ends the function |
| `fnew` and the search functions of containers, failures of `malloc` in them | the search functions change nothing |
| `pwm` | writes of registers |
| `i2c` (but its memories), `spi`, sensors and drivers | wrappers of registers and system calls, one state variable each |
| `log`, `clock`, `delay`, `scheduler`, `crc`, `string` | wrappers of system calls, pure arithmetic and conversions |
| `3rdparty/`, `python/`, `demo/`, `utils/` | third-party code, bindings and examples |
