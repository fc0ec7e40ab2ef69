-------------------------------- MODULE Rf69 --------------------------------
(***************************************************************************)
(* The RFM69 radio (src/spi/rf69.c, src/spi/rf69_sysio.c): one node, its   *)
(* application thread, which sends, waits for acknowledgements and         *)
(* receives, and the polling thread of its interrupt pin, which runs       *)
(* iIrqCallback.  The two share xRf69; the polling thread and              *)
(* iRf69ReceiveDone hold rcv_mutex, the rest of the application does not.  *)
(*                                                                         *)
(* A frame is a record; the chip keeps the frames of its FIFO.  mode is    *)
(* both rf->mode and the mode of the chip: SetMode changes them in one     *)
(* step.                                                                   *)
(***************************************************************************)
EXTENDS Naturals, Sequences

CONSTANTS
  Me, Peer,    \* node ids; a peer is any other node that is heard
  Broadcast,   \* RF69_BROADCAST_ADDR
  None,        \* no frame (payload_len = 0)
  Envs,        \* what the node meets, see Env
  Retries,     \* argument of iRf69SendWithRetry
  MaxCalls,    \* bound: calls of the application
  MaxHeard     \* bound: frames that reach the chip

Call == {"ReceiveDone", "Send", "SendNoAck", "SendWithRetry", "WaitAck", "SendAck",
         "SetPromiscuous", "Sleep", "Delete"}

(* calls: the functions that the application calls; frames: what the other *)
(* nodes send.                                                             *)
Env == [calls : SUBSET Call,
        frames : SUBSET [from : Peer, to : Peer \cup {Me, Broadcast}, ctl : {"ACK", "ACKREQ", "none"}]]

ASSUME RfAssumption ==
  /\ Me \notin Peer /\ Broadcast \notin Peer \cup {Me}
  /\ Envs \subseteq Env
  /\ Retries \in Nat \ {0} /\ MaxCalls \in Nat /\ MaxHeard \in Nat

Frame == [from : Peer \cup {Me}, to : Peer \cup {Me, Broadcast},
          ctl : {"ACK", "ACKREQ", "none"}, id : 0 .. MaxCalls + MaxHeard]

ASSUME NoneAssumption == None \notin Frame

VARIABLES
  \* ---- the FIFO of the chip and the pin DIO0
  fifo, pin,
  irq,      \* rising edges that the polling thread has not served yet
  \* ---- xRf69
  mode, hdr, data, rcv, promiscuous,
  \* ---- polling thread; application: its step, the call, the frame it must
  \*      send, the address it waits for, tries left, result
  isr, app, call, tx, tries, result,
  spi,      \* vRf69Delete holds spi_mutex
  \* ---- history: calls made, frames heard, acknowledgements heard and
  \*      reported, the last frame sent, whether nothing heard was left to
  \*      serve when iRf69CanSend last put the radio in standby
  calls, heard, acks, reported, sent, clean,
  env

chipVars == <<fifo, pin>>
rfVars == <<mode, hdr, data>>
histVars == <<calls, heard, acks, reported, sent, clean>>
appVars == <<app, call, tx, tries, result, spi>>
settings == <<promiscuous, env>>
vars == <<chipVars, irq, rfVars, rcv, isr, appVars, histVars, settings>>

(* xRf69New and iRf69Open leave the radio in standby, promiscuous. *)
Init ==
  /\ fifo = << >> /\ pin = FALSE /\ irq = 0
  /\ mode = "standby" /\ hdr = None /\ data = None /\ rcv = "free"
  /\ promiscuous = TRUE
  /\ isr = "off" /\ app = "idle" /\ call = "ReceiveDone" /\ tx = None
  /\ tries = 0 /\ result = FALSE /\ spi = FALSE
  /\ calls = 0 /\ heard = 0 /\ acks = 0 /\ reported = 0 /\ sent = None
  /\ clean = TRUE
  /\ env \in Envs

(* iRf69SetMode *)
SetMode(m) == mode' = m

-----------------------------------------------------------------------------
(* The chip, as the code uses it. *)

ForMe(f) == promiscuous \/ f.to \in {Me, Broadcast}

(* A frame that arrives in reception goes to the FIFO and raises DIO0; the *)
(* chip filters the addresses as it was told to.                           *)
Hear(f) ==
  /\ mode = "rx" /\ fifo = << >> /\ heard < MaxHeard /\ app # "deleted"
  /\ ForMe(f)
  /\ fifo' = <<f>> /\ pin' = TRUE
  /\ irq' = irq + 1
  /\ heard' = heard + 1
  /\ acks' = IF f.ctl = "ACK" THEN acks + 1 ELSE acks
  /\ UNCHANGED <<rfVars, rcv, isr, appVars, calls, reported, sent, clean, settings>>

(* In transmission what is first in the FIFO is sent; DIO0 tells it. *)
Transmit ==
  /\ mode = "tx" /\ fifo # << >>
  /\ sent' = Head(fifo) /\ fifo' = Tail(fifo)
  /\ pin' = TRUE /\ irq' = irq + 1
  /\ UNCHANGED <<rfVars, rcv, isr, appVars, calls, heard, acks, reported, clean, settings>>

-----------------------------------------------------------------------------
(* The polling thread: iIrqCallback and vRf69Isr.  A register is reached   *)
(* only while vRf69Delete does not hold spi_mutex.                         *)

IsrCall ==
  /\ isr = "off" /\ irq > 0 /\ app \notin {"join", "deleted"}
  /\ irq' = irq - 1 /\ isr' = "lock"
  /\ UNCHANGED <<chipVars, rfVars, rcv, appVars, histVars, settings>>

IsrUnlock == isr' = "off" /\ rcv' = "free"

(* Faulty variant: the mode is not looked at. *)
IsrLockAnyMode ==
  /\ isr = "lock" /\ rcv = "free"
  /\ rcv' = "isr" /\ isr' = "flags"
  /\ UNCHANGED <<chipVars, irq, rfVars, appVars, histVars, settings>>

IsrLock ==
  /\ isr = "lock" /\ rcv = "free"
  /\ IF mode = "rx" THEN rcv' = "isr" /\ isr' = "flags" ELSE isr' = "off" /\ UNCHANGED rcv
  /\ UNCHANGED <<chipVars, irq, rfVars, appVars, histVars, settings>>

(* Faulty variant: the header stays. *)
StartReceivingKeepsHeader ==
  /\ UNCHANGED <<hdr, data>>
  /\ fifo' = << >> /\ pin' = FALSE
  /\ SetMode("rx")

(* iRf69StartReceiving: the last packet is forgotten, the FIFO is flushed. *)
StartReceiving ==
  /\ hdr' = None
  /\ fifo' = << >> /\ pin' = FALSE
  /\ SetMode("rx")
  /\ UNCHANGED data

(* REG_IRQFLAGS2, PAYLOADREADY: what is first in the FIFO was heard. *)
PayloadReady == mode # "tx" /\ fifo # << >> /\ Head(fifo).from # Me

(* Without payload nothing is done. *)
IsrNoPayload ==
  /\ isr = "flags" /\ ~ spi
  /\ ~ PayloadReady
  /\ IsrUnlock
  /\ UNCHANGED <<chipVars, irq, rfVars, appVars, histVars, settings>>

IsrStandby ==
  /\ isr = "flags" /\ ~ spi
  /\ PayloadReady
  /\ SetMode("standby")
  /\ isr' = "header"
  /\ UNCHANGED <<fifo, pin, irq, hdr, data, rcv, appVars, histVars, settings>>

(* The length and the header; a frame for another node, or one that is     *)
(* too short, is refused.                                                  *)
IsrHeader ==
  /\ isr = "header" /\ ~ spi /\ fifo # << >>
  /\ hdr' = Head(fifo)
  /\ isr' = "data"
  /\ UNCHANGED <<chipVars, irq, mode, data, rcv, appVars, histVars, settings>>

IsrRefuse ==
  /\ ~ spi
  /\ \/ isr = "header" /\ fifo = << >>
     \/ isr = "data" /\ ~ ForMe(hdr)
  /\ StartReceiving
  /\ IsrUnlock
  /\ UNCHANGED <<irq, appVars, histVars, settings>>

IsrData ==
  /\ isr = "data" /\ ~ spi /\ ForMe(hdr)
  /\ IF fifo = << >> THEN UNCHANGED <<data, fifo>>
     ELSE data' = Head(fifo) /\ fifo' = Tail(fifo)
  /\ isr' = "done"
  /\ UNCHANGED <<pin, irq, mode, hdr, rcv, appVars, histVars, settings>>

(* Reception goes on with the packet in store. *)
IsrDone ==
  /\ isr = "done" /\ ~ spi
  /\ SetMode("rx") /\ pin' = FALSE
  /\ IsrUnlock
  /\ UNCHANGED <<fifo, irq, hdr, data, appVars, histVars, settings>>

Isr ==
  \/ IsrCall \/ IsrLock \/ IsrNoPayload \/ IsrStandby \/ IsrHeader
  \/ IsrRefuse \/ IsrData \/ IsrDone

-----------------------------------------------------------------------------
(* The application. *)

Goto(l) == app' = l
Return(r) == app' = "idle" /\ result' = r

(* A packet is in store, rf->hdr.payload_len > 0 in reception. *)
Received == mode = "rx" /\ hdr # None

(* Faulty variant: the radio goes on receiving. *)
ReceiveDoneStaysInRx ==
  /\ rcv = "free"
  /\ IF mode # "rx" THEN StartReceiving ELSE UNCHANGED <<chipVars, rfVars>>

(* iRf69ReceiveDone, with rcv_mutex held from end to end. *)
ReceiveDone ==
  /\ rcv = "free"
  /\ IF mode # "rx" THEN StartReceiving
     ELSE IF hdr # None THEN SetMode("standby") /\ pin' = FALSE /\ UNCHANGED <<fifo, hdr, data>>
     ELSE UNCHANGED <<chipVars, rfVars>>

Request(to, ctl) == [from |-> Me, to |-> to, ctl |-> ctl, id |-> calls + 1]

(* The user calls a function; a call that sends keeps the frame to send,   *)
(* one that waits the address that it waits for.  iRf69SendAck clears the  *)
(* bit RF69_ACKREQ of the packet in store.                                 *)
Begin(c, to) ==
  /\ app = "idle" /\ calls < MaxCalls
  /\ c \in {"ReceiveDone", "Sleep", "Delete"} => to = Broadcast
  /\ calls' = calls + 1 /\ call' = c
  /\ tx' = Request(to, IF c = "SendAck" THEN "ACK" ELSE "ACKREQ")
  /\ tries' = IF c = "SendWithRetry" THEN Retries ELSE 1
  /\ Goto(CASE c = "ReceiveDone" -> "recv" [] c = "WaitAck" -> "poll"
            [] c = "Sleep" -> "sleep" [] c = "Delete" -> "spi" [] OTHER -> "csma")
  /\ IF c = "SendAck"
       THEN /\ hdr # None /\ to = hdr.from
            /\ hdr' = IF hdr.ctl = "ACKREQ" THEN [hdr EXCEPT !.ctl = "none"] ELSE hdr
       ELSE to # Me /\ UNCHANGED hdr
  /\ UNCHANGED <<chipVars, irq, mode, data, rcv, isr, result, spi, heard, acks, reported, sent, clean, settings>>

(* iRf69SetPromiscuous; it returns at once when nothing changes. *)
SetPromiscuous ==
  /\ app = "idle" /\ "SetPromiscuous" \in env.calls
  /\ promiscuous' = ~ promiscuous
  /\ UNCHANGED <<chipVars, irq, rfVars, rcv, isr, appVars, histVars, env>>

CallReceiveDone ==
  /\ app = "recv"
  /\ ReceiveDone
  /\ Return(Received)
  /\ UNCHANGED <<irq, rcv, isr, call, tx, tries, spi, histVars, settings>>

Sleep ==
  /\ app = "sleep"
  /\ SetMode("sleep") /\ Return(TRUE)
  /\ UNCHANGED <<fifo, pin, irq, hdr, data, rcv, isr, call, tx, tries, spi, histVars, settings>>

(* iRf69CanSend: in reception, nothing in store and a free channel ...     *)
ChannelFree ==
  /\ app = "csma"
  /\ mode = "rx" /\ hdr = None
  /\ Goto("standby")
  /\ UNCHANGED <<chipVars, irq, rfVars, rcv, isr, call, tx, tries, result, spi, histVars, settings>>

(* ... or not: iRf69WaitToSend calls iRf69ReceiveDone and tries again.     *)
ChannelBusy ==
  /\ app = "csma"
  /\ ReceiveDone
  /\ UNCHANGED <<irq, rcv, isr, appVars, histVars, settings>>

(* What follows iRf69Send: iRf69SendWithRetry takes true for an ACK.       *)
AfterSend(ok) ==
  IF call = "SendWithRetry" /\ ~ ok THEN Goto("poll") /\ UNCHANGED result ELSE Return(ok)

ChannelTimeout ==
  /\ app = "csma"
  /\ AfterSend(FALSE)
  /\ UNCHANGED <<chipVars, irq, rfVars, rcv, isr, call, tx, tries, spi, histVars, settings>>

(* The end of iRf69CanSend and, in iRf69SendAck, the sender put back; then *)
(* the beginning of iRf69SendFrame.                                        *)
Standby ==
  /\ \/ /\ app = "standby" /\ Goto("frame")
        /\ hdr' = IF call = "SendAck" /\ hdr # None THEN [hdr EXCEPT !.from = tx.to] ELSE hdr
        /\ clean' = (fifo = << >> /\ isr \notin {"header", "data", "done"})
     \/ app = "frame" /\ Goto("fill") /\ UNCHANGED <<hdr, clean>>
  /\ SetMode("standby")
  /\ UNCHANGED <<fifo, pin, irq, data, rcv, isr, call, tx, tries, result, spi,
                 calls, heard, acks, reported, sent, settings>>

(* iRf69WaitForReady fails. *)
NotReady ==
  /\ app = "fill"
  /\ AfterSend(FALSE)
  /\ UNCHANGED <<chipVars, irq, rfVars, rcv, isr, call, tx, tries, spi, histVars, settings>>

Fill ==
  /\ app = "fill"
  /\ data' = tx
  /\ Goto("fifo")
  /\ UNCHANGED <<chipVars, irq, mode, hdr, rcv, isr, call, tx, tries, result, spi, histVars, settings>>

WriteFifo ==
  /\ app = "fifo"
  /\ fifo' = Append(fifo, data)
  /\ Goto("tx")
  /\ UNCHANGED <<pin, irq, rfVars, rcv, isr, call, tx, tries, result, spi, histVars, settings>>

StartTx ==
  /\ app = "tx"
  /\ SetMode("tx") /\ pin' = FALSE
  /\ Goto("wait")
  /\ UNCHANGED <<fifo, irq, hdr, data, rcv, isr, call, tx, tries, result, spi, histVars, settings>>

(* Faulty variant: the interrupt is not waited for. *)
EndTxNoWait(ok) ==
  /\ app = "wait"
  /\ SetMode("standby") /\ pin' = FALSE
  /\ AfterSend(ok)
  /\ UNCHANGED <<fifo, irq, hdr, data, rcv, isr, call, tx, tries, spi, histVars, settings>>

(* iRf69WaitIrq and the end of iRf69SendFrame. *)
EndTx(ok) ==
  /\ app = "wait"
  /\ ok => pin
  /\ SetMode("standby") /\ pin' = FALSE
  /\ AfterSend(ok)
  /\ UNCHANGED <<fifo, irq, hdr, data, rcv, isr, call, tx, tries, spi, histVars, settings>>

(* iRf69AckReceived *)
AckMatches == Received /\ hdr.ctl = "ACK" /\ tx.to \in {hdr.from, Broadcast}

PollAck ==
  /\ app = "poll"
  /\ ReceiveDone
  /\ IF AckMatches
       THEN Return(TRUE) /\ reported' = IF hdr.from \in Peer THEN reported + 1 ELSE reported
       ELSE UNCHANGED <<app, result, reported>>
  /\ UNCHANGED <<irq, rcv, isr, call, tx, tries, spi, calls, heard, acks, sent, clean, settings>>

(* Faulty variant: tries are not counted. *)
PollTimeoutNoCount ==
  /\ app = "poll"
  /\ IF tries > 1 THEN Goto("csma") /\ UNCHANGED result ELSE Return(FALSE)
  /\ UNCHANGED <<chipVars, irq, rfVars, rcv, isr, call, tx, tries, spi, histVars, settings>>

(* The time is over: another try, if there is one left. *)
PollTimeout ==
  /\ app = "poll"
  /\ tries' = tries - 1
  /\ IF tries > 1 THEN Goto("csma") /\ UNCHANGED result ELSE Return(FALSE)
  /\ UNCHANGED <<chipVars, irq, rfVars, rcv, isr, call, tx, spi, histVars, settings>>

(* vRf69Delete: the two mutexes are taken, then iDinClose waits for the    *)
(* polling thread.                                                         *)
DeleteLockSpi ==
  /\ app = "spi"
  /\ spi' = TRUE /\ Goto("rcv")
  /\ UNCHANGED <<chipVars, irq, rfVars, rcv, isr, call, tx, tries, result, histVars, settings>>

DeleteLockRcv ==
  /\ app = "rcv" /\ rcv = "free"
  /\ rcv' = "app" /\ Goto("join")
  /\ UNCHANGED <<chipVars, irq, rfVars, isr, call, tx, tries, result, spi, histVars, settings>>

DeleteJoin ==
  /\ app = "join" /\ isr = "off"
  /\ Goto("deleted")
  /\ UNCHANGED <<chipVars, irq, rfVars, rcv, isr, call, tx, tries, result, spi, histVars, settings>>

Run ==
  \/ CallReceiveDone \/ Sleep \/ ChannelFree \/ ChannelBusy \/ ChannelTimeout
  \/ Standby \/ NotReady \/ Fill \/ WriteFifo \/ StartTx
  \/ (\E ok \in BOOLEAN : EndTx(ok)) \/ PollAck \/ PollTimeout
  \/ DeleteLockSpi \/ DeleteLockRcv \/ DeleteJoin

Heard == {[from |-> f.from, to |-> f.to, ctl |-> f.ctl, id |-> MaxCalls + heard] : f \in env.frames}

Next ==
  \/ (\E f \in Heard : Hear(f)) \/ Transmit
  \/ Isr
  \/ \E c \in env.calls \ {"SetPromiscuous"}, to \in Peer \cup {Me, Broadcast} : Begin(c, to)
  \/ SetPromiscuous
  \/ Run

(* The two threads run.  The waits of the code end: the timers of the      *)
(* loops expire.                                                           *)
Fairness ==
  /\ WF_vars(Isr) /\ WF_vars(Run)
  /\ SF_vars(ChannelTimeout) /\ SF_vars(PollTimeout) /\ WF_vars(EndTx(FALSE))

Spec == Init /\ [][Next]_vars /\ Fairness

-----------------------------------------------------------------------------
Finished(c) == app = "idle" /\ call = c /\ result

(* The packet that iRf69ReceiveDone reports keeps its header and its data  *)
(* until the next call, however late the interrupts are served: the radio  *)
(* is in standby.                                                          *)
ReportedPacketStable == [][Finished("ReceiveDone") => UNCHANGED <<hdr, data>> \/ app' # "idle"]_vars

(* No acknowledgement of another node is reported that was not heard, and  *)
(* none twice, promiscuous or not.                                         *)
AckReportedOnce == reported <= acks

(* iRf69SendFrame uses rf->data, the FIFO and the mode without rcv_mutex.  *)
(* The two properties below hold, however late interrupts are served,      *)
(* unless a frame that was heard was still in the FIFO or in the hands of  *)
(* vRf69Isr when the last iRf69CanSend put the radio in standby.           *)

(* The header and the data of a packet that iRf69ReceiveDone reports are   *)
(* of the same frame.                                                      *)
PacketWhole == clean /\ Finished("ReceiveDone") =>
  hdr # None /\ data # None /\ hdr.id = data.id

(* The frame that leaves the antenna is the one given to the function that *)
(* says that it was sent.                                                  *)
SentIsAsked == \A c \in {"Send", "SendNoAck", "SendAck"} : Finished(c) => sent = tx
CleanSentIsAsked == clean => SentIsAsked

(* Every call returns, but vRf69Delete: it may wait for the polling thread *)
(* while this one waits for a mutex.                                       *)
CallsReturn == []<>(app \in {"idle", "deleted"} \/ call = "Delete")

=============================================================================
