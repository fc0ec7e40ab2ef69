----------------------------- MODULE Rf69Proofs -----------------------------
(***************************************************************************)
(* For any nodes, calls and interleaving of the polling thread and the     *)
(* application: an acknowledgement is reported once, and a packet that was *)
(* reported stays as it is until the next call; unless iRf69CanSend left a *)
(* frame that was heard unserved, a packet is of one piece and what is     *)
(* sent is what was asked.                                                 *)
(***************************************************************************)
EXTENDS Rf69, TLAPS

(* The steps of vRf69Isr that hold rcv_mutex, those after it has left the  *)
(* reception, those of iRf69SendFrame.                                     *)
Copying == {"header", "data", "done"}
Reading == {"flags"} \cup Copying
Sending == {"frame", "fill", "fifo", "tx", "wait"}

TypeInv ==
  /\ fifo \in Seq(Frame)
  /\ hdr \in Frame \cup {None} /\ data \in Frame \cup {None} /\ tx \in Frame \cup {None}
  /\ isr \in {"off", "lock"} \cup Reading
  /\ rcv = "isr" <=> isr \in Reading
  /\ calls \in 0 .. MaxCalls /\ heard \in 0 .. MaxHeard
  /\ acks \in Nat /\ reported \in Nat
  /\ env \in Env

(* What the frame to send and the step of the application tell of the call. *)
CallInv ==
  /\ tx # None => tx.from = Me
  /\ call = "SendAck" => tx # None /\ tx.to \in Peer \cup {Me}
  /\ app # "idle" => tx # None
  /\ app = "fifo" => data # None
  /\ app = "recv" => call = "ReceiveDone"
  /\ app \notin {"idle", "recv"} => call # "ReceiveDone"
  /\ app = "poll" => call \in {"WaitAck", "SendWithRetry"}
  /\ app = "sleep" => call = "Sleep"

(* The radio is not in reception while vRf69Isr copies a packet, and it    *)
(* sends only in iRf69SendFrame.                                           *)
ModeInv ==
  /\ isr \in Copying => mode # "rx"
  /\ isr \in {"data", "done"} => hdr # None
  /\ mode = "tx" => app = "wait"

IInv == TypeInv /\ CallInv /\ ModeInv

(* Parts of frames. *)
LEMMA Frames ==
  ASSUME NEW f \in Frame
  PROVE  /\ f # None /\ f.from \in Peer \cup {Me} /\ f.to \in Peer \cup {Me, Broadcast}
         /\ [f EXCEPT !.ctl = "none"] \in Frame /\ [f EXCEPT !.ctl = "none"].from = f.from
         /\ [f EXCEPT !.ctl = "none"].id = f.id /\ [f EXCEPT !.ctl = "none"].ctl = "none"
         /\ \A a \in Peer \cup {Me} : /\ [f EXCEPT !.from = a] \in Frame /\ [f EXCEPT !.from = a].id = f.id
                                     /\ [f EXCEPT !.from = a].ctl = f.ctl /\ [f EXCEPT !.from = a].from = a
  BY NoneAssumption DEF Frame

(* What is heard is a frame of another node. *)
LEMMA HeardFrames == IInv => \A f \in Heard : heard < MaxHeard => f \in Frame /\ f.from # Me
  BY RfAssumption DEF IInv, TypeInv, Heard, Env, Frame

(* What is sent is one of this node. *)
LEMMA Requests ==
  ASSUME IInv, calls < MaxCalls, NEW to \in Peer \cup {Me, Broadcast}, NEW c \in {"ACK", "ACKREQ"}
  PROVE  /\ Request(to, c) \in Frame /\ Request(to, c) # None
         /\ Request(to, c).from = Me /\ Request(to, c).to = to
  BY RfAssumption, NoneAssumption DEF IInv, TypeInv, Request, Frame

LEMMA InitIInv == Init => IInv
  BY RfAssumption DEF Init, IInv, TypeInv, CallInv, ModeInv, Reading, Copying

(* What Begin does to the packet in store: at most its bit RF69_ACKREQ.    *)
LEMMA BeginHdr ==
  ASSUME IInv, NEW c \in Call, NEW to \in Peer \cup {Me, Broadcast}, Begin(c, to)
  PROVE  /\ hdr' = hdr \/ (hdr # None /\ hdr.ctl = "ACKREQ" /\ hdr' = [hdr EXCEPT !.ctl = "none"])
         /\ hdr' \in Frame \cup {None} /\ (hdr' # None <=> hdr # None)
<1>1. hdr' = hdr \/ (hdr # None /\ hdr.ctl = "ACKREQ" /\ hdr' = [hdr EXCEPT !.ctl = "none"])
  BY DEF Begin
<1> QED
  BY <1>1, Frames DEF IInv, TypeInv

(* Begin keeps the types and sets the frame to send. *)
LEMMA BeginStep ==
  ASSUME IInv, NEW c \in Call, NEW to \in Peer \cup {Me, Broadcast}, Begin(c, to)
  PROVE  IInv'
<1>1. /\ tx' \in Frame /\ tx' # None /\ tx'.to = to /\ tx'.from = Me
  BY Requests DEF Begin
<1>2. c = "SendAck" => to \in Peer \cup {Me}
  BY Frames DEF Begin, IInv, TypeInv
<1>3. hdr' \in Frame \cup {None} /\ (hdr' # None <=> hdr # None)
  BY BeginHdr
<1>4. TypeInv'
  <2>1. calls' \in 0 .. MaxCalls
    BY RfAssumption DEF Begin, IInv, TypeInv
  <2> QED
    BY <1>1, <1>3, <2>1 DEF Begin, chipVars, settings, IInv, TypeInv
<1>5. CallInv' /\ app' # "wait"
  <2>1. /\ call' = c
        /\ app' = (CASE c = "ReceiveDone" -> "recv" [] c = "WaitAck" -> "poll"
                     [] c = "Sleep" -> "sleep" [] c = "Delete" -> "spi" [] OTHER -> "csma")
    BY DEF Begin, Goto
  <2>2. /\ app' \in {"recv", "poll", "sleep", "spi", "csma"} /\ (app' = "recv" <=> c = "ReceiveDone")
        /\ (app' = "poll" => c = "WaitAck") /\ (app' = "sleep" => c = "Sleep")
    BY <2>1 DEF Call
  <2> QED
    BY <1>1, <1>2, <2>1, <2>2 DEF CallInv
<1>6. ModeInv'
  BY <1>3 DEF Begin, IInv, ModeInv
<1> QED
  BY <1>4, <1>5, <1>6 DEF IInv

(* What iRf69StartReceiving and iRf69ReceiveDone do: reception begins      *)
(* again, or stops with the packet in store, or goes on.                   *)
LEMMA ReceiveDoneCases ==
  ASSUME ReceiveDone, IInv
  PROVE  /\ isr \notin Reading /\ data' = data
         /\ \/ mode # "rx" /\ mode' = "rx" /\ hdr' = None /\ fifo' = << >>
            \/ Received /\ mode' = "standby" /\ UNCHANGED <<fifo, hdr>>
            \/ mode = "rx" /\ hdr = None /\ UNCHANGED <<mode, fifo, hdr>>
  BY DEF ReceiveDone, StartReceiving, SetMode, Received, IInv, TypeInv, chipVars, rfVars

(* Every step keeps the types. *)
LEMMA IInvStep == IInv /\ [Next]_vars => IInv'
<1> SUFFICES ASSUME IInv, [Next]_vars PROVE IInv'
  OBVIOUS
<1>R. ReceiveDone => /\ hdr' \in {hdr, None} /\ fifo' \in Seq(Frame) /\ isr \notin Reading /\ data' = data
                     /\ (mode' = "tx" => mode = "tx")
  <2>1. fifo \in Seq(Frame) /\ << >> \in Seq(Frame)
    BY DEF IInv, TypeInv
  <2> QED
    BY <2>1, ReceiveDoneCases
<1>S. \A a \in Peer \cup {Me} : hdr # None => [hdr EXCEPT !.from = a] \in Frame /\ [hdr EXCEPT !.from = a] # None
  BY Frames DEF IInv, TypeInv
<1> USE DEF IInv, TypeInv, CallInv, ModeInv, Reading, Copying, SetMode, Goto, Return, settings
<1>1. ASSUME NEW f \in Heard, Hear(f) PROVE IInv'
  <2>1. f \in Frame
    BY <1>1, HeardFrames DEF Hear
  <2>2. heard' \in 0 .. MaxHeard /\ acks' \in Nat
    BY <1>1, RfAssumption DEF Hear
  <2>3. fifo' \in Seq(Frame)
    BY <1>1, <2>1 DEF Hear
  <2> QED
    BY <1>1, <2>2, <2>3 DEF Hear, rfVars, appVars
<1>2. CASE Transmit
  BY <1>2 DEF Transmit, rfVars, appVars
<1>3. CASE IsrCall \/ IsrLock \/ IsrNoPayload
  BY <1>3 DEF IsrCall, IsrLock, IsrNoPayload, IsrUnlock, chipVars, rfVars, appVars, histVars
<1>4. CASE IsrStandby
  BY <1>4 DEF IsrStandby, PayloadReady, appVars, histVars
<1>5. CASE IsrHeader
  <2>1. fifo # << >> /\ Head(fifo) \in Frame /\ hdr' = Head(fifo)
    BY <1>5 DEF IsrHeader
  <2>2. hdr' # None
    BY <2>1, NoneAssumption
  <2> QED
    BY <1>5, <2>1, <2>2 DEF IsrHeader, chipVars, appVars, histVars
<1>6. CASE IsrRefuse
  BY <1>6 DEF IsrRefuse, StartReceiving, IsrUnlock, appVars, histVars
<1>7. CASE IsrData
  <2>1. fifo # << >> => Head(fifo) \in Frame /\ Tail(fifo) \in Seq(Frame)
    OBVIOUS
  <2>2. data' \in Frame \cup {None} /\ (data # None => data' # None) /\ fifo' \in Seq(Frame)
    BY <1>7, <2>1, NoneAssumption DEF IsrData
  <2> QED
    BY <1>7, <2>2 DEF IsrData, appVars, histVars
<1>8. CASE IsrDone
  BY <1>8 DEF IsrDone, IsrUnlock, appVars, histVars
<1>9. ASSUME NEW c \in Call, NEW to \in Peer \cup {Me, Broadcast}, Begin(c, to) PROVE IInv'
  BY <1>9, BeginStep
<1>10. CASE CallReceiveDone \/ ChannelBusy
  <2>1. /\ hdr' \in {hdr, None} /\ fifo' \in Seq(Frame) /\ isr \notin Reading /\ data' = data
        /\ (mode' = "tx" => mode = "tx")
    BY <1>10, <1>R DEF CallReceiveDone, ChannelBusy
  <2> QED
    BY <1>10, <2>1 DEF CallReceiveDone, ChannelBusy, appVars, histVars
<1>11. CASE PollAck
  <2>1. /\ hdr' \in {hdr, None} /\ fifo' \in Seq(Frame) /\ isr \notin Reading /\ data' = data
        /\ (mode' = "tx" => mode = "tx")
    BY <1>11, <1>R DEF PollAck
  <2>2. reported' \in Nat /\ app' \in {"idle", "poll"} /\ app = "poll" /\ (app' # "idle" => app' = app)
    BY <1>11 DEF PollAck
  <2> QED
    BY <1>11, <2>1, <2>2 DEF PollAck
<1>12. CASE Sleep \/ ChannelFree \/ DeleteLockSpi \/ DeleteJoin
  BY <1>12 DEF Sleep, ChannelFree, DeleteLockSpi, DeleteJoin, chipVars, rfVars, histVars
<1>13. CASE ChannelTimeout \/ NotReady \/ PollTimeout
  BY <1>13 DEF ChannelTimeout, NotReady, PollTimeout, AfterSend, chipVars, rfVars, histVars
<1>14. CASE Standby
  <2>1. hdr' = hdr \/ (hdr # None /\ tx # None /\ tx.to \in Peer \cup {Me} /\ hdr' = [hdr EXCEPT !.from = tx.to])
    BY <1>14 DEF Standby
  <2>2. hdr' \in Frame \cup {None} /\ (hdr' # None <=> hdr # None)
    BY <2>1, <1>S
  <2> QED
    BY <1>14, <2>2 DEF Standby
<1>15. CASE Fill
  BY <1>15 DEF Fill, chipVars, histVars
<1>16. CASE WriteFifo
  BY <1>16 DEF WriteFifo, rfVars, histVars
<1>17. CASE StartTx
  BY <1>17 DEF StartTx, histVars
<1>18. CASE \E ok \in BOOLEAN : EndTx(ok)
  BY <1>18 DEF EndTx, AfterSend, histVars
<1>19. CASE DeleteLockRcv
  BY <1>19 DEF DeleteLockRcv, chipVars, rfVars, histVars
<1>20. CASE SetPromiscuous
  BY <1>20 DEF SetPromiscuous, chipVars, rfVars, appVars, histVars
<1>21. CASE UNCHANGED vars
  BY <1>21 DEF vars, chipVars, rfVars, appVars, histVars
<1> QED
  BY <1>1, <1>2, <1>3, <1>4, <1>5, <1>6, <1>7, <1>8, <1>9, <1>10, <1>11, <1>12, <1>13, <1>14, <1>15, <1>16, <1>17,
     <1>18, <1>19, <1>20, <1>21
  DEF Next, Isr, Run, Env

-----------------------------------------------------------------------------
(* The packet that was reported is not touched: the radio is in standby,   *)
(* and the polling thread turns back at its first test.                    *)
StandbyInv == Finished("ReceiveDone") => mode = "standby" /\ hdr # None /\ isr \notin Reading

LEMMA StandbyStep == IInv /\ StandbyInv /\ [Next]_vars => StandbyInv'
<1> SUFFICES ASSUME IInv, StandbyInv, [Next]_vars, Finished("ReceiveDone")' PROVE (mode = "standby" /\ hdr # None /\ isr \notin Reading)'
  BY DEF StandbyInv
<1>1. CASE CallReceiveDone
  <2>1. result' = Received /\ isr' = isr /\ ReceiveDone
    BY <1>1 DEF CallReceiveDone, Return
  <2> QED
    BY <2>1, ReceiveDoneCases DEF Finished, Received
<1>2. CASE app # "idle" /\ ~ CallReceiveDone /\ Run
  <2>1. app = "recv" => FALSE
    BY <1>2 DEF Run, Sleep, ChannelFree, ChannelBusy, ChannelTimeout, Standby, NotReady, Fill, WriteFifo,
                StartTx, EndTx, PollAck, PollTimeout, DeleteLockSpi, DeleteLockRcv, DeleteJoin
  <2>2. call' = call
    BY <1>2 DEF Run, Sleep, ChannelFree, ChannelBusy, ChannelTimeout, Standby, NotReady, Fill, WriteFifo,
                StartTx, EndTx, PollAck, PollTimeout, DeleteLockSpi, DeleteLockRcv, DeleteJoin, appVars
  <2> QED
    BY <1>2, <2>1, <2>2 DEF Finished, IInv, CallInv
<1>3. ASSUME NEW c \in Call, NEW to \in Peer \cup {Me, Broadcast}, Begin(c, to) PROVE FALSE
  BY <1>3 DEF Begin, Goto, Finished, Call
<1>4. CASE Isr \/ Transmit \/ SetPromiscuous \/ UNCHANGED vars \/ \E f \in Heard : Hear(f)
  <2>1. UNCHANGED appVars
    BY <1>4 DEF Isr, IsrCall, IsrLock, IsrNoPayload, IsrStandby, IsrHeader, IsrRefuse, IsrData, IsrDone,
                Transmit, Hear, SetPromiscuous, vars
  <2>2. mode = "standby" /\ hdr # None /\ isr \notin Reading
    BY <2>1 DEF Finished, appVars, StandbyInv
  <2> QED
    BY <1>4, <2>2 DEF Isr, IsrCall, IsrLock, IsrNoPayload, IsrStandby, IsrHeader, IsrRefuse, IsrData, IsrDone,
                Transmit, Hear, SetPromiscuous, vars, rfVars, Reading, Copying
<1> QED
  BY <1>1, <1>2, <1>3, <1>4
  DEF Next, Run, Env, Sleep, ChannelFree, ChannelBusy, ChannelTimeout, Standby, NotReady, Fill, WriteFifo,
      StartTx, EndTx, PollAck, PollTimeout, DeleteLockSpi, DeleteLockRcv, DeleteJoin, IInv, TypeInv

-----------------------------------------------------------------------------
(* A radio that receives with no packet in store has nothing in its FIFO   *)
(* that this node wrote, nor has one that is about to send: iRf69SendAck   *)
(* puts the sender back into a packet that was heard.                      *)
OnlyHeard == \A k \in 1 .. Len(fifo) : fifo[k].from # Me
OwnInv ==
  /\ mode = "rx" /\ hdr = None /\ app # "tx" => OnlyHeard
  /\ app = "standby" => OnlyHeard /\ (hdr # None => hdr.from # Me)

LEMMA OwnStep == IInv /\ OwnInv /\ [Next]_vars => OwnInv'
<1> SUFFICES ASSUME IInv, OwnInv, [Next]_vars PROVE OwnInv'
  OBVIOUS
<1>0. fifo \in Seq(Frame) /\ (isr \in {"data", "done"} => hdr # None)
  BY DEF IInv, TypeInv, ModeInv
<1>T. fifo # << >> /\ fifo' = Tail(fifo) /\ OnlyHeard => OnlyHeard'
  <2>1. fifo # << >> /\ fifo' = Tail(fifo) => \A k \in 1 .. Len(fifo') : k + 1 \in 1 .. Len(fifo) /\ fifo'[k] = fifo[k + 1]
    BY <1>0
  <2> QED
    BY <2>1 DEF OnlyHeard
<1>E. fifo' = << >> => OnlyHeard'
  BY DEF OnlyHeard
<1>1. ASSUME NEW f \in Heard, Hear(f) PROVE OwnInv'
  <2>1. fifo' = <<f>> /\ f.from # Me /\ UNCHANGED <<mode, hdr, app>> /\ mode = "rx"
    BY <1>1, HeardFrames DEF Hear, rfVars, appVars
  <2> QED
    BY <2>1 DEF OwnInv, OnlyHeard
<1>2. CASE Transmit
  BY <1>2, <1>T DEF Transmit, rfVars, appVars, OwnInv
<1>3. CASE IsrCall \/ IsrLock \/ IsrNoPayload \/ IsrStandby
  BY <1>3 DEF IsrCall, IsrLock, IsrNoPayload, IsrStandby, SetMode, chipVars, rfVars, appVars, OwnInv, OnlyHeard
<1>4. CASE IsrHeader
  <2>1. fifo # << >> /\ hdr' = fifo[1] /\ 1 \in 1 .. Len(fifo) /\ UNCHANGED <<fifo, mode, app>>
    BY <1>0, <1>4 DEF IsrHeader, chipVars, appVars
  <2>2. hdr' # None
    BY <1>0, <2>1, NoneAssumption
  <2> QED
    BY <2>1, <2>2 DEF OwnInv, OnlyHeard
<1>5. CASE IsrRefuse
  <2>1. fifo' = << >> /\ hdr' = None /\ app' = app
    BY <1>5 DEF IsrRefuse, StartReceiving, appVars
  <2> QED
    BY <2>1, <1>E DEF OwnInv
<1>6. CASE IsrData
  <2>1. UNCHANGED <<mode, hdr, app>> /\ hdr # None /\ (fifo' = fifo \/ (fifo # << >> /\ fifo' = Tail(fifo)))
    BY <1>0, <1>6 DEF IsrData, appVars
  <2> QED
    BY <1>T, <2>1 DEF OwnInv, OnlyHeard
<1>7. CASE IsrDone
  <2>1. hdr # None /\ UNCHANGED <<fifo, hdr, app>>
    BY <1>0, <1>7 DEF IsrDone, appVars
  <2> QED
    BY <2>1 DEF OwnInv, OnlyHeard
<1>8. ASSUME NEW c \in Call, NEW to \in Peer \cup {Me, Broadcast}, Begin(c, to) PROVE OwnInv'
  <2>1. UNCHANGED <<fifo, mode>> /\ app = "idle" /\ app' # "standby" /\ (hdr' # None <=> hdr # None)
    BY <1>8, BeginHdr DEF Begin, chipVars, Goto, Call
  <2> QED
    BY <2>1 DEF OwnInv, OnlyHeard
<1>9. CASE CallReceiveDone \/ ChannelBusy \/ PollAck
  <2>1. ReceiveDone /\ app # "tx" /\ app' # "standby"
    BY <1>9 DEF CallReceiveDone, ChannelBusy, PollAck, Return, appVars
  <2> QED
    BY <1>E, <2>1, ReceiveDoneCases DEF OwnInv, OnlyHeard
<1>10. CASE ChannelFree
  BY <1>10 DEF ChannelFree, Goto, chipVars, rfVars, OwnInv, OnlyHeard
<1>11. CASE Standby \/ Sleep \/ StartTx \/ \E ok \in BOOLEAN : EndTx(ok)
  <2>1. mode' # "rx" /\ app' # "standby"
    BY <1>11 DEF Standby, Sleep, StartTx, EndTx, AfterSend, Goto, Return, SetMode
  <2> QED
    BY <2>1 DEF OwnInv
<1>12. CASE WriteFifo
  BY <1>12 DEF WriteFifo, Goto, OwnInv
<1>13. CASE ChannelTimeout \/ NotReady \/ Fill \/ PollTimeout \/ DeleteLockSpi \/ DeleteLockRcv \/ DeleteJoin
  <2>1. UNCHANGED <<fifo, mode, hdr>> /\ app # "tx" /\ app' # "standby"
    BY <1>13 DEF ChannelTimeout, NotReady, Fill, PollTimeout, DeleteLockSpi, DeleteLockRcv, DeleteJoin, AfterSend,
                 Goto, Return, chipVars, rfVars
  <2> QED
    BY <2>1 DEF OwnInv, OnlyHeard
<1>14. CASE SetPromiscuous \/ UNCHANGED vars
  BY <1>14 DEF SetPromiscuous, vars, chipVars, rfVars, appVars, OwnInv, OnlyHeard
<1> QED
  BY <1>1, <1>2, <1>3, <1>4, <1>5, <1>6, <1>7, <1>8, <1>9, <1>10, <1>11, <1>12, <1>13, <1>14
  DEF Next, Isr, Run, Env, IInv, TypeInv
-----------------------------------------------------------------------------
(* Acknowledgements of other nodes that were heard and that                *)
(* iRf69AckReceived may still report: the packet in store or to come       *)
(* there, the FIFO, and what vRf69Isr left in rf->data where               *)
(* iRf69SendFrame takes the frame.                                         *)
IsAck(f) == f # None /\ f.ctl = "ACK" /\ f.from \in Peer
Pending ==
  \/ IsAck(hdr) /\ (mode = "rx" \/ isr \in {"data", "done"})
  \/ (\E k \in 1 .. Len(fifo) : IsAck(fifo[k])) /\ (mode = "rx" \/ isr \in Reading)
  \/ app = "fifo" /\ IsAck(data)

AckInv ==
  /\ AckReportedOnce
  /\ Pending => reported < acks

(* Only what is heard makes an ACK pending. *)
LEMMA NothingHeard ==
  ASSUME AckInv, acks' = acks, reported' = reported, Pending' => Pending
  PROVE  AckInv'
  BY DEF AckInv, AckReportedOnce

LEMMA AckStep == IInv /\ OwnInv /\ AckInv /\ [Next]_vars => AckInv'
<1> SUFFICES ASSUME IInv, OwnInv, AckInv, [Next]_vars PROVE AckInv'
  OBVIOUS
<1>0. acks \in Nat /\ reported \in Nat /\ fifo \in Seq(Frame) /\ (hdr # None => hdr \in Frame)
  BY DEF IInv, TypeInv
<1>1. ASSUME NEW f \in Heard, Hear(f) PROVE AckInv'
  <2>1. CASE f.ctl = "ACK"
    <3>1. reported < acks' /\ acks' \in Nat /\ reported' = reported
      BY <1>0, <1>1, <2>1 DEF Hear, histVars, AckInv, AckReportedOnce
    <3> QED
      BY <1>0, <3>1 DEF AckInv, AckReportedOnce
  <2>2. CASE f.ctl # "ACK"
    <3>1. fifo' = <<f>> /\ ~ IsAck(f)
      BY <1>1, <2>2 DEF Hear, IsAck
    <3> QED
      BY <1>0, <1>1, <2>2, <3>1, NothingHeard DEF Hear, rfVars, appVars, Pending
  <2> QED
    BY <2>1, <2>2
<1>2. CASE Transmit
  <2>1. fifo # << >> /\ fifo' = Tail(fifo) /\ UNCHANGED <<mode, hdr, data, isr, app, acks, reported>>
    BY <1>2 DEF Transmit, rfVars, appVars
  <2>2. \A k \in 1 .. Len(fifo') : k + 1 \in 1 .. Len(fifo) /\ fifo'[k] = fifo[k + 1]
    BY <1>0, <2>1
  <2> QED
    BY <1>0, <2>1, <2>2, NothingHeard DEF Pending, Reading
<1>3. CASE IsrCall \/ IsrLock \/ IsrNoPayload \/ IsrStandby
  BY <1>0, <1>3, NothingHeard
  DEF IsrCall, IsrLock, IsrNoPayload, IsrUnlock, IsrStandby, SetMode, chipVars, rfVars, appVars, histVars,
      Pending, Reading, Copying
<1>4. CASE IsrRefuse
  <2>1. hdr' = None /\ fifo' = << >> /\ UNCHANGED <<data, app, acks, reported>>
    BY <1>4 DEF IsrRefuse, StartReceiving, appVars, histVars
  <2>2. Pending' => Pending
    BY <2>1 DEF Pending, IsAck
  <2> QED
    BY <2>1, <2>2, NothingHeard
<1>5. CASE IsrHeader
  <2>1. fifo # << >> /\ hdr' = fifo[1] /\ 1 \in 1 .. Len(fifo) /\ isr = "header"
    BY <1>0, <1>5 DEF IsrHeader
  <2> QED
    BY <1>5, <2>1, NothingHeard DEF IsrHeader, chipVars, appVars, histVars, Pending, Reading, Copying
<1>6. CASE IsrData
  <2>1. isr = "data" /\ isr' = "done" /\ UNCHANGED <<mode, hdr, app, acks, reported>>
    BY <1>6 DEF IsrData, appVars, histVars
  <2>2. CASE fifo = << >>
    BY <1>6, <2>1, <2>2, NothingHeard DEF IsrData, Pending, Reading, Copying
  <2>3. CASE fifo # << >>
    <3>1. data' = fifo[1] /\ 1 \in 1 .. Len(fifo) /\ fifo' = Tail(fifo)
      BY <1>0, <1>6, <2>3 DEF IsrData
    <3>2. \A k \in 1 .. Len(fifo') : k + 1 \in 1 .. Len(fifo) /\ fifo'[k] = fifo[k + 1]
      BY <1>0, <2>3, <3>1
    <3> QED
      BY <2>1, <3>1, <3>2, NothingHeard DEF Pending, Reading, Copying
  <2> QED
    BY <2>2, <2>3
<1>7. CASE IsrDone
  BY <1>0, <1>7, NothingHeard DEF IsrDone, IsrUnlock, SetMode, appVars, histVars, Pending, Reading, Copying
<1>8. ASSUME NEW c \in Call, NEW to \in Peer \cup {Me, Broadcast}, Begin(c, to) PROVE AckInv'
  <2>1. UNCHANGED <<fifo, mode, data, isr, acks, reported>> /\ app' # "fifo"
    BY <1>8 DEF Begin, chipVars, Goto, Call
  <2>2. IsAck(hdr') => IsAck(hdr)
    BY <1>0, <1>8, BeginHdr, Frames DEF IsAck
  <2>3. Pending' => Pending
    BY <2>1, <2>2 DEF Pending
  <2> QED
    BY <2>1, <2>3, NothingHeard
<1>9. CASE CallReceiveDone \/ ChannelBusy
  <2>1. ReceiveDone /\ UNCHANGED <<data, isr, acks, reported>> /\ (app' = "fifo" => app = "fifo")
    BY <1>9, ReceiveDoneCases DEF CallReceiveDone, ChannelBusy, Return, appVars, histVars
  <2>2. Pending' => Pending
    BY <2>1, ReceiveDoneCases DEF Pending, IsAck, Received, Reading, Copying
  <2> QED
    BY <2>1, <2>2, NothingHeard
<1>10. CASE PollAck
  <2>1. ReceiveDone /\ isr' = isr /\ data' = data /\ acks' = acks
    BY <1>10, ReceiveDoneCases DEF PollAck
  <2>2. CASE AckMatches
    <3>1. mode = "rx" /\ hdr # None /\ hdr.ctl = "ACK"
      BY <2>2 DEF AckMatches, Received
    <3>2. mode' = "standby" /\ app' = "idle" /\ isr' \notin Reading
      BY <1>10, <2>1, <2>2, <3>1, ReceiveDoneCases DEF PollAck, Return
    <3>3. ~ Pending'
      BY <3>2 DEF Pending, Reading, Copying
    <3>4. reported' = reported \/ (hdr.from \in Peer /\ reported' = reported + 1)
      BY <1>10, <2>2 DEF PollAck
    <3>5. hdr.from \in Peer => reported < acks
      BY <3>1 DEF AckInv, Pending, IsAck
    <3>6. reported' <= acks'
      BY <1>0, <2>1, <3>4, <3>5 DEF AckInv, AckReportedOnce
    <3> QED
      BY <3>3, <3>6 DEF AckInv, AckReportedOnce
  <2>3. CASE ~ AckMatches
    <3>1. UNCHANGED <<app, reported>>
      BY <1>10, <2>3 DEF PollAck
    <3>2. Pending' => Pending
      BY <2>1, <3>1, ReceiveDoneCases DEF Pending, IsAck, Received, Reading, Copying
    <3> QED
      BY <2>1, <3>1, <3>2, NothingHeard
  <2> QED
    BY <2>2, <2>3
<1>11. CASE Standby
  <2>1. UNCHANGED <<fifo, data, isr, acks, reported>> /\ app' # "fifo" /\ mode' = "standby"
    BY <1>11 DEF Standby, Goto, SetMode
  <2>2. hdr' = hdr \/ (app = "standby" /\ hdr # None /\ tx.to \in Peer \cup {Me} /\ hdr' = [hdr EXCEPT !.from = tx.to])
    BY <1>11 DEF Standby, IInv, CallInv
  <2>3. IsAck(hdr') => IsAck(hdr)
    <3>1. CASE hdr' = hdr
      BY <3>1
    <3>2. CASE hdr' # hdr
      <4>1. hdr \in Frame /\ hdr' = [hdr EXCEPT !.from = tx.to] /\ tx.to \in Peer \cup {Me} /\ hdr.from # Me
        BY <1>0, <2>2, <3>2 DEF OwnInv
      <4>2. hdr # None /\ hdr.from \in Peer /\ hdr'.ctl = hdr.ctl
        BY <4>1, Frames
      <4> QED
        BY <4>2 DEF IsAck
    <3> QED
      BY <3>1, <3>2
  <2>4. Pending' => Pending
    BY <2>1, <2>3 DEF Pending
  <2> QED
    BY <2>1, <2>4, NothingHeard
<1>12. CASE Fill
  <2>1. UNCHANGED <<fifo, hdr, mode, isr, acks, reported>> /\ data' = tx
    BY <1>12 DEF Fill, chipVars, histVars
  <2>2. ~ IsAck(data')
    BY <2>1, RfAssumption DEF IsAck, IInv, CallInv
  <2>3. Pending' => Pending
    BY <2>1, <2>2 DEF Pending
  <2> QED
    BY <2>1, <2>3, NothingHeard
<1>13. CASE WriteFifo
  <2>1. app = "fifo" /\ app' = "tx" /\ fifo' = Append(fifo, data) /\ UNCHANGED <<hdr, data, mode, isr, acks, reported>>
    BY <1>13 DEF WriteFifo, Goto, rfVars, histVars
  <2>2. \A k \in 1 .. Len(fifo') : (k \in 1 .. Len(fifo) /\ fifo'[k] = fifo[k]) \/ fifo'[k] = data
    BY <1>0, <2>1
  <2>3. Pending' => Pending
    BY <2>1, <2>2 DEF Pending
  <2> QED
    BY <2>1, <2>3, NothingHeard
<1>14. CASE Sleep \/ StartTx \/ \E ok \in BOOLEAN : EndTx(ok)
  BY <1>0, <1>14, NothingHeard DEF Sleep, StartTx, EndTx, AfterSend, SetMode, Goto, Return, histVars, Pending
<1>15. CASE ChannelFree \/ ChannelTimeout \/ NotReady \/ PollTimeout
  BY <1>0, <1>15, NothingHeard
  DEF ChannelFree, ChannelTimeout, NotReady, PollTimeout, AfterSend, Goto, Return, chipVars, rfVars, histVars, Pending
<1>16. CASE DeleteLockSpi \/ DeleteLockRcv \/ DeleteJoin
  BY <1>0, <1>16, NothingHeard DEF DeleteLockSpi, DeleteLockRcv, DeleteJoin, Goto, chipVars, rfVars, histVars, Pending
<1>17. CASE SetPromiscuous \/ UNCHANGED vars
  BY <1>0, <1>17, NothingHeard DEF SetPromiscuous, vars, chipVars, rfVars, appVars, histVars, Pending
<1> QED
  BY <1>1, <1>2, <1>3, <1>4, <1>5, <1>6, <1>7, <1>8, <1>9, <1>10, <1>11, <1>12, <1>13, <1>14, <1>15, <1>16, <1>17
  DEF Next, Isr, Run, Env, IInv, TypeInv
-----------------------------------------------------------------------------
(* Unless iRf69CanSend left a frame that was heard unserved: the data      *)
(* follow the header, since vRf69Isr does not copy while iRf69SendFrame    *)
(* fills rf->data; ...                                                     *)
Same(f, g) == f # None /\ g # None /\ f.id = g.id
CopyInv ==
  /\ isr = "data" => fifo # << >> /\ Same(hdr, Head(fifo))
  /\ isr = "done" => Same(hdr, data)
  /\ mode = "rx" /\ hdr # None => Same(hdr, data)
  /\ Finished("ReceiveDone") => Same(hdr, data)

(* ... iRf69SendFrame finds the FIFO empty, and what raises the pin while  *)
(* it waits is the frame that it wrote.                                    *)
FifoInv ==
  /\ app \in Sending => isr \notin Copying /\ mode # "rx"
  /\ app \in {"frame", "fill", "fifo"} => fifo = << >>
  /\ app = "fifo" => data = tx
  /\ app = "tx" => fifo = <<tx>>
  /\ app = "wait" => IF pin THEN sent = tx /\ fifo = << >> ELSE fifo = <<tx>>
  /\ SentIsAsked

CleanInv == clean => CopyInv /\ FifoInv

(* Nothing but the application changes what was asked. *)
LEMMA AskedKept ==
  ASSUME UNCHANGED <<app, call, tx, result>>, sent' = sent, SentIsAsked PROVE SentIsAsked'
  BY DEF SentIsAsked, Finished

(* A call that goes on, or that returns false, has sent nothing it says.   *)
LEMMA NotFinished ==
  ASSUME app' # "idle" \/ result' = FALSE \/ call' \notin {"Send", "SendNoAck", "SendAck"} PROVE SentIsAsked'
  BY DEF SentIsAsked, Finished

(* vRf69Isr finds no payload during iRf69SendFrame. *)
LEMMA NoPayload == IInv /\ FifoInv /\ app \in Sending => ~ PayloadReady
<1> SUFFICES ASSUME IInv, FifoInv, app \in Sending, mode # "tx", fifo # << >> PROVE Head(fifo).from = Me
  BY DEF PayloadReady
<1>1. tx # None /\ tx.from = Me
  BY DEF IInv, CallInv, Sending
<1>2. fifo = <<tx>> /\ Head(<<tx>>) = tx
  BY DEF FifoInv, Sending
<1> QED
  BY <1>1, <1>2

(* The steps of the chip and of the polling thread. *)
LEMMA CleanIsr ==
  ASSUME IInv, StandbyInv, CopyInv, FifoInv, Isr \/ Transmit \/ \E f \in Heard : Hear(f)
  PROVE  CopyInv' /\ FifoInv'
<1> USE DEF Reading, Copying
<1>0. fifo \in Seq(Frame) /\ (mode = "tx" => app = "wait") /\ (isr \in Copying => mode # "rx")
      /\ (isr \in Copying => app \notin Sending) /\ SentIsAsked
  BY DEF IInv, TypeInv, ModeInv, FifoInv
<1>1. ASSUME NEW f \in Heard, Hear(f) PROVE CopyInv' /\ FifoInv'
  <2>1. /\ mode = "rx" /\ UNCHANGED <<mode, hdr, data, isr, app, call, tx, result, sent>>
    BY <1>1 DEF Hear, rfVars, appVars
  <2>2. app \notin Sending /\ isr \notin Copying
    BY <1>0, <2>1 DEF FifoInv
  <2>3. CopyInv'
    BY <2>1, <2>2 DEF CopyInv, Finished
  <2>4. FifoInv'
    BY <1>0, <2>1, <2>2, AskedKept DEF FifoInv, Sending
  <2> QED
    BY <2>3, <2>4
<1>2. CASE Transmit
  <2>1. /\ mode = "tx" /\ app = "wait" /\ fifo # << >> /\ sent' = Head(fifo) /\ pin' = TRUE /\ fifo' = Tail(fifo)
        /\ UNCHANGED <<mode, hdr, data, isr, app, call, tx, result>> /\ isr \notin Copying
    BY <1>0, <1>2 DEF Transmit, rfVars, appVars, Sending
  <2>2. fifo = <<tx>> /\ Head(<<tx>>) = tx /\ Tail(<<tx>>) = << >>
    BY <2>1 DEF FifoInv
  <2>3. CopyInv'
    BY <2>1 DEF CopyInv, Finished
  <2>4. FifoInv'
    BY <2>1, <2>2, NotFinished DEF FifoInv
  <2> QED
    BY <2>3, <2>4
<1>3. CASE IsrCall \/ IsrLock \/ IsrNoPayload
  <2>1. /\ UNCHANGED <<fifo, pin, mode, hdr, data, app, call, tx, result, sent>>
        /\ isr \notin Copying /\ isr' \notin Copying
    BY <1>3 DEF IsrCall, IsrLock, IsrNoPayload, IsrUnlock, chipVars, rfVars, appVars, histVars
  <2> QED
    BY <1>0, <2>1, AskedKept DEF CopyInv, FifoInv, Finished
<1>4. CASE IsrStandby
  <2>1. /\ isr' = "header" /\ mode' = "standby" /\ PayloadReady
        /\ UNCHANGED <<fifo, pin, hdr, data, app, call, tx, result, sent>>
    BY <1>4 DEF IsrStandby, SetMode, appVars, histVars
  <2>2. app \notin Sending
    BY <2>1, NoPayload
  <2> QED
    BY <1>0, <2>1, <2>2, AskedKept DEF CopyInv, FifoInv, Finished, Sending
<1>5. CASE IsrHeader
  <2>1. /\ isr = "header" /\ isr' = "data" /\ fifo # << >> /\ hdr' = Head(fifo) /\ mode # "rx"
        /\ UNCHANGED <<fifo, pin, mode, data, app, call, tx, result, sent>>
    BY <1>0, <1>5 DEF IsrHeader, chipVars, appVars, histVars
  <2>2. Same(hdr', Head(fifo))
    <3>1. Head(fifo) \in Frame
      BY <1>0, <2>1
    <3> QED
      BY <2>1, <3>1, Frames DEF Same
  <2>3. CopyInv'
    BY <2>1, <2>2 DEF CopyInv, Finished, StandbyInv
  <2>4. FifoInv'
    BY <1>0, <2>1, AskedKept DEF FifoInv
  <2> QED
    BY <2>3, <2>4
<1>6. CASE IsrRefuse
  <2>1. /\ hdr' = None /\ fifo' = << >> /\ isr' = "off" /\ isr \in Copying
        /\ UNCHANGED <<data, app, call, tx, result, sent>>
    BY <1>6 DEF IsrRefuse, StartReceiving, IsrUnlock, appVars, histVars
  <2>2. app \notin Sending
    BY <1>0, <2>1
  <2> QED
    BY <1>0, <2>1, <2>2, AskedKept DEF CopyInv, FifoInv, Finished, StandbyInv, Sending
<1>7. CASE IsrData
  <2>1. /\ isr = "data" /\ isr' = "done" /\ fifo # << >> /\ data' = Head(fifo) /\ Same(hdr, Head(fifo))
        /\ mode # "rx" /\ UNCHANGED <<pin, mode, hdr, app, call, tx, result, sent>>
    BY <1>0, <1>7 DEF IsrData, appVars, histVars, CopyInv
  <2>2. app \notin Sending
    BY <1>0, <2>1
  <2> QED
    BY <1>0, <2>1, <2>2, AskedKept DEF CopyInv, FifoInv, Finished, StandbyInv, Sending
<1>8. CASE IsrDone
  <2>1. /\ isr = "done" /\ isr' = "off" /\ mode' = "rx"
        /\ UNCHANGED <<fifo, hdr, data, app, call, tx, result, sent>>
    BY <1>8 DEF IsrDone, IsrUnlock, SetMode, appVars, histVars
  <2>2. app \notin Sending
    BY <1>0, <2>1
  <2> QED
    BY <1>0, <2>1, <2>2, AskedKept DEF CopyInv, FifoInv, Finished, StandbyInv, Sending
<1> QED
  BY <1>1, <1>2, <1>3, <1>4, <1>5, <1>6, <1>7, <1>8 DEF Isr
(* SetMode(standby) in iRf69CanSend, with nothing left to serve, and in    *)
(* iRf69SendFrame.                                                         *)
LEMMA CleanStandby ==
  ASSUME IInv, CleanInv, Standby, clean'
  PROVE  CopyInv' /\ FifoInv'
<1>1. /\ mode' = "standby" /\ app' \in {"frame", "fill"} /\ isr' = isr /\ fifo' = fifo
      /\ isr \notin Copying /\ fifo = << >>
  <2>1. CASE app = "standby"
    BY <2>1 DEF Standby, SetMode, Goto, Copying
  <2>2. CASE app # "standby"
    BY <2>2 DEF Standby, SetMode, Goto, CleanInv, FifoInv, Sending
  <2> QED
    BY <2>1, <2>2
<1>2. CopyInv'
  BY <1>1 DEF CopyInv, Finished, Copying
<1>3. FifoInv'
  BY <1>1, NotFinished DEF FifoInv
<1> QED
  BY <1>2, <1>3

(* The other steps of the application. *)
LEMMA CleanApp ==
  ASSUME IInv, StandbyInv, CopyInv, FifoInv, [Next]_vars,
         ~ (Isr \/ Transmit \/ Standby \/ \E f \in Heard : Hear(f))
  PROVE  CopyInv' /\ FifoInv'
<1> USE DEF Copying, Sending
<1>0. (hdr # None => hdr \in Frame) /\ SentIsAsked
  BY DEF IInv, TypeInv, FifoInv
<1>1. ASSUME NEW c \in Call, NEW to \in Peer \cup {Me, Broadcast}, Begin(c, to) PROVE CopyInv' /\ FifoInv'
  <2>1. /\ UNCHANGED <<fifo, mode, data, isr>> /\ app = "idle"
        /\ app' \notin {"idle"} \cup Sending
    BY <1>1 DEF Begin, chipVars, Goto, Call
  <2>2. hdr' # None => hdr # None /\ (Same(hdr, data) => Same(hdr', data))
        /\ (fifo # << >> /\ Same(hdr, Head(fifo)) => Same(hdr', Head(fifo)))
    BY <1>0, <1>1, BeginHdr, Frames DEF Same
  <2>3. isr \in {"data", "done"} => hdr' # None
    BY <1>1, BeginHdr DEF IInv, ModeInv
  <2>4. CopyInv'
    BY <2>1, <2>2, <2>3 DEF CopyInv, Finished
  <2>5. FifoInv'
    BY <2>1, NotFinished DEF FifoInv
  <2> QED
    BY <2>4, <2>5
<1>2. CASE CallReceiveDone \/ ChannelBusy \/ PollAck
  <2>1. /\ ReceiveDone /\ isr' = isr /\ UNCHANGED <<call, sent, tx>> /\ app' \notin Sending
        /\ \/ app' = "idle" /\ call = "ReceiveDone" /\ result' = Received
           \/ app' = "idle" /\ call \in {"WaitAck", "SendWithRetry"}
           \/ app' \in {"csma", "poll"}
    BY <1>2 DEF CallReceiveDone, ChannelBusy, PollAck, Return, appVars, histVars, IInv, CallInv
  <2>2. /\ isr \notin {"data", "done"} /\ data' = data
        /\ \/ hdr' = None
           \/ hdr' = hdr /\ mode = "rx"
        /\ (Received => hdr' = hdr /\ mode = "rx" /\ hdr # None)
    BY <2>1, ReceiveDoneCases DEF Received, Reading
  <2>3. CopyInv'
    BY <2>1, <2>2 DEF CopyInv, Finished
  <2>4. SentIsAsked'
    BY <2>1, NotFinished
  <2> QED
    BY <2>1, <2>3, <2>4 DEF FifoInv
<1>3. CASE ChannelFree \/ ChannelTimeout \/ PollTimeout \/ NotReady
  <2>1. /\ UNCHANGED <<fifo, mode, hdr, data, isr, call>> /\ call # "ReceiveDone"
        /\ \/ app' \in {"standby", "csma", "poll"}
           \/ app' = "idle" /\ result' = FALSE
    BY <1>3 DEF ChannelFree, ChannelTimeout, PollTimeout, NotReady, AfterSend, Goto, Return, chipVars, rfVars, IInv, CallInv
  <2>2. CopyInv'
    BY <2>1 DEF CopyInv, Finished
  <2>3. FifoInv'
    BY <2>1, NotFinished DEF FifoInv
  <2> QED
    BY <2>2, <2>3
<1>4. CASE Fill
  <2>1. /\ app = "fill" /\ app' = "fifo" /\ data' = tx /\ UNCHANGED <<fifo, mode, hdr, isr, call, tx>>
    BY <1>4 DEF Fill, Goto, chipVars
  <2> QED
    BY <2>1, NotFinished DEF CopyInv, FifoInv, Finished
<1>5. CASE WriteFifo
  <2>1. /\ app = "fifo" /\ app' = "tx" /\ fifo' = Append(fifo, data) /\ UNCHANGED <<mode, hdr, data, isr, call, tx>>
    BY <1>5 DEF WriteFifo, Goto, rfVars
  <2>2. fifo' = <<tx>>
    BY <2>1 DEF FifoInv
  <2> QED
    BY <2>1, <2>2, NotFinished DEF CopyInv, FifoInv, Finished
<1>6. CASE StartTx
  <2>1. /\ app = "tx" /\ app' = "wait" /\ mode' = "tx" /\ pin' = FALSE /\ UNCHANGED <<fifo, hdr, data, isr, call, tx>>
    BY <1>6 DEF StartTx, SetMode, Goto
  <2> QED
    BY <2>1, NotFinished DEF CopyInv, FifoInv, Finished
<1>7. ASSUME NEW ok \in BOOLEAN, EndTx(ok) PROVE CopyInv' /\ FifoInv'
  <2>1. /\ app = "wait" /\ mode' = "standby" /\ (ok => pin) /\ UNCHANGED <<isr, call, tx, sent>> /\ call # "ReceiveDone"
        /\ \/ app' = "poll"
           \/ app' = "idle" /\ result' = ok
    BY <1>7 DEF EndTx, SetMode, AfterSend, Goto, Return, histVars, IInv, CallInv
  <2>2. SentIsAsked'
    <3>1. CASE ok
      BY <2>1, <3>1 DEF FifoInv, SentIsAsked
    <3>2. CASE ~ ok
      BY <2>1, <3>2, NotFinished
    <3> QED
      BY <3>1, <3>2
  <2> QED
    BY <2>1, <2>2 DEF CopyInv, FifoInv, Finished
<1>8. CASE Sleep
  <2>1. app' = "idle" /\ mode' = "sleep" /\ call = "Sleep" /\ UNCHANGED <<isr, fifo, hdr, data, call>>
    BY <1>8 DEF Sleep, SetMode, Return, IInv, CallInv
  <2> QED
    BY <2>1, NotFinished DEF CopyInv, FifoInv, Finished
<1>9. CASE DeleteLockSpi \/ DeleteLockRcv \/ DeleteJoin
  <2>1. app' \in {"rcv", "join", "deleted"} /\ UNCHANGED <<fifo, mode, hdr, data, isr>>
    BY <1>9 DEF DeleteLockSpi, DeleteLockRcv, DeleteJoin, Goto, chipVars, rfVars
  <2> QED
    BY <2>1, NotFinished DEF CopyInv, FifoInv, Finished
<1>10. CASE SetPromiscuous \/ UNCHANGED vars
  BY <1>0, <1>10, AskedKept DEF SetPromiscuous, vars, chipVars, rfVars, appVars, histVars, CopyInv, FifoInv, Finished
<1> QED
  BY <1>1, <1>2, <1>3, <1>4, <1>5, <1>6, <1>7, <1>8, <1>9, <1>10 DEF Next, Run, Env, IInv, TypeInv

(* Only Standby changes clean. *)
LEMMA SameClean == [Next]_vars /\ ~ Standby => clean' = clean
  BY DEF Next, Isr, Run, Hear, Transmit, IsrCall, IsrLock, IsrNoPayload, IsrStandby, IsrHeader, IsrRefuse, IsrData, IsrDone,
         Begin, SetPromiscuous, CallReceiveDone, Sleep, ChannelFree, ChannelBusy, ChannelTimeout, NotReady, Fill, WriteFifo,
         StartTx, EndTx, PollAck, PollTimeout, DeleteLockSpi, DeleteLockRcv, DeleteJoin, histVars, vars

LEMMA CleanStep == IInv /\ StandbyInv /\ CleanInv /\ [Next]_vars => CleanInv'
<1> SUFFICES ASSUME IInv, StandbyInv, CleanInv, [Next]_vars, clean' PROVE CopyInv' /\ FifoInv'
  BY DEF CleanInv
<1>1. CASE Standby
  BY <1>1, CleanStandby
<1>2. CASE ~ Standby
  <2>1. CopyInv /\ FifoInv
    BY <1>2, SameClean DEF CleanInv
  <2> QED
    BY <1>2, <2>1, CleanIsr, CleanApp
<1> QED
  BY <1>1, <1>2

-----------------------------------------------------------------------------
(* The types, what the step of the application tells of its call and which *)
(* mode of the radio each step of the two threads allows.                  *)
THEOREM Invariance == Spec => [](IInv /\ StandbyInv)
<1>1. Init => IInv /\ StandbyInv
  BY InitIInv DEF Init, StandbyInv, Finished
<1>2. IInv /\ StandbyInv /\ [Next]_vars => (IInv /\ StandbyInv)'
  BY IInvStep, StandbyStep
<1> QED
  BY <1>1, <1>2, PTL DEF Spec

(* AckReportedOnce: iRf69AckReceived reports no acknowledgement of another *)
(* node that was not heard, and none twice, whatever the other nodes send, *)
(* whatever the interrupt does to the buffer that is shared and whether    *)
(* the node is promiscuous or not.                                         *)
THEOREM AcksOnce == Spec => []AckReportedOnce
<1>1. Init => OwnInv /\ AckInv
  BY NoneAssumption DEF Init, OwnInv, AckInv, AckReportedOnce, Pending, IsAck
<1>2. IInv /\ OwnInv /\ AckInv /\ [Next]_vars => (OwnInv /\ AckInv)'
  BY OwnStep, AckStep
<1>3. AckInv => AckReportedOnce
  BY DEF AckInv
<1> QED
  BY <1>1, <1>2, <1>3, Invariance, PTL DEF Spec

(* The pairing of header and data and the FIFO, in every reachable state. *)
LEMMA Clean == Spec => []CleanInv
<1>1. Init => CleanInv
  BY DEF Init, CleanInv, CopyInv, FifoInv, SentIsAsked, Finished, Copying, Sending
<1>2. IInv /\ StandbyInv /\ CleanInv /\ [Next]_vars => CleanInv'
  BY CleanStep
<1> QED
  BY <1>1, <1>2, Invariance, PTL DEF Spec

(* PacketWhole: the data that iRf69ReceiveDone reports are those of the    *)
(* header, however late interrupts are served, if the last iRf69CanSend    *)
(* left no frame that was heard unserved.                                  *)
THEOREM PacketIsWhole == Spec => []PacketWhole
<1>1. CleanInv => PacketWhole
  BY DEF CleanInv, CopyInv, PacketWhole, Same
<1> QED
  BY <1>1, Clean, PTL

(* CleanSentIsAsked: under the same condition the frame that left the      *)
(* antenna is the one that the function that returned true was given.      *)
THEOREM SentWasAsked == Spec => []CleanSentIsAsked
<1>1. CleanInv => CleanSentIsAsked
  BY DEF CleanInv, FifoInv, CleanSentIsAsked
<1> QED
  BY <1>1, Clean, PTL

(* ReportedPacketStable: the packet that iRf69ReceiveDone reported is not  *)
(* changed by the interrupt before the next call.                          *)
THEOREM PacketIsStable == Spec => ReportedPacketStable
<1>1. ASSUME IInv, StandbyInv, [Next]_vars, Finished("ReceiveDone")
      PROVE  UNCHANGED <<hdr, data>> \/ app' # "idle"
  <2>1. mode = "standby" /\ isr \notin Reading /\ app = "idle"
    BY <1>1 DEF StandbyInv, Finished
  <2> QED
    BY <1>1, <2>1 DEF Next, Isr, Run, Hear, Transmit, IsrCall, IsrLock, IsrNoPayload, IsrStandby, IsrHeader, IsrRefuse, IsrData,
      IsrDone, Begin, SetPromiscuous, CallReceiveDone, Sleep, ChannelFree, ChannelBusy, ChannelTimeout, Standby, NotReady, Fill,
      WriteFifo, StartTx, EndTx, PollAck, PollTimeout, DeleteLockSpi, DeleteLockRcv, DeleteJoin, vars, rfVars, Reading, Copying,
      Goto, Call, IInv, TypeInv, Env
<1>2. IInv /\ StandbyInv /\ [Next]_vars => [Finished("ReceiveDone") => UNCHANGED <<hdr, data>> \/ app' # "idle"]_vars
  BY <1>1
<1> QED
  BY <1>2, Invariance, PTL DEF Spec, ReportedPacketStable
=============================================================================
