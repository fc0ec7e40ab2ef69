------------------------------- MODULE Radio -------------------------------
(***************************************************************************)
(* libsysio-radio beside the client of gpsd: the AX.25 link and the link   *)
(* to a terminal node controller, each with its own line and variables.    *)
(***************************************************************************)
EXTENDS Gps, Sequences

CONSTANTS
  Contents, Noise, Clears, MaxRpt, BufLen, MaxFrames, MaxFaults, MaxLine,
  Sizes, MaxMessages

VARIABLES
  line, faults, buf, sync, escape, frmRecv, sent, got, calm, due,
  outq, inq, troubles, state, digits, crcTx, written, read, expected

ax25Vars == <<line, faults, buf, sync, escape, frmRecv, sent, got, calm, due>>
tncVars == <<outq, inq, troubles, state, digits, crcTx, written, read, expected>>

A == INSTANCE Ax25 WITH MaxSent <- MaxFrames
T == INSTANCE Tnc WITH MaxSent <- MaxMessages, faults <- troubles,
                       sent <- written, got <- read, due <- expected

ASSUME LinkAssumptions == A!Ax25Assumption /\ T!TncAssumption

-----------------------------------------------------------------------------
(* What the links hand over was sent, unaltered, in order and once, although *)
(* the line loses and adds characters: each of them implements LossyLink     *)
(* (bAx25Poll and iAx25Read, iTncPoll).                                      *)
LinksKept == A!LinkSpec /\ T!LinkSpec

(* After a fault the next frame and the next message arrive. *)
NextArrives == A!FrameArrives /\ T!MessageArrives
=============================================================================
