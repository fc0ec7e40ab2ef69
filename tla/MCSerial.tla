------------------------------ MODULE MCSerial ------------------------------
(* Two users of a serial line, each alone: the bridge of the ChipIo, and   *)
(* the receiver of the tele-information.                                   *)
(*                                                                         *)
(* The bridge has blocks of two bytes, with and without the interrupt pin: *)
(* the bytes come one at a time, so that a turn reads a block or several.  *)
EXTENDS ChipioSerial

CONSTANTS Device, Value, Frames, Faults, Handled, Prompt, MaxSent, MaxChunk

VARIABLES device, line, last, nsent, buf, pchar, ptec, motdetat, demain, sent, passed, calls

tinfoVars == <<line, last, nsent, buf, pchar, ptec, motdetat, demain, sent, passed, calls>>

T == INSTANCE Tinfo WITH got <- passed

(* A meter with a complete frame in three states: two periods, two status  *)
(* words and, in the tempo option, two colours; and a frame that starts    *)
(* with a group the receiver does not know.                                *)
G(l, d) == [label |-> l, data |-> d, ok |-> TRUE]
MCFrames ==
  {<<G("ADCO", 0), G("PTEC", 1), G("MOTDETAT", 1)>>,
   <<G("ADCO", 0), G("OPTARIF BBR", 0), G("PTEC", 1), G("DEMAIN", 1)>>,
   <<G("ADCO", 0), G("OPTARIF BBR", 0), G("ADPS", 0), G("DEMAIN", 2)>>,
   <<G("PTEC", 2)>>}

ASSUME Assumptions == T!TinfoAssumption

MCInit ==
  /\ device \in Device /\ Init /\ T!Init
  /\ device = "meter" => ~ pin

MCNext ==
  /\ UNCHANGED device
  /\ \/ device = "bridge" /\ Next /\ UNCHANGED tinfoVars
     \/ device = "meter" /\ T!Next /\ UNCHANGED vars

(* Fairness of the one that runs. *)
Bridge == device = "bridge"
Meter == device = "meter"
MCFairness ==
  /\ WF_vars(Bridge /\ pvSerialThread) /\ SF_vars(Bridge /\ Cancelled)
  /\ WF_vars(Bridge /\ LineOut) /\ WF_vars(Bridge /\ Configured) /\ WF_vars(Bridge /\ AppRead)
  /\ WF_vars(Bridge /\ AttrWaits) /\ SF_vars(Bridge /\ AttrWaits /\ app' = "idle")
  /\ WF_vars(Bridge /\ Join) /\ WF_line(Meter /\ T!Reads)

MCSpec == MCInit /\ [][MCNext]_<<device, vars, tinfoVars>> /\ MCFairness

ChangesReported == T!ChangesReported
TinfoLink == T!LinkSpec
=============================================================================
