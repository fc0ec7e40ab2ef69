------------------------------ MODULE MCRadio ------------------------------
(* The two links of libsysio-radio, each on a line of its own, and the     *)
(* client of gpsd: the device chosen in the initial state is the one that  *)
(* is used.                                                                *)
EXTENDS Radio

CONSTANT Device
VARIABLE device

C(rpt, ui, info) == [rpt |-> rpt, ui |-> ui, info |-> info]
Byte == <<"byte", 0>>
MCContents ==
  {C(0, TRUE, <<<<"flag">>>>), C(1, TRUE, <<<<"reset">>, <<"esc">>>>),
   C(0, FALSE, << >>), C(1, TRUE, <<Byte, Byte, Byte>>)}
MCNoise == {<<"flag">>, <<"reset">>, <<"esc">>, Byte}

MCInit == device \in Device /\ Init /\ A!Init /\ T!Init

MCNext ==
  /\ UNCHANGED device
  /\ \/ device = "gps" /\ Next /\ UNCHANGED <<ax25Vars, tncVars>>
     \/ device = "ax25" /\ A!Next /\ UNCHANGED <<vars, tncVars>>
     \/ device = "tnc" /\ T!Next /\ UNCHANGED <<vars, ax25Vars>>

(* Fairness of the one that runs. *)
Client == device = "gps"
MCFairness ==
  /\ WF_vars(Client /\ ReadEnds) /\ WF_vars(Client /\ Count) /\ WF_vars(Client /\ Tell)
  /\ WF_vars(Client /\ TestCallback) /\ WF_vars(Client /\ Call)
  /\ WF_vars(Client /\ CallbackReturns) /\ SF_vars(Client /\ Cancelled)
  /\ WF_vars(Client /\ iGpsReadEnds) /\ WF_vars(Client /\ Used) /\ WF_vars(Client /\ Join)
  /\ SF_vars(Client /\ bGpsDataAvailable) /\ SF_vars(Client /\ iGpsError)

MCSpec ==
  /\ MCInit /\ [][MCNext]_<<device, vars, ax25Vars, tncVars>>
  /\ MCFairness /\ A!Fairness /\ T!Fairness
=============================================================================
