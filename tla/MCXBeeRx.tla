------------------------------ MODULE MCXBeeRx ------------------------------
(* Bytes of three bits; the payloads cover every length, an unhandled      *)
(* type, and data equal to the start byte.                                 *)
EXTENDS XBeeRx, TLC

MCPayload == {<<1>>, <<2, 6>>, <<1, 6, 0>>, <<3, 7>>}
Line == {"noise", "crc"}
MCFaultSets == {Line, FaultKind}
\* wrong lengths only
StaleFaultSets == {{"length"}}
StaleMaxSent == [F \in StaleFaultSets |-> 2]
MCMaxSent == [F \in MCFaultSets |-> IF F = Line THEN 3 ELSE 2]
=============================================================================
