----------------------------- MODULE FrameLink -----------------------------
(***************************************************************************)
(* What every framed link of the library promises its user: the frames     *)
(* sent are handed over one by one, in order, unaltered, each once.  The   *)
(* models of the receivers are shown to implement it.                      *)
(***************************************************************************)
EXTENDS Naturals, Sequences

CONSTANT Frame
VARIABLES sent, got

Init == sent = << >> /\ got = << >>

Send(f) == sent' = Append(sent, f) /\ UNCHANGED got

Deliver ==
  /\ Len(got) < Len(sent)
  /\ got' = Append(got, sent[Len(got) + 1])
  /\ UNCHANGED sent

Next == (\E f \in Frame : Send(f)) \/ Deliver

Spec == Init /\ [][Next]_<<sent, got>> /\ WF_<<sent, got>>(Deliver)
=============================================================================
