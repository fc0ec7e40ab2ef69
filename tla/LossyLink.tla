------------------------------ MODULE LossyLink ------------------------------
(***************************************************************************)
(* What a framed link over an unreliable medium promises: frames may be    *)
(* lost, but what is handed over was sent, unaltered, in order and once.   *)
(***************************************************************************)
EXTENDS Naturals, Sequences

CONSTANT Frame
VARIABLES
  sent, got, \* frames given to the sender, frames handed over
  next       \* the first frame of sent that may still be handed over

Init == sent = << >> /\ got = << >> /\ next = 1

Send(f) == sent' = Append(sent, f) /\ UNCHANGED <<got, next>>

Deliver(n) ==
  /\ got' = Append(got, sent[n])
  /\ next' = n + 1
  /\ UNCHANGED sent

Next == (\E f \in Frame : Send(f)) \/ (\E n \in next .. Len(sent) : Deliver(n))

Spec == Init /\ [][Next]_<<sent, got, next>>
=============================================================================
