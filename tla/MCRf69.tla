------------------------------- MODULE MCRf69 -------------------------------
(* A peer and another node, which frames may be for or come from.  Three   *)
(* scenarios: receiving, with the address filter turned on and off;        *)
(* sending and acknowledging; retries, sleep and closing.                  *)
EXTENDS Rf69

P1 == CHOOSE p \in Peer : TRUE
P2 == CHOOSE p \in Peer : p # P1
F(from, to, ctl) == [from |-> from, to |-> to, ctl |-> ctl]

Receives == [calls |-> {"ReceiveDone", "WaitAck", "SendAck", "SetPromiscuous"},
             frames |-> {F(P1, Me, "ACK"), F(P1, P2, "ACK"), F(P2, P1, "ACKREQ"), F(P2, Broadcast, "none")}]
Sends == [calls |-> {"ReceiveDone", "Send", "WaitAck", "SendAck"},
          frames |-> {F(P1, Me, "ACK"), F(P2, Me, "ACKREQ")}]
Others == [calls |-> {"SendNoAck", "SendWithRetry", "Sleep", "Delete"}, frames |-> {F(P1, Me, "ACK")}]
MCEnvs == {Receives, Sends, Others}
=============================================================================
