------------------------------ MODULE MCXBeeTx ------------------------------
(* Bytes of two bits and packets of one to three bytes: one thread is      *)
(* enough to see a packet written in two parts.                            *)
EXTENDS XBeeTx, TLC

MCOverhead == ("Send64" :> 1 @@ "Send16" :> 2)
=============================================================================
