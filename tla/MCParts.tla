------------------------------ MODULE MCParts ------------------------------
(* Parts of the library, each alone: the part that is chosen in the        *)
(* initial state is the one that runs.                                     *)
EXTENDS Parts, TLC

CONSTANT Chosen
VARIABLE part

(* Ports of one output, active high or low, and one with a pin that is not *)
(* valid.                                                                  *)
O(num, act) == [num |-> num, act |-> act]
MCPort == {<<O(1, TRUE)>>, <<O(2, FALSE)>>, <<O(2, TRUE), O(9, TRUE)>>}

(* Eight cells in pages of two; the offset of a cell is in two bits, so    *)
(* that half of the memory has another I2C address.                        *)
MCWrites == {<<0, <<1, 2>>>>, <<1, <<1>>>>, <<4, <<2, 1>>>>, <<5, <<2>>>>}
MCReads == {<<0, 2>>, <<3, 3>>, <<4, 4>>}

(* Controllers alone on a bus or not, leds on one of them or on two, one   *)
(* with an output that does not exist.                                     *)
MCSetups == {<<"a">>, <<"a", "a">>, <<"a", "b">>}
MCLed == {<<<<1, 0>>, <<1, 3>>, <<1, 4>>>>, <<<<1, 3>>, <<2, 0>>, <<2, 4>>>>, <<<<1, 0>>, <<1, 3>>, <<1, 16>>>>}
MCColor == {<<1, 255, 2>>, <<255, 0, 1>>}

(* Bytes of two bits: frame numbers 1 to 3, that wrap after three calls,   *)
(* and packets of one byte or of two, that may be written in two parts.    *)
MCOverhead == ("At" :> 1 @@ "RemoteAt" :> 2 @@ "Send64" :> 1 @@ "Send16" :> 2)

(* Where the parts that are not chosen stay: in one initial state. *)
MCInit ==
  /\ part \in Chosen
  /\ Init /\ (part # "gpio" => \A g \in Pin : pin[g].mode = "input")
  /\ V!Init /\ (part # "vector" => ~ twice)
  /\ B!Init /\ (part # "blyss" => fields = [global |-> 5, address |-> 2084, channel |-> 0, on |-> TRUE])
  /\ S!Init /\ (part # "serialline" =>
                  ~ able /\ ts = [speed |-> S!eSerialIntToSpeed(9600), csize |-> "CS8", parenb |-> FALSE, parodd |-> FALSE,
                                  inpck |-> FALSE, cstopb |-> FALSE, crtscts |-> FALSE, soft |-> {}])
  /\ H!Init /\ (part # "modes" => reg = [mode |-> "input", pull |-> "off", level |-> FALSE])
  /\ L!Init /\ (part # "leds" => Len(setup) = 1)
  /\ M!Init /\ D!Init /\ P!Init /\ X!Init

(* Each part with the variables of the others. *)
OnePart ==
  \/ part = "gpio" /\ Next /\ UNCHANGED <<memVars, vectorVars, dlistVars, pinVars, blyssVars, lineVars, modeVars, ledVars, txVars>>
  \/ part = "i2cmem" /\ M!Next /\ UNCHANGED <<vars, vectorVars, dlistVars, pinVars, blyssVars, lineVars, modeVars, ledVars, txVars>>
  \/ part = "vector" /\ V!Next /\ UNCHANGED <<vars, memVars, dlistVars, pinVars, blyssVars, lineVars, modeVars, ledVars, txVars>>
  \/ part = "dlist" /\ D!Next /\ UNCHANGED <<vars, memVars, vectorVars, pinVars, blyssVars, lineVars, modeVars, ledVars, txVars>>
  \/ part = "pin" /\ P!Next /\ UNCHANGED <<vars, memVars, vectorVars, dlistVars, blyssVars, lineVars, modeVars, ledVars, txVars>>
  \/ part = "blyss" /\ B!Next /\ UNCHANGED <<vars, memVars, vectorVars, dlistVars, pinVars, lineVars, modeVars, ledVars, txVars>>
  \/ part = "serialline" /\ S!Next /\ UNCHANGED <<vars, memVars, vectorVars, dlistVars, pinVars, blyssVars, modeVars, ledVars, txVars>>
  \/ part = "modes" /\ H!Next /\ UNCHANGED <<vars, memVars, vectorVars, dlistVars, pinVars, blyssVars, lineVars, ledVars, txVars>>
  \/ part = "leds" /\ L!Next /\ UNCHANGED <<vars, memVars, vectorVars, dlistVars, pinVars, blyssVars, lineVars, modeVars, txVars>>
  \/ part = "xbeetx" /\ X!Next /\ UNCHANGED <<vars, memVars, vectorVars, dlistVars, pinVars, blyssVars, lineVars, modeVars, ledVars>>

MCNext == UNCHANGED part /\ OnePart

(* Fairness of the pin. *)
Routine == part = "pin"
MCSpec ==
  /\ MCInit /\ [][MCNext]_<<part, vars, memVars, vectorVars, dlistVars, pinVars, blyssVars, lineVars, modeVars, ledVars, txVars>>
  /\ WF_pinVars(Routine /\ P!irqThread) /\ WF_pinVars(Routine /\ P!CallNext)
=============================================================================
