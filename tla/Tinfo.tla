------------------------------- MODULE Tinfo -------------------------------
(***************************************************************************)
(* The receiver of the tele-information of an electricity meter            *)
(* (src/tinfo.c): iTinfoPoll reads what the serial line has, whatever way  *)
(* the frames are cut, prviProbeBuffer collects STX ... ETX,               *)
(* prviProbeFrame checks the groups and prviSplitFrame calls the handlers. *)
(*                                                                         *)
(* A symbol of the line is a control character or a whole group            *)
(* LF ... CR: no control character can be inside a group.  Of the fields   *)
(* of a frame the model keeps those that select the handlers.              *)
(***************************************************************************)
EXTENDS Naturals, Sequences, SequencesExt, FiniteSetsExt

CONSTANTS
  Value,    \* what a group may say; 0 is "unknown"
  Frames,   \* what the meter sends: sequences of good groups
  Faults,   \* subset of {"crc", "eot"}: bad check sum, frame interrupted
  Handled,  \* the handlers that are installed
  Prompt,   \* TRUE: the application polls faster than the meter sends
  MaxSent,  \* bound: frames sent
  MaxChunk  \* bound: symbols read by iTinfoPoll

Handler == {"Frame", "Adps", "Ptec", "MotEtat", "Tempo"}
Label == {"ADCO", "ADIR", "ADPS", "PTEC", "MOTDETAT", "OPTARIF BBR", "DEMAIN"}
Group == [label : Label, data : Value, ok : BOOLEAN]
STX == [label |-> "STX"]
ETX == [label |-> "ETX"]
EOT == [label |-> "EOT"]
NUL == [label |-> "NUL"]
Control == {STX, ETX, EOT}

TinfoAssumption ==
  /\ 0 \in Value /\ Value \subseteq Nat
  /\ Frames \subseteq Seq(Group) /\ \A f \in Frames : \A k \in DOMAIN f : f[k].ok
  /\ Faults \subseteq {"crc", "eot"} /\ Handled \subseteq Handler /\ Prompt \in BOOLEAN
  /\ MaxSent \in Nat /\ MaxChunk \in Nat

VARIABLES
  line, last, \* symbols not read yet, the last one sent
  nsent,
  \* ---- xTinfo
  buf, pchar, ptec, motdetat, demain,
  \* ---- history: good frames sent after an ETX, frames handed over, with
  \*      the handlers called for each
  sent, got, calls

lineVars == <<line, last, nsent, sent>>
meterVars == <<ptec, motdetat, demain>>
vars == <<lineVars, buf, pchar, meterVars, got, calls>>

(* The meter was running before: the line begins with the end of a frame.  *)
Init ==
  /\ line = <<ETX>> /\ last = ETX /\ nsent = 0
  /\ buf = << >> /\ pchar = NUL
  /\ ptec = 0 /\ motdetat = 0 /\ demain = 0
  /\ sent = << >> /\ got = << >> /\ calls = << >>

-----------------------------------------------------------------------------
(* The meter.  When the application is prompt, no more than a symbol waits *)
(* when a frame begins, and no chunk holds two control characters.         *)

Put(s, whole) ==
  /\ nsent < MaxSent /\ nsent' = nsent + 1
  /\ Prompt => Len(line) <= 1
  /\ line' = line \o s /\ last' = Last(s)
  /\ sent' = sent \o whole
  /\ UNCHANGED <<buf, pchar, meterVars, got, calls>>

(* A frame is found if it follows an ETX. *)
SendFrame(f) == Put(<<STX>> \o f \o <<ETX>>, IF last = ETX THEN <<f>> ELSE << >>)

SendBad(f, g) == "crc" \in Faults /\ Put(<<STX>> \o [f EXCEPT ![g].ok = FALSE] \o <<ETX>>, << >>)

Interrupt(f, n) == "eot" \in Faults /\ Put(<<STX>> \o SubSeq(f, 1, n) \o <<EOT>>, << >>)

-----------------------------------------------------------------------------
(* prviSplitFrame: one group after the other is read into the frame.       *)

NoFrame == [kind |-> "none", adps |-> FALSE, ptec |-> 0, motdetat |-> 0, tempo |-> FALSE, demain |-> 0]

(* prvvReadItem, prvvReadBlueItem and prvvReadBlueShortItem.  Nothing of a *)
(* short frame is stored where the fields of a complete one are: they are  *)
(* read as 0.                                                              *)
ReadItem(f, g) ==
  CASE f.kind = "none" /\ g.label = "ADCO" -> [f EXCEPT !.kind = "blue"]
    [] f.kind = "none" /\ g.label = "ADIR" -> [f EXCEPT !.kind = "short", !.adps = TRUE]
    [] f.kind = "blue" /\ g.label = "ADPS" -> [f EXCEPT !.adps = TRUE]
    [] f.kind = "blue" /\ g.label = "PTEC" -> [f EXCEPT !.ptec = g.data]
    [] f.kind = "blue" /\ g.label = "MOTDETAT" -> [f EXCEPT !.motdetat = g.data]
    [] f.kind = "blue" /\ g.label = "OPTARIF BBR" -> [f EXCEPT !.tempo = TRUE]
    [] f.kind = "blue" /\ g.label = "DEMAIN" /\ f.tempo -> [f EXCEPT !.demain = g.data]
    [] OTHER -> f

(* The groups of the buffer; what is not a group has no LF. *)
Groups(s) ==
  LET upto[k \in 0 .. Len(s)] ==
        IF k = 0 THEN << >>
        ELSE IF s[k] \in Control THEN upto[k - 1] ELSE Append(upto[k - 1], s[k])
  IN upto[Len(s)]

Parse(groups) == FoldLeft(ReadItem, NoFrame, groups)

(* What is new in a frame. *)
Exceptions(f) ==
  IF f.kind = "none" THEN {}
  ELSE {h \in {"Adps", "Ptec", "MotEtat", "Tempo"} :
          \/ h = "Adps" /\ f.adps
          \/ h = "Ptec" /\ f.ptec # ptec
          \/ h = "MotEtat" /\ f.motdetat # motdetat
          \/ h = "Tempo" /\ f.tempo /\ f.demain # demain}

(* The exception handlers that are installed, otherwise the frame handler. *)
CallsFor(f) ==
  IF Exceptions(f) \cap Handled # {} THEN Exceptions(f) \cap Handled ELSE {"Frame"} \cap Handled

(* Faulty variant: a frame of an unknown meter counts. *)
RememberAnyFrame(f) ==
  /\ ptec' = f.ptec /\ motdetat' = f.motdetat
  /\ demain' = IF "Tempo" \in Exceptions(f) THEN f.demain ELSE demain

Remember(f) ==
  /\ ptec' = IF f.kind = "none" THEN ptec ELSE f.ptec
  /\ motdetat' = IF f.kind = "none" THEN motdetat ELSE f.motdetat
  /\ demain' = IF "Tempo" \in Exceptions(f) THEN f.demain ELSE demain

prviSplitFrame(s) ==
  /\ got' = Append(got, Groups(s))
  /\ calls' = Append(calls, CallsFor(Parse(Groups(s))))
  /\ Remember(Parse(Groups(s)))

ChecksumsOk(s) == \A g \in ToSet(Groups(s)) : g.ok

(* prviProbeFrame: a frame with a wrong group is dropped as a whole. *)
prviProbeFrame(s) ==
  /\ buf' = << >>
  /\ IF ChecksumsOk(s) THEN prviSplitFrame(s) ELSE UNCHANGED <<got, calls, meterVars>>

-----------------------------------------------------------------------------
(* prviProbeBuffer *)

Before(c, k) == IF k = 1 THEN pchar ELSE c[k - 1]
Starts(c) == {k \in 1 .. Len(c) : Before(c, k) = ETX /\ c[k] = STX}

(* Nothing in the buffer: ETX STX is looked for, and all that follows is   *)
(* stored, an ETX like the rest.                                           *)
Search(c) ==
  /\ buf = << >>
  /\ IF Starts(c) # {} THEN buf' = SubSeq(c, Min(Starts(c)), Len(c)) /\ pchar' = NUL
     ELSE pchar' = Last(c) /\ UNCHANGED buf
  /\ UNCHANGED <<meterVars, got, calls>>

(* An EOT flushes what was stored before it. *)
AfterEot(c) ==
  LET eots == {k \in 1 .. Len(c) : c[k] = EOT}
  IN IF eots = {} THEN buf \o c ELSE SubSeq(c, Max(eots) + 1, Len(c))

(* Faulty variant: the ETX is not remembered. *)
CollectForgetsEtx(c) ==
  /\ buf # << >>
  /\ IF Contains(c, ETX)
       THEN LET k == SelectInSeq(c, LAMBDA x : x = ETX)
            IN prviProbeFrame(AfterEot(SubSeq(c, 1, k)))
       ELSE buf' = AfterEot(c) /\ UNCHANGED <<meterVars, got, calls>>
  /\ UNCHANGED pchar

(* The frame ends at the first ETX: what follows in the chunk is dropped.  *)
Collect(c) ==
  /\ buf # << >>
  /\ IF Contains(c, ETX)
       THEN LET k == SelectInSeq(c, LAMBDA x : x = ETX)
            IN prviProbeFrame(AfterEot(SubSeq(c, 1, k))) /\ pchar' = ETX
       ELSE buf' = AfterEot(c) /\ UNCHANGED <<pchar, meterVars, got, calls>>

(* Frames last longer than the time between two calls, and so does the     *)
(* silence between them.                                                   *)
InTime(c) == \A j, k \in DOMAIN c : c[j] \in Control /\ c[k] \in Control => j = k

iTinfoPoll(n) ==
  /\ n <= Len(line)
  /\ LET c == SubSeq(line, 1, n)
     IN /\ Prompt => InTime(c)
        /\ Search(c) \/ Collect(c)
  /\ line' = SubSeq(line, n + 1, Len(line))
  /\ UNCHANGED <<last, nsent, sent>>

Poll == \E n \in 1 .. MaxChunk : iTinfoPoll(n)

Next ==
  \/ \E f \in Frames : SendFrame(f)
  \/ \E f \in Frames : \E g \in DOMAIN f : SendBad(f, g)
  \/ \E f \in Frames : \E n \in DOMAIN f : Interrupt(f, n)
  \/ Poll

(* The main loop of the application polls for ever: what is on the line is *)
(* read, which nothing but Poll does.                                      *)
Reads == \E n \in 1 .. Len(line) : line' = SubSeq(line, n + 1, Len(line))
Fairness == WF_line(Reads)
Spec == Init /\ [][Next]_vars /\ Fairness

-----------------------------------------------------------------------------
(* With an application that polls in time the handlers get every good      *)
(* frame that follows an ETX, once and in order, whatever bad or           *)
(* interrupted frames come in between.                                     *)
Link == INSTANCE FrameLink WITH Frame <- Frames
LinkSpec == Link!Spec

(* What a complete frame tells of l, and what the meter told last in the   *)
(* first k frames that were handed over.                                   *)
Tells(f, l) == f.kind = "blue" /\ (l = "DEMAIN" => f.tempo)
Told(f, l) == CASE l = "PTEC" -> f.ptec [] l = "MOTDETAT" -> f.motdetat [] l = "DEMAIN" -> f.demain
Said(k, l) ==
  LET telling == {j \in 1 .. k : Tells(Parse(got[j]), l)}
  IN IF telling = {} THEN 0 ELSE Told(Parse(got[Max(telling)]), l)

(* A handler of changes is called exactly for the frames that change what  *)
(* the meter said before.                                                  *)
ChangeReported(h, l) ==
  h \in Handled =>
    \A k \in DOMAIN got : h \in calls[k] <=> Said(k, l) # Said(k - 1, l)

ChangesReported ==
  /\ ChangeReported("Ptec", "PTEC")
  /\ ChangeReported("MotEtat", "MOTDETAT")
  /\ ChangeReported("Tempo", "DEMAIN")

=============================================================================
