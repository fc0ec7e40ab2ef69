------------------------------- MODULE LedRgb -------------------------------
(***************************************************************************)
(* RGB leds on controllers TLC59116 (src/ledrgb.c, src/i2c/tlc59116.c).    *)
(* The driver has a copy of the registers of each controller: it changes   *)
(* the copy, then writes the register; four outputs share a register of    *)
(* modes, and the leds share the brightness and blinking of a controller.  *)
(*                                                                         *)
(* A call is a list of writes, that stops at the first that fails (but see *)
(* GoesOn); the controller has then taken it or not.  The registers are    *)
(* fields: a cell is <<register, field>>, a register <<name, number>>.     *)
(* The gain and the reading of the errors are left out.                    *)
(***************************************************************************)
EXTENDS Integers, SequencesExt, FiniteSetsExt

CONSTANTS
  Setups,   \* the controllers of the device, given by their buses
  Out,      \* the outputs of a controller that are used
  Led,      \* the leds that may be added: <<red, green, blue>>, each a pin <<controller, output>>
  LedMode, Color, Dimming, Period, \* what the application asks for
  MaxLedCalls \* bound

VARIABLES
  setup,    \* the buses of the controllers
  chip,     \* the registers of the controllers
  shadow,   \* ctrl[].regs, their copies
  phase,    \* "closed", "opening", "open"
  nof_ctrl, \* the controllers that iOpen has started
  leds,     \* d->leds
  todo,     \* the writes of the call that is under way
  ledCall,     \* that call: whether it adds a led, and what it asks for
  shows,    \* history: what each output and controller may show
  ledCalls

(* A device has controllers; the outputs of a TLC59116 are numbered from 0 *)
(* to 15.                                                                  *)
LedRgbAssumption ==
  /\ \A s \in Setups : Len(s) \in Nat \ {0} /\ DOMAIN s = 1 .. Len(s)
  /\ Out \subseteq 0 .. 15
  /\ Led \subseteq [1 .. 3 -> Nat \X Nat]
  /\ \A led \in Led, i \in 1 .. 3 : led[i][1] > 0 /\ (led[i][2] < 16 => led[i][2] \in Out)

vars == <<setup, chip, shadow, phase, nof_ctrl, leds, todo, ledCall, shows, ledCalls>>

MODE1 == <<"MODE1", 0>>
MODE2 == <<"MODE2", 0>>
GRPPWM == <<"GRPPWM", 0>>
GRPFREQ == <<"GRPFREQ", 0>>
PWM(out) == <<"PWM", out>>
LEDOUT(n) == <<"LEDOUT", n>>
OSC == <<MODE1, 4>>
EFCLR == <<MODE2, 7>>
DMBLNK == <<MODE2, 5>>

(* The cells of an output *)
ModeCell(out) == <<LEDOUT(out \div 4), 2 * (out % 4)>>
PwmCell(out) == <<PWM(out), 0>>

Cells == {OSC, EFCLR, DMBLNK, <<GRPPWM, 0>>, <<GRPFREQ, 0>>}
           \cup {PwmCell(o) : o \in Out} \cup {ModeCell(o) : o \in Out}

(* The registers after a reset: the oscillator is stopped, all is off. *)
Reset == [c \in Cells |-> CASE c = OSC -> 1 [] c = <<GRPPWM, 0>> -> 255 [] OTHER -> 0]

(* What a controller shows, by its data sheet: the modes and the duty      *)
(* cycles of the outputs, and what they share.                             *)
Item == {<<"mode", o>> : o \in Out} \cup {<<"pwm", o>> : o \in Out} \cup {<<"dim", 0>>, <<"blink", 0>>}

Shown(regs) ==
  [i \in Item |->
     CASE i[1] = "mode" -> regs[ModeCell(i[2])]
       [] i[1] = "pwm" -> regs[PwmCell(i[2])]
       [] i[1] = "dim" -> regs[<<GRPPWM, 0>>]
       [] OTHER -> IF regs[DMBLNK] = 0 THEN -1 ELSE regs[<<GRPFREQ, 0>>]]

Ctrl == DOMAIN setup
NoCall == [adds |-> FALSE, asks |-> <<>>]

Init ==
  /\ setup \in Setups /\ chip = [c \in Ctrl |-> Reset] /\ shadow = chip
  /\ phase = "closed" /\ nof_ctrl = 0 /\ leds = <<>>
  /\ todo = <<>> /\ ledCall = NoCall /\ ledCalls = 0
  /\ shows = [c \in Ctrl |-> [i \in Item |-> {}]]

-----------------------------------------------------------------------------
(* Opening and closing                                                     *)

(* The reset is a call to all the controllers of a bus.  iOpen does it for *)
(* each controller, the ones on the same bus too.                          *)
iSwReset(c) == [d \in Ctrl |-> IF setup[d] = setup[c] THEN Reset ELSE chip[d]]

(* A write of register reg of controller c reaches it. *)
Taken(chips, c, reg, regs) ==
  [chips EXCEPT ![c] = [x \in Cells |-> IF x[1] = reg THEN regs[x] ELSE @[x]]]

iOpenBegin ==
  /\ phase = "closed" /\ ledCalls < MaxLedCalls /\ ledCalls' = ledCalls + 1
  /\ phase' = "opening" /\ nof_ctrl' = 0 /\ leds' = <<>>
  /\ UNCHANGED <<setup, chip, shadow, todo, ledCall, shows>>

iOpen ==
  LET c == nof_ctrl + 1
      regs == [Reset EXCEPT ![OSC] = 0]
  IN /\ phase = "opening" /\ nof_ctrl' = c
     /\ shadow' = [shadow EXCEPT ![c] = regs]
     /\ chip' = Taken(iSwReset(c), c, MODE1, regs)
     /\ phase' = IF c = Len(setup) THEN "open" ELSE "opening"
     /\ shows' = [d \in Ctrl |-> [i \in Item |-> {Shown(Reset)[i]}]]
     /\ UNCHANGED <<setup, leds, todo, ledCall, ledCalls>>

(* The oscillators of the first n controllers are stopped, those whose     *)
(* write fails excepted.                                                   *)
Stopped(chips, n) ==
  {[c \in Ctrl |-> IF c \in S THEN [chips[c] EXCEPT ![OSC] = 1] ELSE chips[c]] : S \in SUBSET (1 .. n)}

iOpenFails ==
  /\ phase = "opening" /\ phase' = "closed"
  /\ \/ chip' \in {chip, iSwReset(nof_ctrl + 1)}  \* the reset fails: returns without iClose
     \/ \E osc \in {0, 1} :
          LET chips == [iSwReset(nof_ctrl + 1) EXCEPT ![nof_ctrl + 1][OSC] = osc]
          IN chip' \in Stopped(chips, nof_ctrl)
  /\ UNCHANGED <<setup, shadow, nof_ctrl, leds, todo, ledCall, shows, ledCalls>>

AtRest == phase = "open" /\ todo = <<>>

iClose ==
  /\ AtRest /\ phase' = "closed" /\ chip' \in Stopped(chip, Len(setup))
  /\ UNCHANGED <<setup, shadow, nof_ctrl, leds, todo, ledCall, shows, ledCalls>>

-----------------------------------------------------------------------------
(* The writes of a call: the cells of the copy that are set.               *)

Only(cell, value) == [x \in {cell} |-> value]

iSetPinMode(pin, mode) == [ctrl |-> pin[1], set |-> Only(ModeCell(pin[2]), mode)]
iSetPinPwm(pin, dcycle) == [ctrl |-> pin[1], set |-> Only(PwmCell(pin[2]), dcycle)]

(* The values for the pins of some leds, red, green and blue in turn *)
iSetMode(pins, mode) == [k \in DOMAIN pins |-> iSetPinMode(pins[k], mode)]
iSetColor(pins, color) == [k \in DOMAIN pins |-> iSetPinPwm(pins[k], color[((k + 2) % 3) + 1])]

(* The controllers of a led, each once, in the order of its pins. *)
Controllers(led) ==
  LET c == [i \in 1 .. 3 |-> led[i][1]]
  IN <<c[1]>> \o (IF c[2] = c[1] THEN <<>> ELSE <<c[2]>>)
              \o (IF c[3] \in {c[1], c[2]} THEN <<>> ELSE <<c[3]>>)

Byte(d) == LET half[n \in Nat] == IF n > 255 THEN half[n \div 2] ELSE n IN half[d]

(* The two writes w for each controller of cs *)
ForEach(cs, w) == [k \in 1 .. 2 * Len(cs) |-> [ctrl |-> cs[(k + 1) \div 2], set |-> w[((k + 1) % 2) + 1]]]

iSetDimmer(led, dimming) ==
  ForEach(Controllers(led), <<Only(<<GRPPWM, 0>>, Byte(dimming)), Only(DMBLNK, 0)>>)

Freq(period) == Min({(Max({period, 42}) * 3) \div 125 - 1, 255})

iSetBlinker(led, period, dcycle) ==
  LET duty == [x \in {<<GRPPWM, 0>>, <<GRPFREQ, 0>>} |->
                 IF x = <<GRPPWM, 0>> THEN Byte(dcycle) ELSE Freq(period)]
  IN ForEach(Controllers(led), <<duty, Only(DMBLNK, 1)>>)

iClrError == ForEach([c \in Ctrl |-> c], <<Only(EFCLR, 1), Only(EFCLR, 0)>>)

-----------------------------------------------------------------------------
(* A call by the application, that asks asked[<<controller, item>>].       *)

Call(writes, asked, adds) ==
  /\ AtRest /\ ledCalls < MaxLedCalls /\ ledCalls' = ledCalls + 1
  /\ todo' = writes /\ ledCall' = [adds |-> adds, asks |-> asked]
  /\ UNCHANGED <<setup, chip, shadow, phase, nof_ctrl, shows>>

(* What the pins are asked: item name, pin k the value v[k]. *)
Asks(pins, name, v) ==
  LET PinOf(k) == <<pins[k][1], <<name, pins[k][2]>>>>
  IN [x \in {PinOf(k) : k \in DOMAIN pins} |-> {v[k] : k \in {j \in DOMAIN pins : PinOf(j) = x}}]

iLedRgbAddLed(led, mode) ==
  /\ \A i \in 1 .. 3 : led[i][1] <= Len(setup) /\ led[i][2] < 16
  /\ leds' = Append(leds, led)
  /\ Call(iSetMode(led, mode), Asks(led, "mode", [k \in 1 .. 3 |-> mode]), TRUE)

(* A group: some of the leds, by increasing numbers; and its pins *)
Groups ==
  {g \in UNION {[1 .. n -> DOMAIN leds] : n \in DOMAIN leds} :
     \A i, j \in DOMAIN g : i < j => g[i] < g[j]}

Pins(g) == [k \in 1 .. 3 * Len(g) |-> leds[g[(k + 2) \div 3]][((k + 2) % 3) + 1]]

iLedRgbSetGrpMode(g, mode) ==
  /\ Call(iSetMode(Pins(g), mode), Asks(Pins(g), "mode", [k \in DOMAIN Pins(g) |-> mode]), FALSE)
  /\ UNCHANGED leds

iLedRgbSetGrpColor(g, color) ==
  /\ Call(iSetColor(Pins(g), color),
          Asks(Pins(g), "pwm", [k \in DOMAIN Pins(g) |-> color[((k + 2) % 3) + 1]]), FALSE)
  /\ UNCHANGED leds

(* What the controllers of a led are asked *)
AsksShared(led, dim, blink) ==
  [x \in {<<led[i][1], n>> : i \in 1 .. 3, n \in {<<"dim", 0>>, <<"blink", 0>>}} |->
     {IF x[2][1] = "dim" THEN dim ELSE blink}]

iLedRgbSetDimmer(led, dimming) ==
  /\ dimming >= 0 /\ Call(iSetDimmer(led, dimming), AsksShared(led, Byte(dimming), -1), FALSE)
  /\ UNCHANGED leds

iLedRgbSetBlinker(led, period, dcycle) ==
  /\ period >= 0 /\ dcycle >= 0
  /\ Call(iSetBlinker(led, period, dcycle), AsksShared(led, Byte(dcycle), Freq(period)), FALSE)
  /\ UNCHANGED leds

iLedRgbClearError == Call(iClrError, <<>>, FALSE) /\ UNCHANGED leds

-----------------------------------------------------------------------------
(* One write: the copy is changed, then its registers are written.         *)

(* Faulty variant: the register is assigned, the other fields are lost. *)
ChangedAlone(regs, w) ==
  [x \in Cells |-> IF x \in DOMAIN w.set THEN w.set[x]
                   ELSE IF \E y \in DOMAIN w.set : y[1] = x[1] THEN 0 ELSE regs[x]]

Changed(regs, w) == [x \in Cells |-> IF x \in DOMAIN w.set THEN w.set[x] ELSE regs[x]]

Written(w, done) ==
  LET regs == Changed(shadow[w.ctrl], w)
  IN /\ shadow' = [shadow EXCEPT ![w.ctrl] = regs]
     /\ chip' = [chip EXCEPT ![w.ctrl] = [x \in Cells |-> IF x[1] \in done THEN regs[x] ELSE @[x]]]

Registers(w) == {x[1] : x \in DOMAIN w.set}

(* The call is over: its values are shown, or may be. *)
Ends(kept) ==
  /\ shows' = [c \in Ctrl |-> [i \in DOMAIN shows[c] |->
       IF <<c, i>> \notin DOMAIN ledCall.asks THEN shows[c][i]
       ELSE ledCall.asks[<<c, i>>] \cup (IF kept THEN shows[c][i] ELSE {})]]
  /\ todo' = <<>> /\ ledCall' = NoCall

WriteOk ==
  /\ todo # <<>> /\ Written(Head(todo), Registers(Head(todo)))
  /\ IF Len(todo) = 1 THEN Ends(FALSE) ELSE todo' = Tail(todo) /\ UNCHANGED <<ledCall, shows>>
  /\ UNCHANGED <<setup, phase, nof_ctrl, leds, ledCalls>>

(* When the second write for a controller fails, iClrError goes on with    *)
(* the next controller.                                                    *)
GoesOn(w) == w.set = Only(EFCLR, 0)

WriteFails ==
  /\ todo # <<>> /\ \E done \in SUBSET Registers(Head(todo)) : Written(Head(todo), done)
  /\ IF GoesOn(Head(todo)) /\ Len(todo) # 1
     THEN todo' = Tail(todo) /\ UNCHANGED <<ledCall, shows, leds>>
     ELSE Ends(TRUE) /\ leds' = IF ledCall.adds THEN Front(leds) ELSE leds
  /\ UNCHANGED <<setup, phase, nof_ctrl, ledCalls>>

Next ==
  \/ iOpenBegin \/ iOpen \/ iOpenFails \/ iClose
  \/ \E l \in Led, m \in LedMode : iLedRgbAddLed(l, m)
  \/ \E g \in Groups :
       \/ \E m \in LedMode : iLedRgbSetGrpMode(g, m)
       \/ \E color \in Color : iLedRgbSetGrpColor(g, color)
  \/ \E k \in DOMAIN leds, d \in Dimming : iLedRgbSetDimmer(leds[k], d)
  \/ \E k \in DOMAIN leds, f \in Period, d \in Dimming : iLedRgbSetBlinker(leds[k], f, d)
  \/ iLedRgbClearError
  \/ WriteOk \/ WriteFails

Spec == Init /\ [][Next]_vars

-----------------------------------------------------------------------------
(* Between the calls every output and every controller shows what the last *)
(* call that concerned it has asked, or, if it failed, what it or the      *)
(* calls before have asked, whatever was written in the same register for  *)
(* other leds meanwhile.  The oscillator of a controller runs when it is   *)
(* alone on its bus.                                                       *)
LedsAsAsked ==
  AtRest =>
    \A c \in Ctrl :
      /\ \A i \in DOMAIN shows[c] : Shown(chip[c])[i] \in shows[c][i]
      /\ (\A d \in Ctrl \ {c} : setup[d] # setup[c]) => chip[c][OSC] = 0
=============================================================================
