------------------------------ MODULE PinModes ------------------------------
(***************************************************************************)
(* Mode, pull resistor and level of a pin (src/gpio/gpiopin.cpp, class     *)
(* Pin, opened and closed by its Gpio, src/gpio/gpio.cpp): what the pin    *)
(* was is held before the first change and given back when it is released. *)
(* The pin is reached by the registers of the device, that can read the    *)
(* pull (src/arch/arm/nanopi), or by sysfs, that knows two modes only.     *)
(*                                                                         *)
(* The Gpio has both layers of access, and one pin.  "bad" is a mode that  *)
(* the device does not have for this pin: setMode throws.                  *)
(***************************************************************************)

CONSTANTS
  PinMode,  \* the modes of the pin: "input", "output", "alt", ...
  Pull,     \* its pulls
  AskedMode \* what the application asks for, "bad" too

Unknown == "unknown"

PinModesAssumption ==
  /\ {"input", "output"} \subseteq PinMode /\ AskedMode \subseteq PinMode \cup {"bad"}
  /\ "bad" \notin PinMode /\ Unknown \notin PinMode \cup Pull

VARIABLES
  reg,      \* the registers: mode, pull, level of the output
  gpioOpen, roc, \* Gpio: _isopen, _roc
  pinOpen, sysFs, wanted, held,
  \*           Pin: _isopen, _useSysFs, _mode and _pull, _holdMode _holdPull _holdState
  found     \* history: the registers before the application changed them

vars == <<reg, gpioOpen, roc, pinOpen, sysFs, wanted, held, found>>

Registers == [mode : PinMode, pull : Pull, level : BOOLEAN]
NothingHeld == [mode |-> Unknown, pull |-> Unknown, state |-> FALSE]

(* Gpio::Gpio, Pin::Pin *)
Init ==
  /\ reg \in Registers /\ found = reg
  /\ gpioOpen = FALSE /\ roc = TRUE
  /\ pinOpen = FALSE /\ sysFs = FALSE
  /\ wanted = [mode |-> Unknown, pull |-> Unknown] /\ held = NothingHeld

(* Another program uses the pin while it is closed. *)
Other ==
  /\ ~ pinOpen /\ reg' \in Registers
  /\ UNCHANGED <<gpioOpen, roc, pinOpen, sysFs, wanted, held, found>>

-----------------------------------------------------------------------------
(* Helpers: h is what is held, r the registers.                            *)

holdMode(h, r) ==
  IF h.mode # Unknown THEN h
  ELSE [h EXCEPT !.mode = r.mode, !.state = IF r.mode = "output" THEN r.level ELSE @]

holdPull(h, r) == IF h.pull # Unknown THEN h ELSE [h EXCEPT !.pull = r.pull]

(* The file "direction": "out" sets the output low. *)
sysFsSetMode(r, m) ==
  CASE m = "input" -> [r EXCEPT !.mode = m]
    [] m = "output" -> [r EXCEPT !.mode = m, !.level = FALSE]
    [] OTHER -> r

sysFsGetMode(r) == IF r.mode = "output" THEN "output" ELSE "input"

(* The mode m by the layer in use; a device that throws changes nothing. *)
WriteMode(sys, r, m) ==
  IF sys THEN sysFsSetMode(r, m) ELSE IF m = "bad" THEN r ELSE [r EXCEPT !.mode = m]

Throws(m) == ~ sysFs /\ m = "bad"

(* sysFsEnable (true): hold, export, open and set or get the mode. *)
Enabled(h, r) == holdPull(holdMode(h, r), r)

EnableSysFs ==
  /\ held' = Enabled(held, reg)
  /\ reg' = sysFsSetMode(reg, wanted.mode)
  /\ wanted' = IF wanted.mode = Unknown THEN [wanted EXCEPT !.mode = sysFsGetMode(reg)] ELSE wanted

(* Unexporting the pin: the kernel may make it an input. *)
Unexported(r) == {r, [r EXCEPT !.mode = "input"]}

(* release: the mode, with the state of an output, then the pull. *)
Released(sys, r, h) ==
  LET m == IF h.mode = Unknown THEN r ELSE WriteMode(sys, r, h.mode)
  IN [m EXCEPT !.level = IF h.mode = "output" THEN h.state ELSE @,
               !.pull = IF h.pull = Unknown THEN @ ELSE h.pull]

(* _mode and _pull after release *)
WantedAfter(h) ==
  [mode |-> IF h.mode = Unknown THEN wanted.mode ELSE h.mode,
   pull |-> IF h.pull = Unknown THEN wanted.pull ELSE h.pull]

-----------------------------------------------------------------------------
(* Gpio::open and Pin::open: what was asked while the pin was closed is    *)
(* written, or else read; by sysfs, the mode that was read is written too. *)
(* The pin is open, and the Gpio is not, if the device throws.             *)

FoundAtOpen ==
  [mode |-> IF held.mode = Unknown THEN reg.mode ELSE found.mode,
   level |-> IF held.mode = Unknown THEN reg.level ELSE found.level,
   pull |-> IF held.pull = Unknown THEN reg.pull ELSE found.pull]

OpenPull(h, r) ==
  IF wanted.pull = Unknown THEN held' = h /\ reg' = r
  ELSE held' = holdPull(h, r) /\ reg' = [r EXCEPT !.pull = wanted.pull]

open ==
  LET writes == sysFs \/ wanted.mode # Unknown
      m == IF wanted.mode # Unknown THEN wanted.mode
           ELSE IF sysFs THEN sysFsGetMode(reg) ELSE reg.mode
      h == IF sysFs THEN Enabled(held, reg) ELSE IF writes THEN holdMode(held, reg) ELSE held
      r == IF writes THEN WriteMode(sysFs, reg, m) ELSE reg
  IN /\ ~ gpioOpen /\ ~ pinOpen /\ pinOpen' = TRUE /\ found' = FoundAtOpen
     /\ IF Throws(wanted.mode)
          THEN gpioOpen' = FALSE /\ held' = h /\ UNCHANGED <<reg, wanted>>
          ELSE /\ gpioOpen' = TRUE /\ OpenPull(h, r)
               /\ wanted' = [mode |-> m, pull |-> IF wanted.pull = Unknown THEN reg.pull ELSE wanted.pull]
     /\ UNCHANGED <<roc, sysFs>>

(* Gpio::open again, after it threw: the pin is already open. *)
OpenAgain ==
  /\ ~ gpioOpen /\ pinOpen /\ gpioOpen' = TRUE
  /\ UNCHANGED <<reg, roc, pinOpen, sysFs, wanted, held, found>>

Close(r) ==
  /\ gpioOpen /\ gpioOpen' = FALSE /\ pinOpen' = FALSE /\ sysFs' = FALSE
  /\ reg' = r
  /\ wanted' = IF roc THEN WantedAfter(held) ELSE wanted
  /\ held' = IF roc THEN NothingHeld ELSE held
  /\ UNCHANGED <<roc, found>>

(* Faulty variant: the pin is released, then unexported. *)
closeLate ==
  LET r == IF roc THEN Released(sysFs, reg, held) ELSE reg
  IN \E u \in IF sysFs THEN Unexported(r) ELSE {r} : Close(u)

(* Gpio::close and Pin::close: sysfs is left, then the pin is released. *)
close ==
  \E u \in IF sysFs THEN Unexported(reg) ELSE {reg} :
    Close(IF roc THEN Released(FALSE, u, held) ELSE u)

setReleaseOnClose(enable) ==
  roc' = enable /\ UNCHANGED <<reg, gpioOpen, pinOpen, sysFs, wanted, held, found>>

-----------------------------------------------------------------------------
(* The pin.  While it is closed, what is asked is kept for its opening.    *)

setMode(m) ==
  /\ wanted' = [wanted EXCEPT !.mode = m]
  /\ IF pinOpen THEN held' = holdMode(held, reg) /\ reg' = WriteMode(sysFs, reg, m)
                ELSE UNCHANGED <<held, reg>>
  /\ UNCHANGED <<gpioOpen, roc, pinOpen, sysFs, found>>

setPull(p) ==
  /\ wanted' = [wanted EXCEPT !.pull = p]
  /\ IF pinOpen THEN held' = holdPull(held, reg) /\ reg' = [reg EXCEPT !.pull = p]
                ELSE UNCHANGED <<held, reg>>
  /\ UNCHANGED <<gpioOpen, roc, pinOpen, sysFs, found>>

(* mode and pull, of an open pin *)
mode ==
  /\ pinOpen
  /\ wanted' = [wanted EXCEPT !.mode = IF sysFs THEN sysFsGetMode(reg) ELSE reg.mode]
  /\ UNCHANGED <<reg, gpioOpen, roc, pinOpen, sysFs, held, found>>

pull ==
  /\ pinOpen /\ wanted' = [wanted EXCEPT !.pull = reg.pull]
  /\ UNCHANGED <<reg, gpioOpen, roc, pinOpen, sysFs, held, found>>

(* write, or toggle.  sysfs refuses it for an input.  A level that is      *)
(* written before any change of mode is the application's.                 *)
write(v) ==
  /\ pinOpen /\ (sysFs => reg.mode = "output")
  /\ reg' = [reg EXCEPT !.level = v]
  /\ found' = IF held.mode = Unknown THEN [found EXCEPT !.level = v] ELSE found
  /\ UNCHANGED <<gpioOpen, roc, pinOpen, sysFs, wanted, held>>

(* release, by an application that has left sysfs: sysfs does not know     *)
(* every mode, and unexporting the pin afterwards changes it again.        *)
release ==
  /\ pinOpen /\ ~ sysFs
  /\ reg' = Released(sysFs, reg, held) /\ wanted' = WantedAfter(held) /\ held' = NothingHeld
  /\ UNCHANGED <<gpioOpen, roc, pinOpen, sysFs, found>>

forceUseSysFs(enable) ==
  /\ sysFs' = enable
  /\ IF ~ pinOpen \/ sysFs = enable THEN UNCHANGED <<reg, wanted, held>>
     ELSE IF enable THEN EnableSysFs
     ELSE reg' \in Unexported(reg) /\ UNCHANGED <<wanted, held>>
  /\ UNCHANGED <<gpioOpen, roc, pinOpen, found>>

Next ==
  \/ Other \/ open \/ OpenAgain \/ close \/ mode \/ pull \/ release
  \/ \E m \in AskedMode : setMode(m)
  \/ \E p \in Pull : setPull(p)
  \/ \E b \in BOOLEAN : setReleaseOnClose(b) \/ write(b) \/ forceUseSysFs(b)

Spec == Init /\ [][Next]_vars

-----------------------------------------------------------------------------
(* A Gpio that releases its pins when it closes gives them back as they    *)
(* were before the application changed them: mode, pull and, if it was an  *)
(* output, level, whatever layers the application used and whatever threw  *)
(* (src/include/sysio/gpio.h, setReleaseOnClose).                          *)
PinGivenBack ==
  [][roc /\ pinOpen /\ ~ pinOpen' =>
       /\ reg'.mode = found.mode /\ reg'.pull = found.pull
       /\ found.mode = "output" => reg'.level = found.level]_vars
=============================================================================
