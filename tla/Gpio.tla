-------------------------------- MODULE Gpio --------------------------------
(***************************************************************************)
(* The pins of the Raspberry Pi (src/gpio/gpio.c,                          *)
(* src/arch/arm/rpi/gpio.c) and the output ports (src/gpio/doutput.c).     *)
(* There is one xGpio, which the ports and the application open and close; *)
(* the last close gives the pins the modes they had.                       *)
(***************************************************************************)
EXTENDS Naturals, Sequences, FiniteSets

CONSTANTS
  Pin, PwmPin,
  Mode,        \* modes of the application, "pwm" included
  Port,        \* what may be opened with xDoutOpen: sequences of pins with
               \* the level that is active; a pin not of Pin is not valid
  MaxUsers     \* bound: calls of xGpioOpen that the application has not closed

None == "none"

ASSUME GpioAssumption ==
  /\ None \notin Mode
  /\ Port \subseteq Seq([num : Nat, act : BOOLEAN])

VARIABLES
  pin,         \* the mode register, pinmode and pinmode_release of each pin
  level,       \* the output register
  link, roc,   \* xGpio
  open, users, \* ports open, calls of xGpioOpen by the application
  want,        \* history: what each output of an open port was last told,
  touched,     \* the pins that the application set itself, with iGpio...,
  before, left \* the modes before xGpio was opened, and whether the last
               \* close was to leave the pins as they were

vars == <<pin, level, link, roc, open, users, want, touched, before, left>>

Outputs(d) == {d[k].num : k \in 1 .. Len(d)}
Valid(d) == Outputs(d) \subseteq Pin
Active(d, num) == d[CHOOSE k \in 1 .. Len(d) : d[k].num = num].act

Init ==
  /\ pin \in [Pin -> {[mode |-> m, pinmode |-> m, release |-> None] : m \in {"input", "output", "alt5"}}]
  /\ level = [g \in Pin |-> FALSE]
  /\ link = 0 /\ roc = FALSE /\ open = {} /\ users = 0
  /\ want = [g \in Pin |-> FALSE] /\ touched = {}
  /\ before = [g \in Pin |-> pin[g].mode] /\ left = FALSE

-----------------------------------------------------------------------------
(* Faulty variant: the mode to come back to is that of the last change. *)
iArchGpioSetModeLast(m, s) ==
  [mode |-> IF m = "pwm" THEN "alt5" ELSE m, pinmode |-> m, release |-> s.pinmode]

(* The mode to come back to is kept at the first change. *)
iArchGpioSetMode(m, s) ==
  [mode |-> IF m = "pwm" THEN "alt5" ELSE m, pinmode |-> m,
   release |-> IF s.release = None THEN s.pinmode ELSE s.release]

iArchGpioRelease(s) ==
  IF s.release = None THEN s
  ELSE LET t == iArchGpioSetMode(s.release, s) IN
       IF s.release = "input" THEN [t EXCEPT !.release = None] ELSE t

(* What xGpioOpen makes of the pins, and of the history. *)
Opened == IF link > 0 THEN pin
          ELSE [g \in Pin |-> [mode |-> pin[g].mode, pinmode |-> pin[g].mode, release |-> None]]
Remember == IF link > 0 THEN UNCHANGED <<before, left>>
            ELSE before' = [g \in Pin |-> pin[g].mode] /\ left' = FALSE

(* Faulty variant: each close releases the pins. *)
iGpioCloseAlways(s, n, r) ==
  /\ link' = n - 1
  /\ IF r THEN pin' = [g \in Pin |-> iArchGpioRelease(s[g])] ELSE pin' = s
  /\ roc' = (r /\ n > 1)

(* iGpioClose of n links: the last one releases the pins when roc is set.  *)
iGpioClose(s, n, r) ==
  /\ link' = n - 1
  /\ IF n = 1 /\ r THEN pin' = [g \in Pin |-> iArchGpioRelease(s[g])] ELSE pin' = s
  /\ roc' = (r /\ n > 1)

-----------------------------------------------------------------------------
xGpioOpen ==
  /\ users < MaxUsers /\ users' = users + 1
  /\ pin' = Opened /\ link' = link + 1 /\ roc' = (roc \/ link = 0) /\ Remember
  /\ UNCHANGED <<level, open, want, touched>>

GpioClose ==
  /\ users > 0 /\ users' = users - 1
  /\ iGpioClose(pin, link, roc)
  /\ left' = (left \/ (link = 1 /\ ~ roc))
  /\ UNCHANGED <<level, open, want, touched, before>>

iGpioSetReleaseOnClose(enable) ==
  /\ users > 0 /\ roc' = enable
  /\ UNCHANGED <<pin, level, link, open, users, want, touched, before, left>>

iGpioSetMode(g, m) ==
  /\ users > 0 /\ (m = "pwm" => g \in PwmPin)
  /\ pin' = [pin EXCEPT ![g] = iArchGpioSetMode(m, @)]
  /\ touched' = touched \cup {g}
  /\ UNCHANGED <<level, link, roc, open, users, want, before, left>>

iGpioRelease(g) ==
  /\ users > 0
  /\ pin' = [pin EXCEPT ![g] = iArchGpioRelease(@)]
  /\ touched' = touched \cup {g}
  /\ UNCHANGED <<level, link, roc, open, users, want, before, left>>

(* iGpioWrite and iGpioToggle, pin by pin iGpioWriteAll and iGpioToggleAll *)
iGpioWrite(g, value) ==
  /\ users > 0
  /\ level' = [level EXCEPT ![g] = value] /\ touched' = touched \cup {g}
  /\ UNCHANGED <<pin, link, roc, open, users, want, before, left>>

-----------------------------------------------------------------------------
(* iGpioWriteAll of the pins of a port writes those that are outputs. *)
WriteAll(d, s, value) ==
  level' = [g \in Pin |-> IF g \in Outputs(d) /\ s[g].mode = "output"
                          THEN value = Active(d, g) ELSE level[g]]

(* The pins before the first that is not valid are made outputs. *)
Configured(d) ==
  LET last == Cardinality({k \in 1 .. Len(d) : \A j \in 1 .. k : d[j].num \in Pin}) IN
  [g \in Pin |-> IF \E k \in 1 .. last : d[k].num = g
                 THEN iArchGpioSetMode("output", Opened[g]) ELSE Opened[g]]

xDoutOpen(d) ==
  /\ d \notin open /\ Valid(d) /\ (\A e \in open : Outputs(e) \cap Outputs(d) = {})
  /\ pin' = Configured(d) /\ link' = link + 1 /\ roc' = (roc \/ link = 0) /\ Remember
  /\ WriteAll(d, Configured(d), FALSE)
  /\ open' = open \cup {d} /\ touched' = touched \ Outputs(d)
  /\ want' = [g \in Pin |-> want[g] /\ g \notin Outputs(d)]
  /\ UNCHANGED users

(* The port is given up; the pins are released only if nobody uses them.  *)
xDoutOpenError(d) ==
  /\ ~ Valid(d) /\ (\A e \in open : Outputs(e) \cap Outputs(d) = {})
  /\ Remember
  /\ iGpioClose(Configured(d), link + 1, roc \/ link = 0)
  /\ UNCHANGED <<level, open, users, want, touched>>

iDoutClose(d) ==
  /\ d \in open /\ open' = open \ {d}
  /\ iGpioClose(pin, link, roc)
  /\ left' = (left \/ (link = 1 /\ ~ roc))
  /\ UNCHANGED <<level, users, want, touched, before>>

(* iDoutSet, iDoutClear: of an output that may be an output no more. *)
iDoutWrite(d, g, value) ==
  /\ d \in open /\ g \in Outputs(d)
  /\ level' = [level EXCEPT ![g] = (value = Active(d, g))]
  /\ want' = [want EXCEPT ![g] = value]
  /\ UNCHANGED <<pin, link, roc, open, users, touched, before, left>>

(* The level is read from the pin, which shows it if it is an output. *)
iDoutToggle(d, g) ==
  /\ d \in open /\ g \in Outputs(d)
  /\ \E read \in BOOLEAN :
       /\ pin[g].mode = "output" => read = level[g]
       /\ level' = [level EXCEPT ![g] = ~ read]
  /\ want' = [want EXCEPT ![g] = ~ @]
  /\ UNCHANGED <<pin, link, roc, open, users, touched, before, left>>

(* iDoutSetAll, iDoutClearAll *)
iDoutWriteAll(d, value) ==
  /\ d \in open
  /\ WriteAll(d, pin, value)
  /\ want' = [g \in Pin |-> IF g \in Outputs(d) THEN value ELSE want[g]]
  /\ UNCHANGED <<pin, link, roc, open, users, touched, before, left>>

iDoutToggleAll(d) ==
  /\ d \in open
  /\ level' = [g \in Pin |-> IF g \in Outputs(d) /\ pin[g].mode = "output" THEN ~ level[g] ELSE level[g]]
  /\ want' = [g \in Pin |-> IF g \in Outputs(d) THEN ~ want[g] ELSE want[g]]
  /\ UNCHANGED <<pin, link, roc, open, users, touched, before, left>>

Next ==
  \/ xGpioOpen \/ GpioClose
  \/ \E b \in BOOLEAN : iGpioSetReleaseOnClose(b)
  \/ \E g \in Pin, m \in Mode : iGpioSetMode(g, m)
  \/ \E g \in Pin : iGpioRelease(g)
  \/ \E g \in Pin, value \in BOOLEAN : iGpioWrite(g, value)
  \/ \E d \in Port : xDoutOpen(d)
  \/ \E d \in Port : xDoutOpenError(d)
  \/ \E d \in Port : iDoutClose(d)
  \/ \E d \in Port, g \in Pin, value \in BOOLEAN : iDoutWrite(d, g, value)
  \/ \E d \in Port, g \in Pin : iDoutToggle(d, g)
  \/ \E d \in Port, value \in BOOLEAN : iDoutWriteAll(d, value)
  \/ \E d \in Port : iDoutToggleAll(d)

Spec == Init /\ [][Next]_vars

-----------------------------------------------------------------------------
(* When the last user closes xGpio the pins have the modes they had before *)
(* it was opened, whatever was set, released and given up meanwhile, if    *)
(* the application did not ask to leave them.                              *)
ModesRestored ==
  link = 0 /\ ~ left => \A g \in Pin : pin[g].mode = before[g]

(* As long as a port is open its pins are outputs and have the level it    *)
(* was told, whoever opens and closes other ports or xGpio, unless the     *)
(* application sets the mode or the level of the pin itself.               *)
PortsDrive ==
  /\ link = Cardinality(open) + users
  /\ \A d \in open : \A g \in Outputs(d) \ touched :
       pin[g].mode = "output" /\ level[g] = (want[g] = Active(d, g))
=============================================================================
