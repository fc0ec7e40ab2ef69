----------------------------- MODULE PartsProofs -----------------------------
(***************************************************************************)
(* The parts that share nothing, each for all the values of its constants: *)
(*   - Gpio and the output port: the last close gives the pins the modes   *)
(*     they had, and a port that is open drives its pins;                  *)
(*   - PinModes: closing a C++ pin gives it back as open found it;         *)
(*   - SerialLine: the line is as it was asked, and left as it was found;  *)
(*   - Dlist: the links of the cells are those of the list;                *)
(*   - Vector: the block holds the list, and each element is freed once;   *)
(*   - I2cMem: the memory implements FlatMemory, step by step;             *)
(*   - LedRgb: every led shows what the last calls asked;                  *)
(*   - Blyss: a receiver hears the frame that was asked, with a new token; *)
(*   - GpioPin: a change that somebody waits for is kept until it is read. *)
(* Each section has the inductive invariant of its part.                   *)
(***************************************************************************)
EXTENDS Parts, FiniteSetTheorems, SequenceTheorems, TLAPS

(* The modes of the register and of the library. *)
Hard == (Mode \ {"pwm"}) \cup {"input", "output", "alt5"}
Soft == Hard \cup {"pwm"}
PinState == [mode : Hard, pinmode : Soft, release : Soft \cup {None}]

TypeInv ==
  /\ pin \in [Pin -> PinState] /\ before \in [Pin -> Hard]
  /\ level \in [Pin -> BOOLEAN] /\ want \in [Pin -> BOOLEAN]
  /\ link \in Nat /\ users \in Nat

(* Those who opened xGpio are counted by link. *)
LinkInv ==
  /\ open \subseteq Port /\ IsFiniteSet(open)
  /\ link = Cardinality(open) + users

(* The mode b that the pin had is what a release of the pin comes back to. *)
Kept(s, b) ==
  IF s.release = None THEN s.mode = b /\ s.pinmode = b ELSE s.release = b

ModeInv ==
  /\ link > 0 => \A g \in Pin : Kept(pin[g], before[g])
  /\ ModesRestored

(* What an open port makes of its pins; two open ports share none. *)
Drives(d) ==
  /\ Valid(d)
  /\ \A g \in Outputs(d) \ touched :
       pin[g].mode = "output" /\ level[g] = (want[g] = Active(d, g))

DriveInv ==
  /\ \A d \in open : Drives(d)
  /\ \A d, e \in open : d # e => Outputs(d) \cap Outputs(e) = {}

IInv == TypeInv /\ LinkInv /\ ModeInv /\ DriveInv

-----------------------------------------------------------------------------
(* None is no mode. *)
LEMMA NoneIsNoMode == None \notin Soft /\ "pwm" \notin Hard
  BY GpioAssumption DEF Soft, Hard, None

(* iArchGpioSetMode keeps the mode to come back to (src/arch/arm/rpi/gpio.c). *)
LEMMA SetModeKeeps ==
  ASSUME NEW s \in PinState, NEW m \in Soft
  PROVE  /\ iArchGpioSetMode(m, s) \in PinState
         /\ \A b \in Hard : Kept(s, b) => Kept(iArchGpioSetMode(m, s), b)
  BY NoneIsNoMode DEF iArchGpioSetMode, Kept, PinState, Soft, Hard

(* iArchGpioRelease comes back to it. *)
LEMMA ReleaseRestores ==
  ASSUME NEW s \in PinState
  PROVE  /\ iArchGpioRelease(s) \in PinState
         /\ \A b \in Hard : Kept(s, b) =>
              Kept(iArchGpioRelease(s), b) /\ iArchGpioRelease(s).mode = b
<1> DEFINE t == iArchGpioSetMode(s.release, s)
<1>1. CASE s.release = None
  BY <1>1 DEF iArchGpioRelease, Kept
<1>2. CASE s.release # None
  <2>1. s.release \in Soft
    BY <1>2 DEF PinState
  <2>2. t \in PinState /\ \A b \in Hard : Kept(s, b) => t.mode = b /\ t.pinmode = b /\ t.release = b
    BY <1>2, <2>1, SetModeKeeps, NoneIsNoMode DEF Kept, iArchGpioSetMode, PinState
  <2>3. iArchGpioRelease(s) = IF s.release = "input" THEN [t EXCEPT !.release = None] ELSE t
    BY <1>2 DEF iArchGpioRelease
  <2> HIDE DEF t
  <2> QED
    BY <1>2, <2>2, <2>3 DEF Kept, PinState
<1> QED
  BY <1>1, <1>2

(* An output of a port has a level that is active. *)
LEMMA ActiveIsLevel ==
  ASSUME NEW d \in Port, NEW g \in Outputs(d)
  PROVE  Active(d, g) \in BOOLEAN
<1> DEFINE Output == [num : Nat, act : BOOLEAN]
<1> DEFINE j == CHOOSE i \in 1 .. Len(d) : d[i].num = g
<1>1. d \in Seq(Output)
  BY GpioAssumption
<1>2. j \in 1 .. Len(d)
  BY DEF Outputs
<1>3. Active(d, g) = d[j].act
  BY DEF Active
<1> HIDE DEF j, Output
<1>4. d[j] \in Output
  BY <1>1, <1>2
<1> QED
  BY <1>3, <1>4 DEF Output

(* The indexes of a sequence of n outputs are n. *)
LEMMA Indexes ==
  ASSUME NEW n \in Nat
  PROVE  IsFiniteSet(1 .. n) /\ Cardinality(1 .. n) = n
<1>1. IsFiniteSet(1 .. n) /\ Cardinality(1 .. n) = IF 1 > n THEN 0 ELSE n - 1 + 1
  BY FS_Interval
<1> QED
  BY <1>1

(* xDoutOpen makes outputs of the pins of a port that is valid, and of no  *)
(* other pin.                                                              *)
LEMMA ConfiguredOutputs ==
  ASSUME NEW d \in Port, NEW g \in Pin
  PROVE  /\ g \notin Outputs(d) => Configured(d)[g] = Opened[g]
         /\ Valid(d) /\ g \in Outputs(d) => Configured(d)[g] = iArchGpioSetMode("output", Opened[g])
<1> DEFINE good == {k \in 1 .. Len(d) : \A j \in 1 .. k : d[j].num \in Pin}
<1>1. d \in Seq([num : Nat, act : BOOLEAN]) /\ Len(d) \in Nat
  BY GpioAssumption
<1>2. Cardinality(good) \in Nat /\ Cardinality(good) <= Len(d)
  <2>1. IsFiniteSet(1 .. Len(d)) /\ Cardinality(1 .. Len(d)) = Len(d)
    BY <1>1, Indexes
  <2>2. good \in SUBSET (1 .. Len(d))
    OBVIOUS
  <2> HIDE DEF good
  <2>3. IsFiniteSet(good) /\ Cardinality(good) <= Cardinality(1 .. Len(d))
    BY <2>1, <2>2, FS_Subset
  <2> QED
    BY <2>1, <2>3, FS_CardinalityType
<1>3. Valid(d) => Cardinality(good) = Len(d)
  <2>1. ASSUME Valid(d) PROVE good = 1 .. Len(d)
    BY <1>1, <2>1 DEF Valid, Outputs
  <2>2. Cardinality(1 .. Len(d)) = Len(d)
    BY <1>1, Indexes
  <2> QED
    BY <2>1, <2>2
<1>4. Configured(d)[g] = IF \E k \in 1 .. Cardinality(good) : d[k].num = g
                         THEN iArchGpioSetMode("output", Opened[g]) ELSE Opened[g]
  BY DEF Configured
<1> HIDE DEF good
<1>5. ASSUME g \notin Outputs(d) PROVE ~ \E k \in 1 .. Cardinality(good) : d[k].num = g
  BY <1>1, <1>2, <1>5 DEF Outputs
<1>6. ASSUME Valid(d), g \in Outputs(d) PROVE \E k \in 1 .. Cardinality(good) : d[k].num = g
  BY <1>3, <1>6 DEF Outputs
<1> QED
  BY <1>4, <1>5, <1>6

(* xGpioOpen keeps what there is, or begins with the modes of the register. *)
LEMMA OpenKeeps ==
  ASSUME TypeInv, ModeInv, Remember
  PROVE  /\ Opened \in [Pin -> PinState] /\ before' \in [Pin -> Hard]
         /\ \A g \in Pin : Kept(Opened[g], before'[g])
<1>1. CASE link > 0
  BY <1>1 DEF TypeInv, ModeInv, Remember, Opened
<1>2. CASE ~ link > 0
  <2>1. before' = [g \in Pin |-> pin[g].mode]
    BY <1>2 DEF Remember
  <2>2. Opened = [g \in Pin |-> [mode |-> pin[g].mode, pinmode |-> pin[g].mode, release |-> None]]
    BY <1>2 DEF Opened
  <2> QED
    BY <2>1, <2>2 DEF TypeInv, PinState, Soft, Kept
<1> QED
  BY <1>1, <1>2

(* ... and so does what xDoutOpen makes of them. *)
LEMMA ConfiguredKeeps ==
  ASSUME TypeInv, ModeInv, Remember, NEW d
  PROVE  /\ Configured(d) \in [Pin -> PinState]
         /\ \A g \in Pin : Kept(Configured(d)[g], before'[g])
<1> DEFINE last == Cardinality({k \in 1 .. Len(d) : \A j \in 1 .. k : d[j].num \in Pin})
<1>1. Configured(d) = [g \in Pin |-> IF \E k \in 1 .. last : d[k].num = g
                                     THEN iArchGpioSetMode("output", Opened[g]) ELSE Opened[g]]
  BY DEF Configured
<1>2. "output" \in Soft
  BY DEF Soft, Hard
<1>3. \A g \in Pin : /\ iArchGpioSetMode("output", Opened[g]) \in PinState
                     /\ Kept(iArchGpioSetMode("output", Opened[g]), before'[g])
  BY <1>2, OpenKeeps, SetModeKeeps
<1> HIDE DEF last
<1> QED
  BY <1>1, <1>3, OpenKeeps

(* iGpioClose of n users: the last gives the pins their modes. *)
LEMMA CloseRestores ==
  ASSUME NEW s \in [Pin -> PinState], NEW n \in Nat, n > 0, NEW r, iGpioClose(s, n, r),
         NEW b \in [Pin -> Hard], \A g \in Pin : Kept(s[g], b[g])
  PROVE  /\ pin' \in [Pin -> PinState] /\ link' = n - 1
         /\ n > 1 => pin' = s
         /\ n = 1 /\ r => \A g \in Pin : pin'[g].mode = b[g]
<1>1. CASE n = 1 /\ r
  BY <1>1, ReleaseRestores DEF iGpioClose
<1>2. CASE ~ (n = 1 /\ r)
  BY <1>2 DEF iGpioClose
<1> QED
  BY <1>1, <1>2

(* Whoever uses xGpio is counted, and the last user is alone. *)
LEMMA UsersAreLinked ==
  ASSUME TypeInv, LinkInv
  PROVE  /\ Cardinality(open) \in Nat
         /\ users > 0 \/ open # {} => link > 0
         /\ link = 1 /\ users > 0 => open = {}
         /\ \A d \in open : link = 1 => open \ {d} = {}
<1>1. Cardinality(open) \in Nat
  BY FS_CardinalityType DEF LinkInv
<1>2. Cardinality(open) = 0 <=> open = {}
  BY FS_EmptySet DEF LinkInv
<1>3. ASSUME NEW d \in open, link = 1 PROVE open \ {d} = {}
  <2>1. IsFiniteSet(open \ {d}) /\ Cardinality(open \ {d}) = Cardinality(open) - 1
    BY FS_RemoveElement DEF LinkInv
  <2>2. Cardinality(open) = 1
    BY <1>1, <1>2, <1>3 DEF LinkInv, TypeInv
  <2> QED
    BY <2>1, <2>2, FS_EmptySet
<1> QED
  BY <1>1, <1>2, <1>3 DEF LinkInv, TypeInv

-----------------------------------------------------------------------------
(* The initial state satisfies the invariant. *)
LEMMA InitIInv == Init => IInv
<1> SUFFICES ASSUME Init PROVE IInv
  OBVIOUS
<1>1. TypeInv
  BY DEF Init, TypeInv, PinState, Soft, Hard
<1>2. LinkInv
  BY FS_EmptySet DEF Init, LinkInv
<1>3. ModeInv
  BY DEF Init, ModeInv, ModesRestored
<1>4. DriveInv
  BY DEF Init, DriveInv
<1> QED
  BY <1>1, <1>2, <1>3, <1>4 DEF IInv

(* link counts the users. *)
LEMMA LinkStep == IInv /\ [Next]_vars => LinkInv'
<1> SUFFICES ASSUME IInv, [Next]_vars PROVE LinkInv'
  OBVIOUS
<1> USE UsersAreLinked DEF IInv, TypeInv, LinkInv
<1>1. CASE xGpioOpen
  BY <1>1 DEF xGpioOpen
<1>2. CASE GpioClose
  <2>1. open' = open /\ users > 0 /\ users' = users - 1
    BY <1>2 DEF GpioClose
  <2>2. link' = link - 1
    BY <1>2 DEF GpioClose, iGpioClose
  <2> QED
    BY <2>1, <2>2
<1>3. ASSUME NEW d \in Port, xDoutOpen(d) PROVE LinkInv'
  <2>1. IsFiniteSet(open \cup {d}) /\ Cardinality(open \cup {d}) = Cardinality(open) + 1
    BY <1>3, FS_AddElement DEF xDoutOpen
  <2> QED
    BY <1>3, <2>1 DEF xDoutOpen
<1>4. ASSUME NEW d \in Port, xDoutOpenError(d) PROVE LinkInv'
  BY <1>4 DEF xDoutOpenError, iGpioClose
<1>5. ASSUME NEW d \in Port, iDoutClose(d) PROVE LinkInv'
  <2>1. IsFiniteSet(open \ {d}) /\ Cardinality(open \ {d}) = Cardinality(open) - 1
    BY <1>5, FS_RemoveElement DEF iDoutClose
  <2> QED
    BY <1>5, <2>1 DEF iDoutClose, iGpioClose
<1>6. CASE UNCHANGED <<open, users, link>>
  BY <1>6
<1> QED
  BY <1>1, <1>2, <1>3, <1>4, <1>5, <1>6
  DEF Next, vars, iGpioSetReleaseOnClose, iGpioSetMode, iGpioRelease, iGpioWrite, iDoutWrite, iDoutToggle,
      iDoutWriteAll, iDoutToggleAll

(* The modes the pins had are kept until the last close. *)
LEMMA ModeStep == IInv /\ [Next]_vars => TypeInv' /\ ModeInv'
<1> SUFFICES ASSUME IInv, [Next]_vars PROVE TypeInv' /\ ModeInv'
  OBVIOUS
<1> DEFINE Levels == level' \in [Pin -> BOOLEAN] /\ want' \in [Pin -> BOOLEAN]
<1> USE UsersAreLinked DEF IInv
<1>1. CASE xGpioOpen
  <2>1. pin' \in [Pin -> PinState] /\ before' \in [Pin -> Hard] /\ \A g \in Pin : Kept(pin'[g], before'[g])
    BY <1>1, OpenKeeps DEF xGpioOpen
  <2>2. link' > 0
    BY <1>1 DEF xGpioOpen, TypeInv
  <2> QED
    BY <1>1, <2>1, <2>2 DEF xGpioOpen, TypeInv, ModeInv, ModesRestored
<1>2. CASE GpioClose
  <2>1. iGpioClose(pin, link, roc) /\ link \in Nat /\ link > 0 /\ \A g \in Pin : Kept(pin[g], before[g])
    BY <1>2 DEF GpioClose, TypeInv, ModeInv
  <2>2. /\ pin' \in [Pin -> PinState] /\ link' = link - 1
        /\ link > 1 => pin' = pin
        /\ link = 1 /\ roc => \A g \in Pin : pin'[g].mode = before[g]
    BY <2>1, CloseRestores DEF TypeInv
  <2>3. ASSUME link = 1, ~ left' PROVE roc
    BY <1>2, <2>3 DEF GpioClose
  <2>4. before' = before /\ level' = level /\ want' = want /\ users' \in Nat
    BY <1>2 DEF GpioClose, TypeInv
  <2> QED
    BY <2>1, <2>2, <2>3, <2>4 DEF TypeInv, ModeInv, ModesRestored
<1>3. ASSUME NEW g \in Pin, NEW m \in Mode, iGpioSetMode(g, m) PROVE TypeInv' /\ ModeInv'
  <2>1. m \in Soft
    BY DEF Soft, Hard
  <2>2. link > 0 /\ link' = link /\ before' = before
    BY <1>3 DEF iGpioSetMode
  <2>3. pin' \in [Pin -> PinState] /\ \A h \in Pin : Kept(pin'[h], before[h])
    BY <1>3, <2>1, <2>2, SetModeKeeps DEF iGpioSetMode, TypeInv, ModeInv
  <2> QED
    BY <1>3, <2>2, <2>3 DEF iGpioSetMode, TypeInv, ModeInv, ModesRestored
<1>4. ASSUME NEW g \in Pin, iGpioRelease(g) PROVE TypeInv' /\ ModeInv'
  <2>1. link > 0 /\ link' = link /\ before' = before
    BY <1>4 DEF iGpioRelease
  <2>2. pin' \in [Pin -> PinState] /\ \A h \in Pin : Kept(pin'[h], before[h])
    BY <1>4, <2>1, ReleaseRestores DEF iGpioRelease, TypeInv, ModeInv
  <2> QED
    BY <1>4, <2>1, <2>2 DEF iGpioRelease, TypeInv, ModeInv, ModesRestored
<1>5. ASSUME NEW d \in Port, xDoutOpen(d) PROVE TypeInv' /\ ModeInv'
  <2>1. pin' \in [Pin -> PinState] /\ before' \in [Pin -> Hard] /\ \A g \in Pin : Kept(pin'[g], before'[g])
    BY <1>5, OpenKeeps, ConfiguredKeeps DEF xDoutOpen
  <2>2. Levels
    BY <1>5 DEF xDoutOpen, WriteAll, TypeInv
  <2>3. link' > 0 /\ link' \in Nat /\ users' \in Nat
    BY <1>5 DEF xDoutOpen, TypeInv
  <2> QED
    BY <2>1, <2>2, <2>3 DEF TypeInv, ModeInv, ModesRestored
<1>6. ASSUME NEW d \in Port, xDoutOpenError(d) PROVE TypeInv' /\ ModeInv'
  <2> DEFINE s == Configured(d)
             n == link + 1
             r == roc \/ link = 0
  <2>1. s \in [Pin -> PinState] /\ before' \in [Pin -> Hard] /\ \A g \in Pin : Kept(s[g], before'[g])
    BY <1>6, OpenKeeps, ConfiguredKeeps DEF xDoutOpenError
  <2>2. iGpioClose(s, n, r) /\ n \in Nat /\ n > 0 /\ (link = 0 => r)
    BY <1>6 DEF xDoutOpenError, TypeInv
  <2> HIDE DEF s, n, r
  <2>3. /\ pin' \in [Pin -> PinState] /\ link' = n - 1
        /\ n > 1 => pin' = s
        /\ n = 1 /\ r => \A g \in Pin : pin'[g].mode = before'[g]
    BY <2>1, <2>2, CloseRestores
  <2>4. level' = level /\ want' = want /\ users' = users /\ link' = link /\ n = link + 1
    BY <1>6, <2>3 DEF n, xDoutOpenError, TypeInv
  <2> QED
    BY <2>1, <2>2, <2>3, <2>4 DEF TypeInv, ModeInv, ModesRestored
<1>7. ASSUME NEW d \in Port, iDoutClose(d) PROVE TypeInv' /\ ModeInv'
  <2>1. iGpioClose(pin, link, roc) /\ link \in Nat /\ link > 0 /\ \A g \in Pin : Kept(pin[g], before[g])
    BY <1>7 DEF iDoutClose, TypeInv, ModeInv
  <2>2. /\ pin' \in [Pin -> PinState] /\ link' = link - 1
        /\ link > 1 => pin' = pin
        /\ link = 1 /\ roc => \A g \in Pin : pin'[g].mode = before[g]
    BY <2>1, CloseRestores DEF TypeInv
  <2>3. ASSUME link = 1, ~ left' PROVE roc
    BY <1>7, <2>3 DEF iDoutClose
  <2>4. before' = before /\ level' = level /\ want' = want /\ users' \in Nat
    BY <1>7 DEF iDoutClose, TypeInv
  <2> QED
    BY <2>1, <2>2, <2>3, <2>4 DEF TypeInv, ModeInv, ModesRestored
<1>8. ASSUME NEW d \in Port, NEW g \in Pin, NEW value \in BOOLEAN, iDoutWrite(d, g, value)
      PROVE  TypeInv' /\ ModeInv'
  BY <1>8 DEF iDoutWrite, TypeInv, ModeInv, ModesRestored
<1>12. ASSUME NEW d \in Port, NEW g \in Pin, iDoutToggle(d, g) PROVE TypeInv' /\ ModeInv'
  BY <1>12 DEF iDoutToggle, TypeInv, ModeInv, ModesRestored
<1>9. ASSUME NEW d \in Port, NEW value \in BOOLEAN, iDoutWriteAll(d, value) PROVE TypeInv' /\ ModeInv'
  BY <1>9 DEF iDoutWriteAll, WriteAll, TypeInv, ModeInv, ModesRestored
<1>13. ASSUME NEW g \in Pin, NEW value \in BOOLEAN, iGpioWrite(g, value) PROVE TypeInv' /\ ModeInv'
  BY <1>13 DEF iGpioWrite, TypeInv, ModeInv, ModesRestored
<1>14. ASSUME NEW d \in Port, iDoutToggleAll(d) PROVE TypeInv' /\ ModeInv'
  BY <1>14 DEF iDoutToggleAll, TypeInv, ModeInv, ModesRestored
<1>10. CASE UNCHANGED <<pin, level, link, users, want, before, left>>
  BY <1>10 DEF TypeInv, ModeInv, ModesRestored
<1>11. CASE UNCHANGED vars \/ \E b \in BOOLEAN : iGpioSetReleaseOnClose(b)
  BY <1>10, <1>11 DEF vars, iGpioSetReleaseOnClose
<1> QED
  BY <1>1, <1>2, <1>3, <1>4, <1>5, <1>6, <1>7, <1>8, <1>9, <1>11, <1>12, <1>13, <1>14 DEF Next

(* A step that leaves the ports and what they drive leaves them driven. *)
LEMMA SameDrive ==
  ASSUME DriveInv, open' \subseteq open, want' = want, touched \subseteq touched',
         open' # {} => \A g \in Pin \ touched' : pin'[g] = pin[g] /\ level'[g] = level[g]
  PROVE  DriveInv'
<1>1. ASSUME NEW d \in open' PROVE Drives(d)'
  <2>1. Drives(d) /\ Outputs(d) \subseteq Pin
    BY <1>1 DEF DriveInv, Drives, Valid
  <2> QED
    BY <1>1, <2>1 DEF Drives, Valid
<1> QED
  BY <1>1 DEF DriveInv

(* Open ports drive their pins. *)
LEMMA DriveStep == IInv /\ [Next]_vars => DriveInv'
<1> SUFFICES ASSUME IInv, [Next]_vars PROVE DriveInv'
  OBVIOUS
<1> USE UsersAreLinked DEF IInv
<1>1. CASE xGpioOpen
  <2>1. open' # {} => pin' = pin
    BY <1>1 DEF xGpioOpen, Opened
  <2> QED
    BY <1>1, <2>1, SameDrive DEF xGpioOpen
<1>2. CASE GpioClose
  <2>1. open' # {} => pin' = pin
    BY <1>2 DEF GpioClose, iGpioClose
  <2> QED
    BY <1>2, <2>1, SameDrive DEF GpioClose
<1>3. ASSUME NEW g \in Pin, NEW m \in Mode, iGpioSetMode(g, m) PROVE DriveInv'
  <2>1. \A h \in Pin \ touched' : pin'[h] = pin[h]
    BY <1>3 DEF iGpioSetMode, TypeInv
  <2> QED
    BY <1>3, <2>1, SameDrive DEF iGpioSetMode
<1>4. ASSUME NEW g \in Pin, iGpioRelease(g) PROVE DriveInv'
  <2>1. \A h \in Pin \ touched' : pin'[h] = pin[h]
    BY <1>4 DEF iGpioRelease, TypeInv
  <2> QED
    BY <1>4, <2>1, SameDrive DEF iGpioRelease
<1>5. ASSUME NEW d \in Port, xDoutOpen(d) PROVE DriveInv'
  <2>1. ASSUME NEW e \in open PROVE Drives(e)'
    <3>1. Drives(e) /\ Outputs(e) \subseteq Pin /\ Outputs(e) \cap Outputs(d) = {} /\ open # {}
      BY <1>5, <2>1 DEF xDoutOpen, DriveInv, Drives, Valid
    <3>2. \A g \in Outputs(e) : pin'[g] = pin[g] /\ level'[g] = level[g] /\ want'[g] = want[g]
      BY <1>5, <3>1, ConfiguredOutputs DEF xDoutOpen, WriteAll, Opened, TypeInv
    <3>3. Outputs(e) \ touched' = Outputs(e) \ touched
      BY <1>5, <3>1 DEF xDoutOpen
    <3> QED
      BY <3>1, <3>2, <3>3 DEF Drives, Valid
  <2>2. Drives(d)'
    <3>1. Valid(d) /\ Outputs(d) \subseteq Pin
      BY <1>5 DEF xDoutOpen, Valid
    <3>2. \A g \in Outputs(d) : Configured(d)[g].mode = "output"
      <4>1. \A g \in Outputs(d) : Configured(d)[g] = iArchGpioSetMode("output", Opened[g])
        BY <3>1, ConfiguredOutputs
      <4>2. \A x : iArchGpioSetMode("output", x).mode = "output"
        BY DEF iArchGpioSetMode
      <4> QED
        BY <4>1, <4>2
    <3>3. \A g \in Outputs(d) : pin'[g].mode = "output" /\ level'[g] = (FALSE = Active(d, g)) /\ want'[g] = FALSE
      BY <1>5, <3>1, <3>2 DEF xDoutOpen, WriteAll
    <3> QED
      BY <3>1, <3>3 DEF Drives, Valid
  <2> QED
    BY <1>5, <2>1, <2>2 DEF xDoutOpen, DriveInv
<1>6. ASSUME NEW d \in Port, xDoutOpenError(d) PROVE DriveInv'
  <2>1. ASSUME NEW e \in open PROVE Drives(e)'
    <3>1. Drives(e) /\ Outputs(e) \subseteq Pin /\ Outputs(e) \cap Outputs(d) = {} /\ link > 0
      BY <1>6, <2>1 DEF xDoutOpenError, DriveInv, Drives, Valid
    <3>2. pin' = Configured(d) /\ level' = level /\ want' = want /\ touched' = touched
      BY <1>6, <3>1 DEF xDoutOpenError, iGpioClose, TypeInv
    <3>3. \A g \in Outputs(e) : pin'[g] = pin[g]
      BY <3>1, <3>2, ConfiguredOutputs DEF Opened
    <3> QED
      BY <3>1, <3>2, <3>3 DEF Drives, Valid
  <2> QED
    BY <1>6, <2>1 DEF xDoutOpenError, DriveInv
<1>7. ASSUME NEW d \in Port, iDoutClose(d) PROVE DriveInv'
  <2>1. open' # {} => pin' = pin
    BY <1>7 DEF iDoutClose, iGpioClose
  <2> QED
    BY <1>7, <2>1, SameDrive DEF iDoutClose
<1>8. ASSUME NEW d \in Port, NEW g \in Pin, NEW value \in BOOLEAN, iDoutWrite(d, g, value) PROVE DriveInv'
  <2>1. ASSUME NEW e \in open, NEW h \in Outputs(e) \ touched
        PROVE  pin'[h].mode = "output" /\ level'[h] = (want'[h] = Active(e, h))
    <3>1. pin' = pin /\ pin[h].mode = "output" /\ level[h] = (want[h] = Active(e, h)) /\ h \in Pin
      BY <1>8, <2>1 DEF iDoutWrite, DriveInv, Drives, Valid
    <3>2. CASE h = g
      <4>1. e = d
        BY <1>8, <2>1, <3>2 DEF iDoutWrite, DriveInv
      <4>2. level'[h] = (value = Active(d, g)) /\ want'[h] = value
        BY <1>8, <3>1, <3>2 DEF iDoutWrite, TypeInv
      <4> QED
        BY <3>1, <3>2, <4>1, <4>2
    <3>3. CASE h # g
      <4>1. level'[h] = level[h] /\ want'[h] = want[h]
        BY <1>8, <3>1, <3>3 DEF iDoutWrite, TypeInv
      <4> QED
        BY <3>1, <4>1
    <3> QED
      BY <3>2, <3>3
  <2> QED
    BY <1>8, <2>1 DEF iDoutWrite, DriveInv, Drives, Valid
<1>9. ASSUME NEW d \in Port, NEW g \in Pin, iDoutToggle(d, g) PROVE DriveInv'
  <2>1. ASSUME NEW e \in open, NEW h \in Outputs(e) \ touched
        PROVE  pin'[h].mode = "output" /\ level'[h] = (want'[h] = Active(e, h))
    <3>1. pin' = pin /\ pin[h].mode = "output" /\ level[h] = (want[h] = Active(e, h)) /\ h \in Pin
      BY <1>9, <2>1 DEF iDoutToggle, DriveInv, Drives, Valid
    <3>2. CASE h = g
      <4>1. level'[h] = ~ level[h] /\ want'[h] = ~ want[h]
        BY <1>9, <3>1, <3>2 DEF iDoutToggle, TypeInv
      <4>2. Active(e, h) \in BOOLEAN /\ want[h] \in BOOLEAN
        BY <3>1, ActiveIsLevel DEF LinkInv, TypeInv
      <4> QED
        BY <3>1, <4>1, <4>2
    <3>3. CASE h # g
      <4>1. level'[h] = level[h] /\ want'[h] = want[h]
        BY <1>9, <3>1, <3>3 DEF iDoutToggle, TypeInv
      <4> QED
        BY <3>1, <4>1
    <3> QED
      BY <3>2, <3>3
  <2> QED
    BY <1>9, <2>1 DEF iDoutToggle, DriveInv, Drives, Valid
<1>10. ASSUME NEW d \in Port, NEW value \in BOOLEAN, iDoutWriteAll(d, value) PROVE DriveInv'
  <2>1. ASSUME NEW e \in open, NEW h \in Outputs(e) \ touched
        PROVE  pin'[h].mode = "output" /\ level'[h] = (want'[h] = Active(e, h))
    <3>1. pin' = pin /\ pin[h].mode = "output" /\ level[h] = (want[h] = Active(e, h)) /\ h \in Pin
      BY <1>10, <2>1 DEF iDoutWriteAll, DriveInv, Drives, Valid
    <3>2. CASE h \in Outputs(d)
      <4>1. e = d
        BY <1>10, <2>1, <3>2 DEF iDoutWriteAll, DriveInv
      <4>2. level'[h] = (value = Active(d, h)) /\ want'[h] = value
        BY <1>10, <3>1, <3>2 DEF iDoutWriteAll, WriteAll
      <4> QED
        BY <3>1, <4>1, <4>2
    <3>3. CASE h \notin Outputs(d)
      <4>1. level'[h] = level[h] /\ want'[h] = want[h]
        BY <1>10, <3>1, <3>3 DEF iDoutWriteAll, WriteAll
      <4> QED
        BY <3>1, <4>1
    <3> QED
      BY <3>2, <3>3
  <2> QED
    BY <1>10, <2>1 DEF iDoutWriteAll, DriveInv, Drives, Valid
<1>12. ASSUME NEW g \in Pin, NEW value \in BOOLEAN, iGpioWrite(g, value) PROVE DriveInv'
  <2>1. pin' = pin /\ \A h \in Pin \ touched' : level'[h] = level[h]
    BY <1>12 DEF iGpioWrite, TypeInv
  <2> QED
    BY <1>12, <2>1, SameDrive DEF iGpioWrite
<1>13. ASSUME NEW d \in Port, iDoutToggleAll(d) PROVE DriveInv'
  <2>1. ASSUME NEW e \in open, NEW h \in Outputs(e) \ touched
        PROVE  pin'[h].mode = "output" /\ level'[h] = (want'[h] = Active(e, h))
    <3>1. /\ pin' = pin /\ pin[h].mode = "output" /\ level[h] = (want[h] = Active(e, h)) /\ h \in Pin
          /\ want[h] \in BOOLEAN /\ Active(e, h) \in BOOLEAN
      BY <1>13, <2>1, ActiveIsLevel DEF iDoutToggleAll, DriveInv, Drives, Valid, TypeInv, LinkInv
    <3>2. CASE h \in Outputs(d)
      <4>1. level'[h] = ~ level[h] /\ want'[h] = ~ want[h]
        BY <1>13, <3>1, <3>2 DEF iDoutToggleAll
      <4> QED
        BY <3>1, <4>1
    <3>3. CASE h \notin Outputs(d)
      <4>1. level'[h] = level[h] /\ want'[h] = want[h]
        BY <1>13, <3>1, <3>3 DEF iDoutToggleAll
      <4> QED
        BY <3>1, <4>1
    <3> QED
      BY <3>2, <3>3
  <2> QED
    BY <1>13, <2>1 DEF iDoutToggleAll, DriveInv, Drives, Valid
<1>11. CASE UNCHANGED vars \/ \E b \in BOOLEAN : iGpioSetReleaseOnClose(b)
  <2>1. UNCHANGED <<pin, level, open, want, touched>>
    BY <1>11 DEF vars, iGpioSetReleaseOnClose
  <2> QED
    BY <2>1, SameDrive
<1> QED
  BY <1>1, <1>2, <1>3, <1>4, <1>5, <1>6, <1>7, <1>8, <1>9, <1>10, <1>11, <1>12, <1>13 DEF Next

-----------------------------------------------------------------------------
(* The inductive invariant holds in every reachable state. *)
THEOREM Invariance == Spec => []IInv
<1>1. IInv /\ [Next]_vars => IInv'
  BY LinkStep, ModeStep, DriveStep DEF IInv
<1> QED
  BY <1>1, InitIInv, PTL DEF Spec

(* ModesRestored: whoever opened and closed xGpio, whatever was set and    *)
(* released, the last close (iGpioClose) restores the modes of the pins.   *)
THEOREM CloseRestoresModes == Spec => []ModesRestored
<1>1. IInv => ModesRestored
  BY DEF IInv, ModeInv
<1> QED
  BY <1>1, Invariance, PTL

(* PortsDrive: link counts those who use xGpio, and an open port           *)
(* (xDoutOpen) drives its pins, but those that the application set itself. *)
THEOREM OpenPortsDrive == Spec => []PortsDrive
<1>1. IInv => PortsDrive
  BY DEF IInv, LinkInv, DriveInv, Drives, PortsDrive
<1> QED
  BY <1>1, Invariance, PTL

-----------------------------------------------------------------------------
(* The pin of the C++ classes (PinModes, src/gpio/gpiopin.cpp).            *)

Held == [mode : PinMode \cup {H!Unknown}, pull : Pull \cup {H!Unknown}, state : BOOLEAN]
Asked == [mode : PinMode \cup {"bad", H!Unknown}, pull : Pull \cup {H!Unknown}]

ModesType ==
  /\ reg \in H!Registers /\ found \in H!Registers /\ held \in Held /\ wanted \in Asked
  /\ gpioOpen \in BOOLEAN /\ gpioRoc \in BOOLEAN /\ pinOpen \in BOOLEAN /\ sysFs \in BOOLEAN

(* What is held, h, is what the pin was, f. *)
HoldsMode(h, f) == h.mode # H!Unknown => h.mode = f.mode /\ (f.mode = "output" => h.state = f.level)
HoldsPull(h, f) == h.pull # H!Unknown => h.pull = f.pull

(* What is not held of a pin has not changed in its registers, r. *)
SameMode(h, r, f) == h.mode = H!Unknown => r.mode = f.mode /\ (f.mode = "output" => r.level = f.level)
SamePull(h, r, f) == h.pull = H!Unknown => r.pull = f.pull

GivenBackInv ==
  /\ HoldsMode(held, found) /\ HoldsPull(held, found)
  /\ pinOpen => SameMode(held, reg, found) /\ SamePull(held, reg, found)
  /\ pinOpen /\ sysFs => held.mode # H!Unknown /\ held.pull # H!Unknown

ModesInv == ModesType /\ GivenBackInv

(* holdMode and holdPull hold what the registers have, once. *)
LEMMA HoldModeHolds ==
  ASSUME NEW h \in Held, NEW r \in H!Registers
  PROVE  /\ H!holdMode(h, r) \in Held /\ H!holdMode(h, r).mode # H!Unknown
         /\ H!holdMode(h, r).pull = h.pull
         /\ h.mode # H!Unknown => H!holdMode(h, r) = h
         /\ h.mode = H!Unknown => H!holdMode(h, r).mode = r.mode
         /\ h.mode = H!Unknown /\ r.mode = "output" => H!holdMode(h, r).state = r.level
  BY Assumptions DEF H!PinModesAssumption, H!holdMode, Held, H!Registers

LEMMA HoldPullHolds ==
  ASSUME NEW h \in Held, NEW r \in H!Registers
  PROVE  /\ H!holdPull(h, r) \in Held /\ H!holdPull(h, r).pull # H!Unknown
         /\ H!holdPull(h, r).mode = h.mode /\ H!holdPull(h, r).state = h.state
         /\ h.pull # H!Unknown => H!holdPull(h, r) = h
         /\ h.pull = H!Unknown => H!holdPull(h, r).pull = r.pull
  BY Assumptions DEF H!PinModesAssumption, H!holdPull, Held, H!Registers

(* A mode that is written leaves the pull. *)
LEMMA WriteModeKeepsPull ==
  ASSUME NEW sys \in BOOLEAN, NEW r \in H!Registers, NEW m \in PinMode \cup {"bad", H!Unknown},
         sys \/ m # H!Unknown
  PROVE  H!WriteMode(sys, r, m) \in H!Registers /\ H!WriteMode(sys, r, m).pull = r.pull
  BY Assumptions DEF H!PinModesAssumption, H!WriteMode, H!sysFsSetMode, H!Registers

(* release gives back what is held, and leaves the rest. *)
LEMMA ReleasedGivesBack ==
  ASSUME NEW h \in Held, NEW r \in H!Registers, NEW f \in H!Registers,
         HoldsMode(h, f), HoldsPull(h, f), SameMode(h, r, f), SamePull(h, r, f)
  PROVE  /\ H!Released(FALSE, r, h) \in H!Registers
         /\ H!Released(FALSE, r, h).mode = f.mode /\ H!Released(FALSE, r, h).pull = f.pull
         /\ f.mode = "output" => H!Released(FALSE, r, h).level = f.level
  BY Assumptions DEF H!PinModesAssumption, H!Released, H!WriteMode, Held, H!Registers,
       HoldsMode, HoldsPull, SameMode, SamePull

LEMMA UnexportedKeepsPull ==
  ASSUME NEW r \in H!Registers, NEW u \in H!Unexported(r)
  PROVE  u \in H!Registers /\ u.pull = r.pull
  BY Assumptions DEF H!PinModesAssumption, H!Unexported, H!Registers

(* What is asked after release *)
LEMMA WantedAfterRelease ==
  ASSUME wanted \in Asked, NEW h \in Held
  PROVE  H!WantedAfter(h) \in Asked
  BY DEF H!WantedAfter, Asked, Held

LEMMA NothingIsHeld ==
  H!NothingHeld \in Held /\ H!NothingHeld.mode = H!Unknown /\ H!NothingHeld.pull = H!Unknown
  BY DEF H!NothingHeld, Held

(* open holds what the registers have before it changes them. *)
LEMMA OpenHolds ==
  ASSUME ModesInv, H!open
  PROVE  ModesInv'
<1> DEFINE writes == sysFs \/ wanted.mode # H!Unknown
           m == IF wanted.mode # H!Unknown THEN wanted.mode
                ELSE IF sysFs THEN H!sysFsGetMode(reg) ELSE reg.mode
           h == IF sysFs THEN H!Enabled(held, reg) ELSE IF writes THEN H!holdMode(held, reg) ELSE held
           r == IF writes THEN H!WriteMode(sysFs, reg, m) ELSE reg
<1>1. /\ reg \in H!Registers /\ held \in Held /\ wanted \in Asked /\ found \in H!Registers /\ sysFs \in BOOLEAN
      /\ HoldsMode(held, found) /\ HoldsPull(held, found)
  BY DEF ModesInv, ModesType, GivenBackInv
<1>2. found' = H!FoundAtOpen /\ pinOpen' = TRUE /\ gpioRoc' = gpioRoc /\ sysFs' = sysFs
  BY DEF H!open
<1>3. \/ gpioOpen' = FALSE /\ held' = h /\ reg' = reg /\ wanted' = wanted /\ ~ sysFs
      \/ /\ gpioOpen' = TRUE /\ H!OpenPull(h, r) /\ (sysFs \/ m # "bad")
         /\ wanted' = [mode |-> m, pull |-> IF wanted.pull = H!Unknown THEN reg.pull ELSE wanted.pull]
  BY <1>1, Assumptions DEF H!open, H!Throws, H!PinModesAssumption, H!Registers
<1>4. found' \in H!Registers /\ HoldsMode(held, found') /\ HoldsPull(held, found')
      /\ SameMode(held, reg, found') /\ SamePull(held, reg, found')
  BY <1>1, <1>2 DEF H!FoundAtOpen, HoldsMode, HoldsPull, SameMode, SamePull, H!Registers
<1>5. m \in PinMode \cup {"bad"} /\ m # H!Unknown
  BY <1>1, Assumptions DEF Asked, H!Registers, H!sysFsGetMode, H!PinModesAssumption
<1>6. r \in H!Registers /\ r.pull = reg.pull
  <2>1. H!WriteMode(sysFs, reg, m) \in H!Registers /\ H!WriteMode(sysFs, reg, m).pull = reg.pull
    <3> HIDE DEF m
    <3> QED
      BY <1>1, <1>5, WriteModeKeepsPull
  <2> QED
    BY <1>1, <2>1
<1>7. /\ h \in Held /\ HoldsMode(h, found') /\ HoldsPull(h, found')
      /\ SameMode(h, r, found') /\ SamePull(h, r, found') /\ SameMode(h, reg, found') /\ SamePull(h, reg, found')
      /\ sysFs => h.mode # H!Unknown /\ h.pull # H!Unknown
  <2> DEFINE hm == H!holdMode(held, reg)
  <2>1. /\ hm \in Held /\ hm.mode # H!Unknown /\ HoldsMode(hm, found') /\ HoldsPull(hm, found')
        /\ SamePull(hm, reg, found')
    BY <1>1, <1>4, HoldModeHolds DEF HoldsMode, HoldsPull, SameMode, SamePull
  <2>2. CASE sysFs
    <3>1. h = H!holdPull(hm, reg)
      BY <2>2 DEF H!Enabled
    <3> HIDE DEF hm, h
    <3>2. h \in Held /\ h.mode # H!Unknown /\ h.pull # H!Unknown /\ HoldsMode(h, found') /\ HoldsPull(h, found')
      BY <1>1, <2>1, <3>1, HoldPullHolds DEF HoldsMode, HoldsPull, SamePull
    <3> QED
      BY <3>2 DEF SameMode, SamePull
  <2>3. CASE ~ sysFs /\ writes
    <3>1. h = hm
      BY <2>3
    <3> HIDE DEF hm, h, r
    <3> QED
      BY <2>1, <2>3, <3>1, <1>6 DEF SameMode, SamePull
  <2>4. CASE ~ writes
    <3>1. h = held /\ r = reg /\ ~ sysFs
      BY <2>4
    <3> HIDE DEF h, r
    <3> QED
      BY <1>1, <1>4, <3>1
  <2> QED
    BY <2>2, <2>3, <2>4
<1> HIDE DEF h, r, m
<1>8. CASE gpioOpen' = FALSE /\ held' = h /\ reg' = reg /\ wanted' = wanted /\ ~ sysFs
  BY <1>1, <1>2, <1>4, <1>7, <1>8 DEF ModesInv, ModesType, GivenBackInv
<1>9. CASE /\ gpioOpen' = TRUE /\ H!OpenPull(h, r)
           /\ wanted' = [mode |-> m, pull |-> IF wanted.pull = H!Unknown THEN reg.pull ELSE wanted.pull]
  <2>1. wanted' \in Asked
    BY <1>1, <1>5, <1>9 DEF Asked, H!Registers
  <2>2. CASE wanted.pull = H!Unknown
    <3>1. held' = h /\ reg' = r
      BY <1>9, <2>2 DEF H!OpenPull
    <3> QED
      BY <1>1, <1>2, <1>4, <1>6, <1>7, <1>9, <2>1, <3>1 DEF ModesInv, ModesType, GivenBackInv
  <2>3. CASE wanted.pull # H!Unknown
    <3>1. held' = H!holdPull(h, r) /\ reg' = [r EXCEPT !.pull = wanted.pull] /\ wanted.pull \in Pull
      BY <1>1, <1>9, <2>3 DEF H!OpenPull, Asked
    <3>2. reg' \in H!Registers /\ reg'.mode = r.mode /\ reg'.level = r.level
      BY <1>6, <3>1 DEF H!Registers
    <3>3. /\ held' \in Held /\ held'.mode = h.mode /\ held'.state = h.state /\ held'.pull # H!Unknown
          /\ HoldsPull(held', found')
      BY <1>6, <1>7, <3>1, HoldPullHolds DEF HoldsPull, SamePull
    <3>4. HoldsMode(held', found') /\ SameMode(held', reg', found') /\ SamePull(held', reg', found')
      BY <1>7, <3>2, <3>3 DEF HoldsMode, SameMode, SamePull
    <3> QED
      BY <1>1, <1>2, <1>4, <1>7, <1>9, <2>1, <3>2, <3>3, <3>4 DEF ModesInv, ModesType, GivenBackInv
  <2> QED
    BY <2>2, <2>3
<1> QED
  BY <1>3, <1>8, <1>9

(* close gives back what is held, if it is to (roc). *)
LEMMA CloseGivesBack ==
  ASSUME ModesInv, H!close
  PROVE  /\ ModesInv'
         /\ gpioRoc /\ pinOpen => /\ reg'.mode = found.mode /\ reg'.pull = found.pull
                                  /\ found.mode = "output" => reg'.level = found.level
<1>1. PICK u \in IF sysFs THEN H!Unexported(reg) ELSE {reg} :
        H!Close(IF gpioRoc THEN H!Released(FALSE, u, held) ELSE u)
  BY DEF H!close
<1>2. /\ reg \in H!Registers /\ held \in Held /\ wanted \in Asked /\ found \in H!Registers
      /\ HoldsMode(held, found) /\ HoldsPull(held, found)
      /\ pinOpen => SameMode(held, reg, found) /\ SamePull(held, reg, found)
      /\ pinOpen /\ sysFs => held.mode # H!Unknown /\ held.pull # H!Unknown
  BY DEF ModesInv, ModesType, GivenBackInv
<1>3. u \in H!Registers /\ u.pull = reg.pull /\ (~ sysFs => u = reg)
  BY <1>1, <1>2, UnexportedKeepsPull
<1>4. pinOpen => SameMode(held, u, found) /\ SamePull(held, u, found)
  BY <1>2, <1>3 DEF SameMode, SamePull
<1>5. /\ pinOpen' = FALSE /\ sysFs' = FALSE /\ gpioOpen' = FALSE /\ gpioRoc' = gpioRoc /\ found' = found
      /\ reg' = (IF gpioRoc THEN H!Released(FALSE, u, held) ELSE u)
      /\ wanted' = (IF gpioRoc THEN H!WantedAfter(held) ELSE wanted)
      /\ held' = (IF gpioRoc THEN H!NothingHeld ELSE held)
  BY <1>1 DEF H!Close
<1>6. H!Released(FALSE, u, held) \in H!Registers
  BY <1>2, <1>3, Assumptions DEF H!PinModesAssumption, H!Released, H!WriteMode, Held, H!Registers
<1>7. gpioRoc /\ pinOpen => /\ reg'.mode = found.mode /\ reg'.pull = found.pull
                            /\ found.mode = "output" => reg'.level = found.level
  BY <1>2, <1>3, <1>4, <1>5, ReleasedGivesBack
<1>8. /\ reg' \in H!Registers /\ held' \in Held /\ wanted' \in Asked
      /\ HoldsMode(held', found') /\ HoldsPull(held', found')
  BY <1>2, <1>3, <1>5, <1>6, WantedAfterRelease, NothingIsHeld DEF HoldsMode, HoldsPull
<1>9. gpioRoc \in BOOLEAN
  BY DEF ModesInv, ModesType
<1> QED
  BY <1>2, <1>5, <1>7, <1>8, <1>9 DEF ModesInv, ModesType, GivenBackInv

(* A change of mode or of pull, of an open pin, is held first. *)
LEMMA SetKeeps ==
  ASSUME ModesInv,
         \/ \E m \in AskedMode : H!setMode(m)
         \/ \E q \in Pull : H!setPull(q)
  PROVE  ModesInv'
<1>1. /\ reg \in H!Registers /\ held \in Held /\ wanted \in Asked /\ found \in H!Registers /\ sysFs \in BOOLEAN
      /\ HoldsMode(held, found) /\ HoldsPull(held, found)
      /\ pinOpen => SameMode(held, reg, found) /\ SamePull(held, reg, found)
      /\ pinOpen /\ sysFs => held.mode # H!Unknown /\ held.pull # H!Unknown
  BY DEF ModesInv, ModesType, GivenBackInv
<1>2. ASSUME NEW m \in AskedMode, H!setMode(m) PROVE ModesInv'
  <2>1. m \in PinMode \cup {"bad"} /\ m # H!Unknown
    BY Assumptions DEF H!PinModesAssumption, H!Unknown
  <2>2. wanted' \in Asked
    BY <1>1, <1>2, <2>1 DEF H!setMode, Asked
  <2>3. UNCHANGED <<gpioOpen, gpioRoc, pinOpen, sysFs, found>>
    BY <1>2 DEF H!setMode
  <2>4. CASE pinOpen
    <3>1. held' = H!holdMode(held, reg) /\ reg' = H!WriteMode(sysFs, reg, m)
      BY <1>2, <2>4 DEF H!setMode
    <3>2. reg' \in H!Registers /\ reg'.pull = reg.pull
      BY <1>1, <2>1, <3>1, WriteModeKeepsPull
    <3>3. /\ held' \in Held /\ held'.mode # H!Unknown /\ held'.pull = held.pull
          /\ HoldsMode(held', found) /\ HoldsPull(held', found)
      BY <1>1, <2>4, <3>1, HoldModeHolds DEF HoldsMode, HoldsPull, SameMode
    <3>4. SameMode(held', reg', found) /\ SamePull(held', reg', found)
      BY <1>1, <2>4, <3>2, <3>3 DEF SameMode, SamePull
    <3> QED
      BY <1>1, <2>2, <2>3, <3>2, <3>3, <3>4 DEF ModesInv, ModesType, GivenBackInv
  <2>5. CASE ~ pinOpen
    <3>1. UNCHANGED <<held, reg>>
      BY <1>2, <2>5 DEF H!setMode
    <3> QED
      BY <1>1, <2>2, <2>3, <2>5, <3>1 DEF ModesInv, ModesType, GivenBackInv
  <2> QED
    BY <2>4, <2>5
<1>3. ASSUME NEW q \in Pull, H!setPull(q) PROVE ModesInv'
  <2>1. wanted' \in Asked
    BY <1>1, <1>3 DEF H!setPull, Asked
  <2>2. UNCHANGED <<gpioOpen, gpioRoc, pinOpen, sysFs, found>>
    BY <1>3 DEF H!setPull
  <2>3. CASE pinOpen
    <3>1. held' = H!holdPull(held, reg) /\ reg' = [reg EXCEPT !.pull = q]
      BY <1>3, <2>3 DEF H!setPull
    <3>2. reg' \in H!Registers /\ reg'.mode = reg.mode /\ reg'.level = reg.level
      BY <1>1, <3>1 DEF H!Registers
    <3>3. /\ held' \in Held /\ held'.pull # H!Unknown /\ held'.mode = held.mode /\ held'.state = held.state
          /\ HoldsMode(held', found) /\ HoldsPull(held', found)
      BY <1>1, <2>3, <3>1, HoldPullHolds DEF HoldsMode, HoldsPull, SamePull
    <3>4. SameMode(held', reg', found) /\ SamePull(held', reg', found)
      BY <1>1, <2>3, <3>2, <3>3 DEF SameMode, SamePull
    <3> QED
      BY <1>1, <2>1, <2>2, <3>2, <3>3, <3>4 DEF ModesInv, ModesType, GivenBackInv
  <2>4. CASE ~ pinOpen
    <3>1. UNCHANGED <<held, reg>>
      BY <1>3, <2>4 DEF H!setPull
    <3> QED
      BY <1>1, <2>1, <2>2, <2>4, <3>1 DEF ModesInv, ModesType, GivenBackInv
  <2> QED
    BY <2>3, <2>4
<1> QED
  BY <1>2, <1>3

(* Entering sysfs holds both mode and pull; leaving it may change a mode   *)
(* that is held.                                                           *)
LEMMA SysFsKeeps ==
  ASSUME ModesInv, NEW enable \in BOOLEAN, H!forceUseSysFs(enable)
  PROVE  ModesInv'
<1>1. /\ reg \in H!Registers /\ held \in Held /\ wanted \in Asked /\ found \in H!Registers /\ sysFs \in BOOLEAN
      /\ HoldsMode(held, found) /\ HoldsPull(held, found)
      /\ pinOpen => SameMode(held, reg, found) /\ SamePull(held, reg, found)
      /\ pinOpen /\ sysFs => held.mode # H!Unknown /\ held.pull # H!Unknown
  BY DEF ModesInv, ModesType, GivenBackInv
<1>2. UNCHANGED <<gpioOpen, gpioRoc, pinOpen, found>> /\ sysFs' = enable
  BY DEF H!forceUseSysFs
<1>3. CASE ~ pinOpen \/ sysFs = enable
  <2>1. UNCHANGED <<reg, wanted, held>>
    BY <1>3 DEF H!forceUseSysFs
  <2> QED
    BY <1>1, <1>2, <1>3, <2>1 DEF ModesInv, ModesType, GivenBackInv
<1>4. CASE pinOpen /\ ~ sysFs /\ enable
  <2> DEFINE hm == H!holdMode(held, reg)
  <2>1. H!EnableSysFs
    BY <1>4 DEF H!forceUseSysFs
  <2>2. held' = H!holdPull(hm, reg) /\ reg' = H!sysFsSetMode(reg, wanted.mode)
    BY <2>1 DEF H!EnableSysFs, H!Enabled
  <2>3. /\ hm \in Held /\ hm.mode # H!Unknown /\ hm.pull = held.pull
        /\ HoldsMode(hm, found) /\ HoldsPull(hm, found)
    BY <1>1, <1>4, HoldModeHolds DEF HoldsMode, HoldsPull, SameMode
  <2> HIDE DEF hm
  <2>4. /\ held' \in Held /\ held'.mode # H!Unknown /\ held'.pull # H!Unknown
        /\ HoldsMode(held', found) /\ HoldsPull(held', found)
    BY <1>1, <1>4, <2>2, <2>3, HoldPullHolds DEF HoldsMode, HoldsPull, SamePull
  <2>5. reg' \in H!Registers
    BY <1>1, <2>2, Assumptions DEF H!PinModesAssumption, H!sysFsSetMode, H!Registers
  <2>6. wanted' \in Asked
    BY <1>1, <2>1, Assumptions DEF H!EnableSysFs, H!sysFsGetMode, H!PinModesAssumption, Asked
  <2> QED
    BY <1>1, <1>2, <1>4, <2>4, <2>5, <2>6 DEF ModesInv, ModesType, GivenBackInv, SameMode, SamePull
<1>5. CASE pinOpen /\ sysFs /\ ~ enable
  <2>1. reg' \in H!Unexported(reg) /\ UNCHANGED <<wanted, held>>
    BY <1>5 DEF H!forceUseSysFs
  <2>2. reg' \in H!Registers
    BY <1>1, <2>1, UnexportedKeepsPull
  <2> QED
    BY <1>1, <1>2, <1>5, <2>1, <2>2 DEF ModesInv, ModesType, GivenBackInv, SameMode, SamePull
<1> QED
  BY <1>1, <1>3, <1>4, <1>5

LEMMA ModesStep == ModesInv /\ [H!Next]_H!vars => ModesInv'
<1> SUFFICES ASSUME ModesInv, [H!Next]_H!vars PROVE ModesInv'
  OBVIOUS
<1>1. CASE H!open
  BY <1>1, OpenHolds
<1>2. CASE H!close
  BY <1>2, CloseGivesBack
<1>3. CASE (\E m \in AskedMode : H!setMode(m)) \/ (\E q \in Pull : H!setPull(q))
  BY <1>3, SetKeeps
<1>4. ASSUME NEW b \in BOOLEAN, H!forceUseSysFs(b) PROVE ModesInv'
  BY <1>4, SysFsKeeps
<1>5. CASE H!release
  <2>1. /\ pinOpen /\ reg' = H!Released(FALSE, reg, held) /\ wanted' = H!WantedAfter(held) /\ held' = H!NothingHeld
        /\ UNCHANGED <<gpioOpen, gpioRoc, pinOpen, sysFs, found>> /\ ~ sysFs
    BY <1>5 DEF H!release, ModesInv, ModesType, H!Released, H!WriteMode
  <2>2. /\ reg' \in H!Registers /\ reg'.mode = found.mode /\ reg'.pull = found.pull
        /\ found.mode = "output" => reg'.level = found.level
    BY <2>1, ReleasedGivesBack DEF ModesInv, ModesType, GivenBackInv
  <2>3. wanted' \in Asked /\ held' \in Held
    BY <2>1, WantedAfterRelease, NothingIsHeld DEF ModesInv, ModesType
  <2> QED
    BY <2>1, <2>2, <2>3, NothingIsHeld
    DEF ModesInv, ModesType, GivenBackInv, HoldsMode, HoldsPull, SameMode, SamePull
<1>6. CASE H!mode \/ H!pull
  <2>1. wanted' \in Asked
    BY <1>6, Assumptions DEF H!mode, H!pull, ModesInv, ModesType, Asked, H!Registers, H!sysFsGetMode, H!PinModesAssumption
  <2> QED
    BY <1>6, <2>1 DEF H!mode, H!pull, ModesInv, ModesType, GivenBackInv
<1>7. ASSUME NEW b \in BOOLEAN, H!write(b) PROVE ModesInv'
  <2>1. /\ UNCHANGED <<gpioOpen, gpioRoc, pinOpen, sysFs, wanted, held>> /\ pinOpen
        /\ reg' = [reg EXCEPT !.level = b]
        /\ found' = IF held.mode = H!Unknown THEN [found EXCEPT !.level = b] ELSE found
    BY <1>7 DEF H!write
  <2>2. /\ reg' \in H!Registers /\ reg'.mode = reg.mode /\ reg'.pull = reg.pull /\ reg'.level = b
        /\ found' \in H!Registers /\ found'.mode = found.mode /\ found'.pull = found.pull
        /\ held.mode = H!Unknown => found'.level = b
        /\ held.mode # H!Unknown => found' = found
    BY <2>1 DEF ModesInv, ModesType, H!Registers
  <2> QED
    BY <2>1, <2>2 DEF ModesInv, ModesType, GivenBackInv, HoldsMode, HoldsPull, SameMode, SamePull
<1>8. CASE H!Other
  BY <1>8 DEF H!Other, ModesInv, ModesType, GivenBackInv
<1>9. CASE H!OpenAgain
  BY <1>9 DEF H!OpenAgain, ModesInv, ModesType, GivenBackInv
<1>11. ASSUME NEW b \in BOOLEAN, H!setReleaseOnClose(b) PROVE ModesInv'
  BY <1>11 DEF H!setReleaseOnClose, ModesInv, ModesType, GivenBackInv
<1>10. CASE UNCHANGED H!vars
  BY <1>10 DEF H!vars, ModesInv, ModesType, GivenBackInv
<1> QED
  BY <1>1, <1>2, <1>3, <1>4, <1>5, <1>6, <1>7, <1>8, <1>9, <1>10, <1>11 DEF H!Next

(* Gpio::close and Pin::close give the pin back as it was found: mode,     *)
(* pull and the level of an output, whatever layers the application used   *)
(* and whatever threw.                                                     *)
THEOREM CloseGivesPinBack == H!Spec => PinGivenBack
<1>1. H!Init => ModesInv
  <2> SUFFICES ASSUME H!Init PROVE ModesInv
    OBVIOUS
  <2>1. ModesType
    BY NothingIsHeld DEF H!Init, ModesType, Asked
  <2>2. HoldsMode(held, found) /\ HoldsPull(held, found) /\ ~ pinOpen
    BY NothingIsHeld DEF H!Init, HoldsMode, HoldsPull
  <2> QED
    BY <2>1, <2>2 DEF ModesInv, GivenBackInv
<1>2. ModesInv /\ [H!Next]_H!vars =>
        [gpioRoc /\ pinOpen /\ ~ pinOpen' =>
           /\ reg'.mode = found.mode /\ reg'.pull = found.pull
           /\ found.mode = "output" => reg'.level = found.level]_H!vars
  <2> SUFFICES ASSUME ModesInv, [H!Next]_H!vars, gpioRoc, pinOpen, ~ pinOpen'
               PROVE  /\ reg'.mode = found.mode /\ reg'.pull = found.pull
                      /\ found.mode = "output" => reg'.level = found.level
    OBVIOUS
  <2>1. H!close
    BY DEF H!Next, H!vars, H!Other, H!open, H!OpenAgain, H!mode, H!pull, H!release, H!setMode, H!setPull,
       H!setReleaseOnClose, H!write, H!forceUseSysFs
  <2> QED
    BY <2>1, CloseGivesBack
<1> QED
  BY <1>1, <1>2, ModesStep, PTL DEF H!Spec, PinGivenBack, H!PinGivenBack

-----------------------------------------------------------------------------
(* The serial line (SerialLine, src/unix/serial.c).                        *)

CSizes == {"CS5", "CS6", "CS7", "CS8"}
Termios ==
  [speed : 1 .. Len(S!Rates), csize : CSizes, parenb : BOOLEAN, parodd : BOOLEAN, inpck : BOOLEAN,
   cstopb : BOOLEAN, crtscts : BOOLEAN, soft : SUBSET S!SoftFlags]

(* The settings read from a line of termios t and RS485 flags r. *)
FlowOf(t, r) ==
  LET f == S!iSerialTermiosGetFlow(t)
  IN IF f # "none" \/ r = {} THEN f
     ELSE CASE r = {"RTS_AFTER_SEND"} -> "rs485 after send"
            [] r = {"RTS_ON_SEND"} -> "rs485 on send"
            [] OTHER -> "unknown"
DataBitsOf(t) == CHOOSE b \in DOMAIN S!CSize : S!CSize[b] = t.csize
AttrOf(t, r) ==
  [baud |-> S!Rates[t.speed], dbits |-> DataBitsOf(t), parity |-> S!iSerialTermiosGetParity(t),
   sbits |-> IF t.cstopb THEN 2 ELSE 1, flow |-> FlowOf(t, r)]

LineInv == ts \in Termios /\ LineAsAsked

LEMMA AttrIsRead == S!iSerialGetAttr = AttrOf(ts, rs485)
  BY DEF S!iSerialGetAttr, S!iSerialSpeedToInt, S!eSerialGetFlow, AttrOf, FlowOf, DataBitsOf

(* A termios is never taken for a refusal. *)
LEMMA TermiosIsNotRefused ==
  ASSUME NEW t \in Termios
  PROVE  t # S!Refused
<1>1. "speed" \in DOMAIN t
  BY DEF Termios
<1>2. "speed" \notin DOMAIN S!Refused
  BY DEF S!Refused
<1> QED
  BY <1>1, <1>2

(* What is read depends on its fields only. *)
LEMMA SameSettings ==
  ASSUME NEW t, NEW u, NEW r
  PROVE  /\ u.crtscts = t.crtscts /\ u.soft = t.soft => FlowOf(u, r) = FlowOf(t, r)
         /\ u.csize = t.csize => DataBitsOf(u) = DataBitsOf(t)
         /\ u.parenb = t.parenb /\ u.parodd = t.parodd =>
              S!iSerialTermiosGetParity(u) = S!iSerialTermiosGetParity(t)
<1>1. u.crtscts = t.crtscts /\ u.soft = t.soft => S!iSerialTermiosGetFlow(u) = S!iSerialTermiosGetFlow(t)
  BY DEF S!iSerialTermiosGetFlow
<1>2. u.crtscts = t.crtscts /\ u.soft = t.soft => FlowOf(u, r) = FlowOf(t, r)
  BY <1>1 DEF FlowOf
<1>3. u.csize = t.csize => DataBitsOf(u) = DataBitsOf(t)
  BY DEF DataBitsOf
<1>4. u.parenb = t.parenb /\ u.parodd = t.parodd => S!iSerialTermiosGetParity(u) = S!iSerialTermiosGetParity(t)
  BY DEF S!iSerialTermiosGetParity
<1> QED
  BY <1>2, <1>3, <1>4

(* What is set is what is read back, and nothing else changes. *)
LEMMA BaudrateSet ==
  ASSUME NEW t \in Termios, NEW b, NEW r, S!HasRate(b)
  PROVE  /\ S!iSerialTermiosSetBaudrate(t, b) \in Termios
         /\ AttrOf(S!iSerialTermiosSetBaudrate(t, b), r) = [AttrOf(t, r) EXCEPT !.baud = b]
<1> DEFINE s == S!eSerialIntToSpeed(b)
           u == [t EXCEPT !.speed = s]
<1>1. S!Rates \in Seq(Nat)
  BY DEF S!Rates
<1>2. \E i \in 1 .. Len(S!Rates) : S!Rates[i] = b
  BY <1>1 DEF S!HasRate, S!ToSet
<1>3. s \in 1 .. Len(S!Rates) /\ S!Rates[s] = b
  BY <1>2 DEF S!eSerialIntToSpeed
<1>4. S!iSerialTermiosSetBaudrate(t, b) = u
  BY DEF S!iSerialTermiosSetBaudrate
<1> HIDE DEF s
<1>5. /\ u \in Termios /\ u.speed = s /\ u.csize = t.csize /\ u.parenb = t.parenb /\ u.parodd = t.parodd
      /\ u.cstopb = t.cstopb /\ u.crtscts = t.crtscts /\ u.soft = t.soft
  BY <1>3 DEF Termios
<1> HIDE DEF u
<1> QED
  BY <1>3, <1>4, <1>5, SameSettings DEF AttrOf

LEMMA DataBitsSet ==
  ASSUME NEW t \in Termios, NEW b \in DOMAIN S!CSize, NEW r
  PROVE  /\ S!iSerialTermiosSetDataBits(t, b) \in Termios
         /\ AttrOf(S!iSerialTermiosSetDataBits(t, b), r) = [AttrOf(t, r) EXCEPT !.dbits = b]
<1> DEFINE u == [t EXCEPT !.csize = S!CSize[b]]
<1>1. b \in {5, 6, 7, 8} /\ S!CSize[b] \in CSizes /\ \A c \in DOMAIN S!CSize : S!CSize[c] = S!CSize[b] => c = b
  BY DEF S!CSize, CSizes
<1>2. S!iSerialTermiosSetDataBits(t, b) = u
  BY DEF S!iSerialTermiosSetDataBits
<1>3. /\ u \in Termios /\ u.speed = t.speed /\ u.csize = S!CSize[b] /\ u.parenb = t.parenb /\ u.parodd = t.parodd
      /\ u.cstopb = t.cstopb /\ u.crtscts = t.crtscts /\ u.soft = t.soft
  BY <1>1 DEF Termios
<1> HIDE DEF u
<1>4. DataBitsOf(u) = b
  BY <1>1, <1>3 DEF DataBitsOf
<1> QED
  BY <1>2, <1>3, <1>4, SameSettings DEF AttrOf

LEMMA ParitySet ==
  ASSUME NEW t \in Termios, NEW q \in {"none", "even", "odd"}, NEW r
  PROVE  /\ S!iSerialTermiosSetParity(t, q) \in Termios
         /\ AttrOf(S!iSerialTermiosSetParity(t, q), r) = [AttrOf(t, r) EXCEPT !.parity = q]
<1> DEFINE u == [t EXCEPT !.parenb = (q # "none"), !.parodd = (q = "odd"), !.inpck = (q # "none")]
<1>1. S!iSerialTermiosSetParity(t, q) = u
  BY DEF S!iSerialTermiosSetParity
<1>2. /\ u \in Termios /\ u.speed = t.speed /\ u.csize = t.csize
      /\ u.parenb = (q # "none") /\ u.parodd = (q = "odd")
      /\ u.cstopb = t.cstopb /\ u.crtscts = t.crtscts /\ u.soft = t.soft
  BY DEF Termios
<1> HIDE DEF u
<1>3. S!iSerialTermiosGetParity(u) = q
  BY <1>2 DEF S!iSerialTermiosGetParity
<1> QED
  BY <1>1, <1>2, <1>3, SameSettings DEF AttrOf

LEMMA StopBitsSet ==
  ASSUME NEW t \in Termios, NEW n \in {1, 2}, NEW r
  PROVE  /\ S!iSerialTermiosSetStopBits(t, n) \in Termios
         /\ AttrOf(S!iSerialTermiosSetStopBits(t, n), r) = [AttrOf(t, r) EXCEPT !.sbits = n]
<1> DEFINE u == [t EXCEPT !.cstopb = (n = 2)]
<1>1. S!iSerialTermiosSetStopBits(t, n) = u
  BY DEF S!iSerialTermiosSetStopBits
<1>2. /\ u \in Termios /\ u.speed = t.speed /\ u.csize = t.csize
      /\ u.parenb = t.parenb /\ u.parodd = t.parodd
      /\ u.cstopb = (n = 2) /\ u.crtscts = t.crtscts /\ u.soft = t.soft
  BY DEF Termios
<1> HIDE DEF u
<1>3. (IF u.cstopb THEN 2 ELSE 1) = n
  BY <1>2
<1> QED
  BY <1>1, <1>2, <1>3, SameSettings DEF AttrOf

GoodFlow == S!Rs485Flow \cup {"none", "hardware", "software"}

LEMMA TermiosFlowSet ==
  ASSUME NEW t \in Termios, NEW flow \in GoodFlow
  PROVE  LET u == S!iSerialTermiosSetFlow(t, flow) IN
         /\ u \in Termios /\ u.speed = t.speed /\ u.csize = t.csize
         /\ u.parenb = t.parenb /\ u.parodd = t.parodd /\ u.cstopb = t.cstopb
         /\ u.crtscts = (flow = "hardware") /\ u.soft = (IF flow = "software" THEN S!SoftFlags ELSE {})
<1>1. CASE flow \in S!Rs485Flow \cup {"none"}
  <2>1. flow # "hardware" /\ flow # "software"
    BY <1>1 DEF S!Rs485Flow
  <2>2. S!iSerialTermiosSetFlow(t, flow) = [t EXCEPT !.crtscts = FALSE, !.soft = {}]
    BY <1>1, <2>1 DEF S!iSerialTermiosSetFlow
  <2> QED
    BY <2>1, <2>2 DEF Termios
<1>2. CASE flow = "hardware"
  <2>1. S!iSerialTermiosSetFlow(t, flow) = [t EXCEPT !.crtscts = TRUE, !.soft = {}]
    BY <1>2 DEF S!iSerialTermiosSetFlow, S!Rs485Flow
  <2> QED
    BY <1>2, <2>1 DEF Termios
<1>3. CASE flow = "software"
  <2>1. S!iSerialTermiosSetFlow(t, flow) = [t EXCEPT !.crtscts = FALSE, !.soft = S!SoftFlags]
    BY <1>3 DEF S!iSerialTermiosSetFlow, S!Rs485Flow
  <2> QED
    BY <1>3, <2>1 DEF Termios
<1> QED
  BY <1>1, <1>2, <1>3 DEF GoodFlow

(* The flow control that SetFlow sets, with the RS485 mode of the driver, *)
(* is the one that is obtained, whatever it was.                           *)
LEMMA FlowSet ==
  ASSUME NEW t \in Termios, NEW flow \in GoodFlow, NEW q, S!SetFlow(t, flow)
  PROVE  ts' \in Termios /\ AttrOf(ts', rs485') = [AttrOf(t, q) EXCEPT !.flow = S!Obtained(flow)]
<1> DEFINE u == S!iSerialTermiosSetFlow(t, flow)
           r == CASE able /\ flow = "rs485 after send" -> {"RTS_AFTER_SEND"}
                  [] able /\ flow = "rs485 on send" -> {"RTS_ON_SEND"}
                  [] OTHER -> {}
<1>1. ts' = u /\ rs485' = r
  BY DEF S!SetFlow
<1>2. /\ u \in Termios /\ u.speed = t.speed /\ u.csize = t.csize
      /\ u.parenb = t.parenb /\ u.parodd = t.parodd /\ u.cstopb = t.cstopb
      /\ u.crtscts = (flow = "hardware") /\ u.soft = (IF flow = "software" THEN S!SoftFlags ELSE {})
  BY TermiosFlowSet
<1> HIDE DEF u
<1>3. FlowOf(u, r) = S!Obtained(flow)
  <2>1. S!SoftFlags # {}
    BY DEF S!SoftFlags
  <2>2. CASE flow = "hardware" \/ flow = "software"
    <3>1. S!iSerialTermiosGetFlow(u) = flow
      BY <1>2, <2>1, <2>2 DEF S!iSerialTermiosGetFlow
    <3>2. S!Obtained(flow) = flow
      BY <2>2 DEF S!Obtained, S!FlowFails, S!Rs485Flow
    <3> QED
      BY <2>2, <3>1, <3>2 DEF FlowOf
  <2>3. CASE flow = "none" \/ (flow \in S!Rs485Flow /\ ~ able)
    <3>1. S!iSerialTermiosGetFlow(u) = "none"
      BY <1>2, <2>3 DEF S!iSerialTermiosGetFlow, S!Rs485Flow
    <3>2. S!Obtained(flow) = "none" /\ r = {}
      BY <2>3 DEF S!Obtained, S!FlowFails
    <3> QED
      BY <3>1, <3>2 DEF FlowOf
  <2>4. CASE flow = "rs485 after send" /\ able
    <3>1. S!iSerialTermiosGetFlow(u) = "none"
      BY <1>2, <2>4 DEF S!iSerialTermiosGetFlow
    <3>2. S!Obtained(flow) = flow /\ r = {"RTS_AFTER_SEND"}
      BY <2>4 DEF S!Obtained, S!FlowFails
    <3> QED
      BY <2>4, <3>1, <3>2 DEF FlowOf
  <2>5. CASE flow = "rs485 on send" /\ able
    <3>1. S!iSerialTermiosGetFlow(u) = "none"
      BY <1>2, <2>5 DEF S!iSerialTermiosGetFlow
    <3>2. S!Obtained(flow) = flow /\ r = {"RTS_ON_SEND"}
      BY <2>5 DEF S!Obtained, S!FlowFails
    <3>3. {"RTS_ON_SEND"} # {"RTS_AFTER_SEND"} /\ {"RTS_ON_SEND"} # {}
      OBVIOUS
    <3> QED
      BY <2>5, <3>1, <3>2, <3>3 DEF FlowOf
  <2> QED
    BY <2>2, <2>3, <2>4, <2>5 DEF GoodFlow, S!Rs485Flow
<1> HIDE DEF r
<1> QED
  BY <1>1, <1>2, <1>3, SameSettings DEF AttrOf

(* All the settings, or a refusal, which changes nothing. *)
LEMMA AttrSet ==
  ASSUME NEW t \in Termios, NEW ios \in S!Ios, NEW q,
         S!iSerialTermiosSetAttr(t, ios) # S!Refused
  PROVE  /\ ios.flow \in GoodFlow /\ S!iSerialTermiosSetAttr(t, ios) \in Termios
         /\ \A f : [AttrOf(S!iSerialTermiosSetAttr(t, ios), q) EXCEPT !.flow = f] = [ios EXCEPT !.flow = f]
<1> DEFINE t1 == S!iSerialTermiosSetBaudrate(t, ios.baud)
           t2 == S!iSerialTermiosSetDataBits(t1, ios.dbits)
           t3 == S!iSerialTermiosSetParity(t2, ios.parity)
           t4 == S!iSerialTermiosSetStopBits(t3, ios.sbits)
           t5 == S!iSerialTermiosSetFlow(t4, ios.flow)
<1>1. /\ t1 # S!Refused /\ t2 # S!Refused /\ t3 # S!Refused /\ t4 # S!Refused /\ t5 # S!Refused
      /\ S!iSerialTermiosSetAttr(t, ios) = t5
  BY DEF S!iSerialTermiosSetAttr
<1>2. /\ S!HasRate(ios.baud) /\ ios.dbits \in DOMAIN S!CSize /\ ios.parity \in {"none", "even", "odd"}
      /\ ios.sbits \in {1, 2} /\ ios.flow \in GoodFlow
  BY <1>1 DEF S!iSerialTermiosSetBaudrate, S!iSerialTermiosSetDataBits, S!iSerialTermiosSetParity,
              S!iSerialTermiosSetStopBits, S!iSerialTermiosSetFlow, GoodFlow
<1>3. t1 \in Termios /\ AttrOf(t1, q).baud = ios.baud
  <2>1. t1 \in Termios /\ AttrOf(t1, q) = [AttrOf(t, q) EXCEPT !.baud = ios.baud]
    BY <1>2, BaudrateSet
  <2> QED
    BY <2>1 DEF AttrOf
<1> HIDE DEF t1
<1>4. t2 \in Termios /\ AttrOf(t2, q).baud = ios.baud /\ AttrOf(t2, q).dbits = ios.dbits
  <2>1. t2 \in Termios /\ AttrOf(t2, q) = [AttrOf(t1, q) EXCEPT !.dbits = ios.dbits]
    BY <1>2, <1>3, DataBitsSet
  <2> QED
    BY <1>3, <2>1 DEF AttrOf
<1> HIDE DEF t2
<1>5. t3 \in Termios /\ AttrOf(t3, q) = [AttrOf(t2, q) EXCEPT !.parity = ios.parity]
  BY <1>2, <1>4, ParitySet
<1> HIDE DEF t3
<1>6. t4 \in Termios /\ AttrOf(t4, q) = [AttrOf(t3, q) EXCEPT !.sbits = ios.sbits]
  BY <1>2, <1>5, StopBitsSet
<1> HIDE DEF t4
<1>7. /\ AttrOf(t4, q).baud = ios.baud /\ AttrOf(t4, q).dbits = ios.dbits
      /\ AttrOf(t4, q).parity = ios.parity /\ AttrOf(t4, q).sbits = ios.sbits
  BY <1>4, <1>5, <1>6 DEF AttrOf
<1>8. /\ t5 \in Termios /\ t5.speed = t4.speed /\ t5.csize = t4.csize
      /\ t5.parenb = t4.parenb /\ t5.parodd = t4.parodd /\ t5.cstopb = t4.cstopb
  BY <1>2, <1>6, TermiosFlowSet
<1> HIDE DEF t5
<1>9. /\ AttrOf(t5, q).baud = ios.baud /\ AttrOf(t5, q).dbits = ios.dbits
      /\ AttrOf(t5, q).parity = ios.parity /\ AttrOf(t5, q).sbits = ios.sbits
  BY <1>7, <1>8, SameSettings DEF AttrOf
<1>10. \A f : [AttrOf(t5, q) EXCEPT !.flow = f] = [ios EXCEPT !.flow = f]
  BY <1>9 DEF AttrOf, S!Ios
<1> QED
  BY <1>1, <1>2, <1>8, <1>10

(* cfmakeraw of a termios is a termios. *)
LEMMA RawIsTermios == \A t \in Termios : S!cfmakeraw(t) \in Termios
  BY DEF S!cfmakeraw, Termios, CSizes

(* A call that sets one field. *)
LEMMA OneSet ==
  ASSUME LineInv, NEW t, NEW field, NEW value, S!SetOne(t, field, value),
         t # S!Refused => t \in Termios /\ AttrOf(t, rs485) = [AttrOf(ts, rs485) EXCEPT ![field] = value]
  PROVE  LineInv'
<1>1. lineFd /\ UNCHANGED <<rs485, able, lineFd>> /\ lineAsked = AttrOf(ts, rs485) /\ ts \in Termios
  BY AttrIsRead DEF S!SetOne, LineInv, LineAsAsked, S!LineAsAsked
<1>2. CASE t = S!Refused
  <2>1. UNCHANGED <<ts, lineAsked>>
    BY <1>2 DEF S!SetOne
  <2> QED
    BY <1>1, <2>1, AttrIsRead DEF LineInv, LineAsAsked, S!LineAsAsked, S!iSerialGetAttr, S!eSerialGetFlow
<1>3. CASE t # S!Refused
  <2>1. ts' = t /\ lineAsked' = [lineAsked EXCEPT ![field] = value]
    BY <1>3 DEF S!SetOne
  <2>2. ts' \in Termios /\ lineAsked' = AttrOf(ts', rs485')
    BY <1>1, <1>3, <2>1
  <2>3. (S!iSerialGetAttr = AttrOf(ts, rs485))'
    BY AttrIsRead, PTL
  <2> QED
    BY <2>2, <2>3 DEF LineInv, LineAsAsked, S!LineAsAsked
<1> QED
  BY <1>2, <1>3

(* A call that sets the flow control, alone or with all the rest. *)
LEMMA FlowKept ==
  ASSUME NEW t \in Termios, NEW flow \in GoodFlow, S!SetFlow(t, flow), NEW a,
         \A f : [AttrOf(t, rs485) EXCEPT !.flow = f] = [a EXCEPT !.flow = f],
         lineAsked' = [a EXCEPT !.flow = S!Obtained(flow)]
  PROVE  LineInv'
<1>1. ts' \in Termios /\ AttrOf(ts', rs485') = [AttrOf(t, rs485) EXCEPT !.flow = S!Obtained(flow)]
  BY FlowSet
<1>2. lineAsked' = AttrOf(ts', rs485')
  BY <1>1
<1>3. (S!iSerialGetAttr = AttrOf(ts, rs485))'
  BY AttrIsRead, PTL
<1> QED
  BY <1>1, <1>2, <1>3 DEF LineInv, LineAsAsked, S!LineAsAsked

LEMMA LineStep == LineInv /\ [S!Next]_S!vars => LineInv'
<1> SUFFICES ASSUME LineInv, [S!Next]_S!vars PROVE LineInv'
  OBVIOUS
<1>1. ts \in Termios /\ (lineFd => lineAsked = AttrOf(ts, rs485))
  BY AttrIsRead DEF LineInv, LineAsAsked, S!LineAsAsked
<1>2. ASSUME NEW b \in Bauds, S!iSerialSetBaudrate(b) PROVE LineInv'
  <2>1. S!iSerialTermiosSetBaudrate(ts, b) # S!Refused => S!HasRate(b)
    BY DEF S!iSerialTermiosSetBaudrate
  <2>2. S!SetOne(S!iSerialTermiosSetBaudrate(ts, b), "baud", b)
    BY <1>2 DEF S!iSerialSetBaudrate
  <2> QED
    BY <1>1, <2>1, <2>2, BaudrateSet, OneSet
<1>3. ASSUME NEW d \in DataBits, S!iSerialSetDataBits(d) PROVE LineInv'
  <2>1. S!iSerialTermiosSetDataBits(ts, d) # S!Refused => d \in DOMAIN S!CSize
    BY DEF S!iSerialTermiosSetDataBits
  <2>2. S!SetOne(S!iSerialTermiosSetDataBits(ts, d), "dbits", d)
    BY <1>3 DEF S!iSerialSetDataBits
  <2> QED
    BY <1>1, <2>1, <2>2, DataBitsSet, OneSet
<1>4. ASSUME NEW n \in Stops, S!iSerialSetStopBits(n) PROVE LineInv'
  <2>1. S!iSerialTermiosSetStopBits(ts, n) # S!Refused => n \in {1, 2}
    BY DEF S!iSerialTermiosSetStopBits
  <2>2. S!SetOne(S!iSerialTermiosSetStopBits(ts, n), "sbits", n)
    BY <1>4 DEF S!iSerialSetStopBits
  <2> QED
    BY <1>1, <2>1, <2>2, StopBitsSet, OneSet
<1>5. ASSUME NEW q \in Parities, S!iSerialSetParity(q) PROVE LineInv'
  <2>1. S!iSerialTermiosSetParity(ts, q) # S!Refused => q \in {"none", "even", "odd"}
    BY DEF S!iSerialTermiosSetParity
  <2>2. S!SetOne(S!iSerialTermiosSetParity(ts, q), "parity", q)
    BY <1>5 DEF S!iSerialSetParity
  <2> QED
    BY <1>1, <2>1, <2>2, ParitySet, OneSet
<1>6. ASSUME UNCHANGED <<ts, rs485, lineAsked>>, lineFd' => lineFd PROVE LineInv'
  <2>1. (S!iSerialGetAttr = AttrOf(ts, rs485))'
    BY AttrIsRead, PTL
  <2> QED
    BY <1>1, <1>6, <2>1 DEF LineInv, LineAsAsked, S!LineAsAsked
<1>7. ASSUME NEW f \in Flows, S!iSerialSetFlow(f) PROVE LineInv'
  <2>1. lineFd /\ lineFd' = lineFd
    BY <1>7 DEF S!iSerialSetFlow
  <2>2. CASE S!iSerialTermiosSetFlow(ts, f) = S!Refused
    BY <1>6, <1>7, <2>1, <2>2 DEF S!iSerialSetFlow
  <2>3. CASE S!iSerialTermiosSetFlow(ts, f) # S!Refused
    <3>1. S!SetFlow(ts, f) /\ lineAsked' = [lineAsked EXCEPT !.flow = S!Obtained(f)]
      BY <1>7, <2>3 DEF S!iSerialSetFlow
    <3>2. f \in GoodFlow
      BY <2>3 DEF S!iSerialTermiosSetFlow, GoodFlow
    <3> QED
      BY <1>1, <2>1, <3>1, <3>2, FlowKept
  <2> QED
    BY <2>2, <2>3
<1>8. ASSUME NEW ios \in S!Ios, S!iSerialSetAttr(ios) PROVE LineInv'
  <2> DEFINE t == S!iSerialTermiosSetAttr(ts, ios)
  <2>1. lineFd' = lineFd
    BY <1>8 DEF S!iSerialSetAttr
  <2>2. CASE t = S!Refused
    BY <1>6, <1>8, <2>1, <2>2 DEF S!iSerialSetAttr
  <2>3. CASE t # S!Refused
    <3>1. S!SetFlow(t, ios.flow) /\ lineAsked' = [ios EXCEPT !.flow = S!Obtained(ios.flow)]
      BY <1>8, <2>3 DEF S!iSerialSetAttr, S!Ios
    <3>2. ios.flow \in GoodFlow /\ t \in Termios
          /\ \A f : [AttrOf(t, rs485) EXCEPT !.flow = f] = [ios EXCEPT !.flow = f]
      BY <1>1, <2>3, AttrSet
    <3> HIDE DEF t
    <3> QED
      BY <3>1, <3>2, FlowKept
  <2> QED
    BY <2>2, <2>3
<1>9. ASSUME NEW ios \in S!Ios, S!iSerialOpen(ios) PROVE LineInv'
  <2> DEFINE t == S!iSerialTermiosSetAttr(S!cfmakeraw(ts), ios)
  <2>1. CASE t = S!Refused
    BY <1>6, <1>9, <2>1 DEF S!iSerialOpen
  <2>2. CASE t # S!Refused
    <3>1. S!SetFlow(t, ios.flow) /\ lineAsked' = [ios EXCEPT !.flow = S!Obtained(ios.flow)]
      BY <1>9, <2>2 DEF S!iSerialOpen, S!Ios
    <3>2. ios.flow \in GoodFlow /\ t \in Termios
          /\ \A f : [AttrOf(t, rs485) EXCEPT !.flow = f] = [ios EXCEPT !.flow = f]
      BY <1>1, <2>2, RawIsTermios, AttrSet
    <3> HIDE DEF t
    <3> QED
      BY <3>1, <3>2, FlowKept
  <2> QED
    BY <2>1, <2>2
<1>10. CASE S!vSerialClose \/ UNCHANGED S!vars
  BY <1>6, <1>10 DEF S!vSerialClose, S!vars
<1> QED
  BY <1>2, <1>3, <1>4, <1>5, <1>7, <1>8, <1>9, <1>10 DEF S!Next

(* LineAsAsked: what is read back from an open line (src/unix/serial.c) is *)
(* what the calls have asked for, whatever was set before and whatever     *)
(* another program left in the flags.                                      *)
THEOREM LineIsAsAsked == S!Spec => []LineAsAsked
<1>1. S!Init => LineInv
  <2> SUFFICES ASSUME S!Init PROVE LineInv
    OBVIOUS
  <2>1. PICK b \in Bauds : S!HasRate(b) /\ ts.speed = S!eSerialIntToSpeed(b)
    BY DEF S!Init
  <2>2. S!Rates \in Seq(Nat)
    BY DEF S!Rates
  <2>3. \E i \in 1 .. Len(S!Rates) : S!Rates[i] = b
    BY <2>1, <2>2 DEF S!HasRate, S!ToSet
  <2>4. ts.speed \in 1 .. Len(S!Rates)
    BY <2>1, <2>3 DEF S!eSerialIntToSpeed
  <2>5. ts \in Termios
    BY <2>4 DEF S!Init, Termios, CSizes, S!SoftFlags
  <2> QED
    BY <2>5 DEF S!Init, LineInv, LineAsAsked, S!LineAsAsked
<1>2. LineInv => LineAsAsked
  BY DEF LineInv
<1> QED
  BY <1>1, <1>2, LineStep, PTL DEF S!Spec

-----------------------------------------------------------------------------
(* u is s without its element i, or with e as element i.                   *)
LessOne(u, s, i) ==
  /\ Len(u) = Len(s) - 1
  /\ \A k \in 1 .. Len(s) - 1 : u[k] = IF k < i THEN s[k] ELSE s[k + 1]

OneMore(u, s, i, e) ==
  /\ Len(u) = Len(s) + 1 /\ u[i] = e
  /\ \A k \in 1 .. Len(s) + 1 : k < i => u[k] = s[k]
  /\ \A k \in 1 .. Len(s) + 1 : k > i => u[k] = s[k - 1]

(* Sequences with an element more or less, wherever it is.                 *)
LEMMA RemovedFrom ==
  ASSUME NEW T, NEW s \in Seq(T), NEW i \in 1 .. Len(s)
  PROVE  D!RemoveAt(s, i) \in Seq(T) /\ LessOne(D!RemoveAt(s, i), s, i)
<1> DEFINE a == SubSeq(s, 1, i - 1)
           b == SubSeq(s, i + 1, Len(s))
           w == a \o b
<1>1. a \in Seq(T) /\ Len(a) = i - 1 /\ \A k \in 1 .. i - 1 : a[k] = s[k]
  OBVIOUS
<1>2. b \in Seq(T) /\ Len(b) = Len(s) - i /\ \A k \in 1 .. Len(s) - i : b[k] = s[k + i]
  OBVIOUS
<1> HIDE DEF a, b
<1>5. Len(s) \in Nat /\ i \in Nat
  OBVIOUS
<1>6. /\ w \in Seq(T) /\ Len(w) = Len(a) + Len(b)
      /\ \A k \in 1 .. Len(a) + Len(b) : w[k] = IF k <= Len(a) THEN a[k] ELSE b[k - Len(a)]
  BY <1>1, <1>2, ConcatProperties
<1> HIDE DEF w
<1>3. w \in Seq(T) /\ Len(w) = Len(s) - 1
  BY <1>1, <1>2, <1>5, <1>6
<1>4. ASSUME NEW k \in 1 .. Len(s) - 1 PROVE w[k] = IF k < i THEN s[k] ELSE s[k + 1]
  <2> k \in Nat
    BY <1>5
  <2>3. k \in 1 .. Len(a) + Len(b)
    BY <1>1, <1>2, <1>5
  <2>4. w[k] = IF k <= i - 1 THEN a[k] ELSE b[k - (i - 1)]
    BY <1>1, <1>6, <2>3
  <2>1. CASE k < i
    <3>1. k \in 1 .. i - 1 /\ k <= i - 1
      BY <1>5, <2>1
    <3> QED
      BY <1>1, <2>1, <2>4, <3>1
  <2>2. CASE k >= i
    <3>1. k - (i - 1) \in 1 .. Len(s) - i /\ w[k] = b[k - (i - 1)]
      BY <1>5, <2>2, <2>4
    <3>2. (k - (i - 1)) + i = k + 1
      BY <1>5
    <3> QED
      BY <1>2, <1>5, <2>2, <3>1, <3>2
  <2> QED
    BY <1>5, <2>1, <2>2
<1> QED
  BY <1>3, <1>4 DEF a, b, w, D!RemoveAt, LessOne

LEMMA InsertedIn ==
  ASSUME NEW T, NEW s \in Seq(T), NEW e \in T, NEW i \in 1 .. Len(s) + 1
  PROVE  D!InsertAt(s, i, e) \in Seq(T) /\ OneMore(D!InsertAt(s, i, e), s, i, e)
<1> DEFINE a == SubSeq(s, 1, i - 1)
           b == SubSeq(s, i, Len(s))
           c == a \o <<e>>
           w == c \o b
<1>1. a \in Seq(T) /\ Len(a) = i - 1 /\ \A k \in 1 .. i - 1 : a[k] = s[k]
  OBVIOUS
<1>2. b \in Seq(T) /\ Len(b) = Len(s) - i + 1 /\ \A k \in 1 .. Len(s) - i + 1 : b[k] = s[k + i - 1]
  OBVIOUS
<1> HIDE DEF a, b
<1>6. Len(s) \in Nat /\ i \in Nat
  OBVIOUS
<1>3. c \in Seq(T) /\ Len(c) = i /\ c[i] = e /\ \A k \in 1 .. i - 1 : c[k] = s[k]
  <2>1. <<e>> \in Seq(T) /\ Len(<<e>>) = 1 /\ <<e>>[1] = e
    OBVIOUS
  <2>2. /\ c \in Seq(T) /\ Len(c) = Len(a) + 1
        /\ \A k \in 1 .. Len(a) + 1 : c[k] = IF k <= Len(a) THEN a[k] ELSE <<e>>[k - Len(a)]
    BY <1>1, <2>1, ConcatProperties
  <2> HIDE DEF c
  <2>3. c[i] = <<e>>[i - (i - 1)] /\ i - (i - 1) = 1
    BY <1>1, <1>6, <2>2
  <2> QED
    BY <1>1, <1>6, <2>1, <2>2, <2>3
<1> HIDE DEF c
<1>7. /\ w \in Seq(T) /\ Len(w) = Len(c) + Len(b)
      /\ \A k \in 1 .. Len(c) + Len(b) : w[k] = IF k <= Len(c) THEN c[k] ELSE b[k - Len(c)]
  BY <1>2, <1>3, ConcatProperties
<1> HIDE DEF w
<1>4. w \in Seq(T) /\ Len(w) = Len(s) + 1
  BY <1>2, <1>3, <1>6, <1>7
<1>5. ASSUME NEW k \in 1 .. Len(s) + 1
      PROVE  w[k] = IF k < i THEN s[k] ELSE IF k = i THEN e ELSE s[k - 1]
  <2> k \in Nat
    BY <1>6
  <2>1. CASE k <= i
    BY <1>2, <1>3, <1>6, <1>7, <2>1
  <2>2. CASE k > i
    <3>1. k - i \in 1 .. Len(s) - i + 1 /\ w[k] = b[k - i]
      BY <1>2, <1>3, <1>6, <1>7, <2>2
    <3>2. b[k - i] = s[(k - i) + i - 1]
      BY <1>2, <3>1
    <3>3. (k - i) + i - 1 = k - 1
      BY <1>6
    <3> QED
      BY <1>6, <2>2, <3>1, <3>2, <3>3
  <2> QED
    BY <1>6, <2>1, <2>2
<1>8. w[i] = e
  BY <1>5, <1>6
<1>9. \A k \in 1 .. Len(s) + 1 : (k < i => w[k] = s[k]) /\ (k > i => w[k] = s[k - 1])
  BY <1>5, <1>6
<1> QED
  BY <1>4, <1>8, <1>9 DEF a, b, c, w, D!InsertAt, OneMore

-----------------------------------------------------------------------------
(* The doubly linked list (Dlist, src/dlist.c).                            *)

(* The cells of s are linked by n and p from h to t. *)
Linked(s, h, t, n, p1) ==
  /\ s = << >> => h = D!NULL /\ t = D!NULL
  /\ s # << >> => h = s[1] /\ p1[h] = D!NULL /\ t = s[Len(s)] /\ n[t] = D!NULL
  /\ \A k \in 1 .. Len(s) - 1 : n[s[k]] = s[k + 1] /\ p1[s[k + 1]] = s[k]

Links == [Cell -> Cell \cup {D!NULL}]

ListInv ==
  /\ list \in Seq(Cell) /\ next \in Links /\ prev \in Links
  /\ \A i, j \in 1 .. Len(list) : list[i] = list[j] => i = j
  /\ size = Len(list) /\ live = {list[k] : k \in 1 .. Len(list)}
  /\ IsFiniteSet(live) /\ Cardinality(live) = size
  /\ Linked(list, head, tail, next, prev)

(* The cells of the list with a cell more, or less. *)
LEMMA ListIsPlaced ==
  ASSUME ListInv, NEW e \in live
  PROVE  D!Place(e) \in 1 .. Len(list) /\ list[D!Place(e)] = e
  BY DEF ListInv, D!Place

LEMMA ListGrows ==
  ASSUME ListInv, NEW new \in Cell, new \notin live, NEW i \in 1 .. Len(list) + 1,
         list' \in Seq(Cell), Len(list') = Len(list) + 1, list'[i] = new,
         \A k \in 1 .. Len(list) + 1 : k < i => list'[k] = list[k],
         \A k \in 1 .. Len(list) + 1 : k > i => list'[k] = list[k - 1],
         live' = live \cup {new}, size' = size + 1
  PROVE  /\ \A j, k \in 1 .. Len(list') : list'[j] = list'[k] => j = k
         /\ size' = Len(list') /\ live' = {list'[k] : k \in 1 .. Len(list')}
         /\ IsFiniteSet(live') /\ Cardinality(live') = size'
<1>1. /\ list \in Seq(Cell) /\ \A j, k \in 1 .. Len(list) : list[j] = list[k] => j = k
      /\ size = Len(list) /\ live = {list[k] : k \in 1 .. Len(list)}
      /\ IsFiniteSet(live) /\ Cardinality(live) = size
  BY DEF ListInv
<1>0. Len(list) \in Nat /\ i \in Nat
  BY <1>1
<1>2. IsFiniteSet(live') /\ Cardinality(live') = size'
  <2>1. IsFiniteSet(live \cup {new}) /\ Cardinality(live \cup {new}) = Cardinality(live) + 1
    BY <1>1, FS_AddElement
  <2> QED
    BY <1>1, <2>1
<1>3. \A k \in 1 .. Len(list') : list'[k] = new => k = i
  BY <1>1
<1>4. \A j, k \in 1 .. Len(list') : list'[j] = list'[k] => j = k
  <2> SUFFICES ASSUME NEW j \in 1 .. Len(list'), NEW k \in 1 .. Len(list'), list'[j] = list'[k], j # i, k # i
               PROVE  j = k
    BY <1>3
  <2>1. /\ j < i => list'[j] = list[j] /\ j \in 1 .. Len(list)
        /\ j > i => list'[j] = list[j - 1] /\ j - 1 \in 1 .. Len(list)
        /\ k < i => list'[k] = list[k] /\ k \in 1 .. Len(list)
        /\ k > i => list'[k] = list[k - 1] /\ k - 1 \in 1 .. Len(list)
        /\ j \in Nat /\ k \in Nat
    BY <1>0, <1>1
  <2>2. CASE j < i /\ k < i
    BY <1>1, <2>1, <2>2
  <2>3. CASE j > i /\ k > i
    <3>1. j - 1 = k - 1
      BY <1>1, <2>1, <2>3
    <3> QED
      BY <2>1, <3>1
  <2>4. CASE j < i /\ k > i
    <3>1. j = k - 1
      BY <1>1, <2>1, <2>4
    <3> QED
      BY <1>0, <2>1, <2>4, <3>1
  <2>5. CASE j > i /\ k < i
    <3>1. j - 1 = k
      BY <1>1, <2>1, <2>5
    <3> QED
      BY <1>0, <2>1, <2>5, <3>1
  <2> QED
    BY <1>0, <2>1, <2>2, <2>3, <2>4, <2>5
<1>5. ASSUME NEW k \in 1 .. Len(list') PROVE list'[k] \in live'
  BY <1>1
<1>6. ASSUME NEW c \in live' PROVE \E k \in 1 .. Len(list') : list'[k] = c
  <2>1. CASE c = new
    BY <2>1
  <2>2. CASE c # new
    <3>1. PICK k \in 1 .. Len(list) : list[k] = c
      BY <1>1, <2>2
    <3>2. CASE k < i
      BY <1>1, <3>1, <3>2
    <3>3. CASE k >= i
      <4>1. k + 1 \in 1 .. Len(list') /\ list'[k + 1] = list[(k + 1) - 1] /\ (k + 1) - 1 = k
        BY <1>1, <3>1, <3>3
      <4> QED
        BY <3>1, <4>1
    <3> QED
      BY <1>1, <3>2, <3>3
  <2> QED
    BY <2>1, <2>2
<1> QED
  BY <1>1, <1>2, <1>4, <1>5, <1>6

LEMMA ListShrinks ==
  ASSUME ListInv, NEW i \in 1 .. Len(list),
         list' \in Seq(Cell), Len(list') = Len(list) - 1,
         \A k \in 1 .. Len(list) - 1 : list'[k] = IF k < i THEN list[k] ELSE list[k + 1],
         live' = live \ {list[i]}, size' = size - 1
  PROVE  /\ \A j, k \in 1 .. Len(list') : list'[j] = list'[k] => j = k
         /\ size' = Len(list') /\ live' = {list'[k] : k \in 1 .. Len(list')}
         /\ IsFiniteSet(live') /\ Cardinality(live') = size'
<1>1. /\ list \in Seq(Cell) /\ \A j, k \in 1 .. Len(list) : list[j] = list[k] => j = k
      /\ size = Len(list) /\ live = {list[k] : k \in 1 .. Len(list)}
      /\ IsFiniteSet(live) /\ Cardinality(live) = size
  BY DEF ListInv
<1>0. Len(list) \in Nat /\ i \in Nat
  BY <1>1
<1>2. IsFiniteSet(live') /\ Cardinality(live') = size'
  <2>1. list[i] \in live
    BY <1>1
  <2> QED
    BY <1>1, <2>1, FS_RemoveElement
<1>3. \A j, k \in 1 .. Len(list') : list'[j] = list'[k] => j = k
  <2> SUFFICES ASSUME NEW j \in 1 .. Len(list'), NEW k \in 1 .. Len(list'), list'[j] = list'[k]
               PROVE  j = k
    OBVIOUS
  <2>0. j \in 1 .. Len(list) - 1 /\ k \in 1 .. Len(list) - 1
    BY <1>0
  <2>1. /\ j \in 1 .. Len(list) /\ j + 1 \in 1 .. Len(list) /\ k \in 1 .. Len(list) /\ k + 1 \in 1 .. Len(list)
        /\ j \in Nat /\ k \in Nat
    BY <1>0, <2>0
  <2>6. /\ list'[j] = (IF j < i THEN list[j] ELSE list[j + 1])
        /\ list'[k] = (IF k < i THEN list[k] ELSE list[k + 1])
    BY <2>0
  <2>2. CASE j < i /\ k < i
    BY <1>1, <2>1, <2>2, <2>6
  <2>3. CASE ~ j < i /\ ~ k < i
    <3>1. j + 1 = k + 1
      BY <1>1, <2>1, <2>3, <2>6
    <3> QED
      BY <2>1, <3>1
  <2>4. CASE j < i /\ ~ k < i
    <3>1. j = k + 1
      BY <1>1, <2>1, <2>4, <2>6
    <3> QED
      BY <1>0, <2>1, <2>4, <3>1
  <2>5. CASE ~ j < i /\ k < i
    <3>1. j + 1 = k
      BY <1>1, <2>1, <2>5, <2>6
    <3> QED
      BY <1>0, <2>1, <2>5, <3>1
  <2> QED
    BY <2>2, <2>3, <2>4, <2>5
<1>4. ASSUME NEW k \in 1 .. Len(list') PROVE list'[k] \in live'
  <2>1. /\ k \in 1 .. Len(list) /\ k + 1 \in 1 .. Len(list)
        /\ list'[k] = (IF k < i THEN list[k] ELSE list[k + 1])
    BY <1>1
  <2> QED
    BY <1>1, <2>1
<1>5. ASSUME NEW c \in live' PROVE \E k \in 1 .. Len(list') : list'[k] = c
  <2>1. PICK k \in 1 .. Len(list) : list[k] = c /\ k # i
    BY <1>1
  <2>2. CASE k < i
    BY <1>1, <2>1, <2>2
  <2>3. CASE k > i
    <3>1. k - 1 \in 1 .. Len(list') /\ list'[k - 1] = list[(k - 1) + 1] /\ (k - 1) + 1 = k
      BY <1>1, <2>1, <2>3
    <3> QED
      BY <2>1, <3>1
  <2> QED
    BY <1>1, <2>1, <2>2, <2>3
<1> QED
  BY <1>1, <1>2, <1>3, <1>4, <1>5

(* The first cell. *)
LEMMA FirstIsLinked ==
  ASSUME ListInv, NEW new \in Cell, D!Allocate(new), D!InsertFirst(new)
  PROVE  ListInv'
<1>1. list = << >> /\ Len(list) = 0 /\ size = 0 /\ live = {} /\ next \in Links /\ prev \in Links
  <2>1. list \in Seq(Cell) /\ size = Len(list) /\ size = 0
    BY DEF ListInv, D!InsertFirst
  <2>2. list = << >>
    BY <2>1, EmptySeq
  <2>3. live = {}
    BY <2>1 DEF ListInv
  <2> QED
    BY <2>1, <2>2, <2>3 DEF ListInv
<1>2. /\ head' = new /\ tail' = new /\ next' = [next EXCEPT ![new] = D!NULL] /\ prev' = [prev EXCEPT ![new] = D!NULL]
      /\ list' = <<new>> /\ live' = {new} /\ size' = 1
  BY <1>1 DEF D!InsertFirst, D!Allocate
<1>3. list' \in Seq(Cell) /\ Len(list') = 1 /\ list'[1] = new /\ list' # << >>
  BY <1>2
<1>4. next' \in Links /\ prev' \in Links /\ next'[new] = D!NULL /\ prev'[new] = D!NULL
  BY <1>1, <1>2 DEF Links
<1>5. IsFiniteSet(live') /\ Cardinality(live') = 1
  BY <1>2, FS_Singleton
<1>6. live' = {list'[k] : k \in 1 .. Len(list')}
  BY <1>2, <1>3
<1>7. Linked(list, head, tail, next, prev)'
  BY <1>2, <1>3, <1>4 DEF Linked
<1> QED
  BY <1>2, <1>3, <1>4, <1>5, <1>6, <1>7 DEF ListInv

(* A cell after e: the one that followed e follows it. *)
LEMMA AfterIsLinked ==
  ASSUME ListInv, NEW e \in live, NEW new \in Cell, D!Allocate(new), D!InsertAfter(e, new)
  PROVE  ListInv'
<1> DEFINE i == D!Place(e)
           n == Len(list)
<1>1. /\ list \in Seq(Cell) /\ next \in Links /\ prev \in Links
      /\ \A j, k \in 1 .. n : list[j] = list[k] => j = k
      /\ live = {list[k] : k \in 1 .. n} /\ Linked(list, head, tail, next, prev) /\ n \in Nat
  BY DEF ListInv
<1>2. i \in 1 .. n /\ list[i] = e
  BY ListIsPlaced
<1>3. list' = D!InsertAt(list, i + 1, new)
  BY DEF D!InsertAfter
<1>4. new \notin live /\ live' = live \cup {new} /\ size' = size + 1
  BY DEF D!Allocate
<1>5. /\ next' = [next EXCEPT ![new] = next[e], ![e] = new]
      /\ prev' = [c \in Cell |-> IF c = new THEN e ELSE IF c = next[e] THEN new ELSE prev[c]]
      /\ tail' = IF next[e] = D!NULL THEN new ELSE tail
      /\ head' = head
  BY DEF D!InsertAfter
<1> HIDE DEF i
<1>6. i \in Nat /\ i + 1 \in 1 .. n + 1
  BY <1>1, <1>2
<1>7. /\ list' \in Seq(Cell) /\ Len(list') = n + 1 /\ list'[i + 1] = new
      /\ \A k \in 1 .. n + 1 : k < i + 1 => list'[k] = list[k]
      /\ \A k \in 1 .. n + 1 : k > i + 1 => list'[k] = list[k - 1]
  <2>1. D!InsertAt(list, i + 1, new) \in Seq(Cell) /\ OneMore(D!InsertAt(list, i + 1, new), list, i + 1, new)
    BY <1>1, <1>6, InsertedIn
  <2>2. list' \in Seq(Cell) /\ OneMore(list', list, i + 1, new)
    BY <1>3, <2>1
  <2> QED
    BY <2>2 DEF OneMore
<1>8. /\ \A j, k \in 1 .. Len(list') : list'[j] = list'[k] => j = k
      /\ size' = Len(list') /\ live' = {list'[k] : k \in 1 .. Len(list')}
      /\ IsFiniteSet(live') /\ Cardinality(live') = size'
  BY <1>4, <1>6, <1>7, ListGrows
<1>9. list # << >> /\ e \in Cell /\ e # new /\ n > 0
  BY <1>1, <1>2, <1>4
<1>10. /\ head = list[1] /\ prev[head] = D!NULL /\ tail = list[n] /\ next[tail] = D!NULL
       /\ \A k \in 1 .. n - 1 : next[list[k]] = list[k + 1] /\ prev[list[k + 1]] = list[k]
  BY <1>1, <1>9 DEF Linked
<1>11. next[e] = IF i = n THEN D!NULL ELSE list[i + 1]
  <2>1. CASE i = n
    BY <1>2, <1>10, <2>1
  <2>2. CASE i # n
    <3>1. i \in 1 .. n - 1
      BY <1>1, <1>2, <2>2
    <3> QED
      BY <1>2, <1>10, <2>2, <3>1
  <2> QED
    BY <2>1, <2>2
<1>12. \A k \in 1 .. n : list[k] \in Cell /\ list[k] # new /\ list[k] # D!NULL
  BY <1>1, <1>4, Assumptions DEF D!DlistAssumption, D!NULL
<1>13. /\ next' \in Links /\ prev' \in Links /\ next'[e] = new /\ next'[new] = next[e]
       /\ \A c \in Cell \ {e, new} : next'[c] = next[c]
  BY <1>1, <1>5, <1>9 DEF Links
<1>14. /\ prev'[new] = e
       /\ \A c \in Cell \ {new} : prev'[c] = IF c = next[e] THEN new ELSE prev[c]
  BY <1>5
<1>15. head' = list'[1] /\ prev'[head'] = D!NULL
  <2>1. list'[1] = list[1] /\ 1 \in 1 .. n
    BY <1>1, <1>2, <1>6, <1>7
  <2>2. list[1] # next[e]
    <3>1. CASE i = n
      BY <1>11, <1>12, <2>1, <3>1
    <3>2. CASE i # n
      <4>1. i + 1 \in 1 .. n /\ i + 1 # 1
        BY <1>1, <1>2, <3>2
      <4> QED
        BY <1>1, <1>11, <2>1, <3>2, <4>1
    <3> QED
      BY <3>1, <3>2
  <2> QED
    BY <1>5, <1>10, <1>12, <1>14, <2>1, <2>2
<1>16. tail' = list'[n + 1] /\ next'[tail'] = D!NULL
  <2>1. CASE i = n
    BY <1>5, <1>7, <1>11, <1>13, <2>1
  <2>2. CASE i # n
    <3>1. n \in 1 .. n /\ n + 1 \in 1 .. n + 1 /\ n + 1 > i + 1 /\ i + 1 \in 1 .. n
      BY <1>1, <1>2, <2>2
    <3>2. list'[n + 1] = list[n]
      BY <1>1, <1>7, <3>1
    <3>3. tail' = list[n] /\ list[n] # e
      BY <1>1, <1>2, <1>5, <1>10, <1>11, <1>12, <2>2, <3>1
    <3> QED
      BY <1>10, <1>12, <1>13, <3>1, <3>2, <3>3
  <2> QED
    BY <2>1, <2>2
<1>17. ASSUME NEW k \in 1 .. n PROVE next'[list'[k]] = list'[k + 1] /\ prev'[list'[k + 1]] = list'[k]
  <2>0. k \in Nat
    BY <1>1
  <2>1. CASE k < i
    <3>1. k \in 1 .. n - 1 /\ k + 1 \in 1 .. n /\ k < i + 1 /\ k + 1 < i + 1 /\ k \in 1 .. n + 1 /\ k + 1 \in 1 .. n + 1
      BY <1>1, <1>2, <1>6, <2>0, <2>1
    <3>2. list'[k] = list[k] /\ list'[k + 1] = list[k + 1]
      BY <1>7, <3>1
    <3>3. list[k] # e /\ list[k + 1] # next[e]
      <4>1. list[k] # e
        BY <1>1, <1>2, <2>0, <2>1
      <4>2. CASE i = n
        BY <1>11, <1>12, <3>1, <4>1, <4>2
      <4>3. CASE i # n
        <5>1. i + 1 \in 1 .. n /\ i + 1 # k + 1
          BY <1>1, <1>2, <1>6, <2>0, <2>1, <4>3
        <5> QED
          BY <1>1, <1>11, <3>1, <4>1, <4>3, <5>1
      <4> QED
        BY <4>1, <4>2, <4>3
    <3> QED
      BY <1>10, <1>12, <1>13, <1>14, <3>1, <3>2, <3>3
  <2>2. CASE k = i
    <3>1. list'[k] = e /\ list'[k + 1] = new
      BY <1>1, <1>2, <1>6, <1>7, <2>2
    <3> QED
      BY <1>13, <1>14, <3>1
  <2>3. CASE k = i + 1
    <3>1. k + 1 \in 1 .. n + 1 /\ k + 1 > i + 1 /\ (k + 1) - 1 = k /\ i # n
      BY <1>1, <1>2, <1>6, <2>3
    <3>2. list'[k] = new /\ list'[k + 1] = list[k]
      BY <1>7, <2>3, <3>1
    <3>3. next[e] = list[k]
      BY <1>11, <2>3, <3>1
    <3> QED
      BY <1>12, <1>13, <1>14, <3>2, <3>3
  <2>4. CASE k > i + 1
    <3>1. /\ k - 1 \in 1 .. n - 1 /\ k \in 1 .. n + 1 /\ k + 1 \in 1 .. n + 1 /\ k + 1 > i + 1
          /\ (k + 1) - 1 = k /\ (k - 1) + 1 = k /\ k - 1 \in 1 .. n /\ k - 1 # i /\ i + 1 \in 1 .. n /\ i # n
          /\ i + 1 # k
      BY <1>1, <1>2, <1>6, <2>0, <2>4
    <3>2. list'[k] = list[k - 1] /\ list'[k + 1] = list[k]
      BY <1>7, <2>4, <3>1
    <3>3. list[k - 1] # e /\ list[k] # next[e]
      BY <1>1, <1>2, <1>11, <3>1
    <3>4. next[list[k - 1]] = list[k] /\ prev[list[k]] = list[k - 1]
      BY <1>10, <3>1
    <3> QED
      BY <1>12, <1>13, <1>14, <3>1, <3>2, <3>3, <3>4
  <2> QED
    BY <1>6, <2>0, <2>1, <2>2, <2>3, <2>4
<1>18. Linked(list, head, tail, next, prev)'
  <2>1. list' # << >> /\ Len(list') - 1 = n
    BY <1>1, <1>7
  <2>2. \A k \in 1 .. Len(list') - 1 : next'[list'[k]] = list'[k + 1] /\ prev'[list'[k + 1]] = list'[k]
    BY <1>17, <2>1
  <2> QED
    BY <1>7, <1>15, <1>16, <2>1, <2>2 DEF Linked
<1> QED
  BY <1>7, <1>8, <1>13, <1>18 DEF ListInv

(* A cell before e: it follows the one that e followed. *)
LEMMA BeforeIsLinked ==
  ASSUME ListInv, NEW e \in live, NEW new \in Cell, D!Allocate(new), D!InsertBefore(e, new)
  PROVE  ListInv'
<1> DEFINE i == D!Place(e)
           n == Len(list)
<1>1. /\ list \in Seq(Cell) /\ next \in Links /\ prev \in Links
      /\ \A j, k \in 1 .. n : list[j] = list[k] => j = k
      /\ live = {list[k] : k \in 1 .. n} /\ Linked(list, head, tail, next, prev) /\ n \in Nat
  BY DEF ListInv
<1>2. i \in 1 .. n /\ list[i] = e
  BY ListIsPlaced
<1>3. list' = D!InsertAt(list, i, new)
  BY DEF D!InsertBefore
<1>4. new \notin live /\ live' = live \cup {new} /\ size' = size + 1
  BY DEF D!Allocate
<1>5. /\ prev' = [prev EXCEPT ![new] = prev[e], ![e] = new]
      /\ next' = [c \in Cell |-> IF c = new THEN e ELSE IF c = prev[e] THEN new ELSE next[c]]
      /\ head' = IF prev[e] = D!NULL THEN new ELSE head
      /\ tail' = tail
  BY DEF D!InsertBefore
<1> HIDE DEF i
<1>6. i \in Nat /\ i \in 1 .. n + 1
  BY <1>1, <1>2
<1>7. /\ list' \in Seq(Cell) /\ Len(list') = n + 1 /\ list'[i] = new
      /\ \A k \in 1 .. n + 1 : k < i => list'[k] = list[k]
      /\ \A k \in 1 .. n + 1 : k > i => list'[k] = list[k - 1]
  <2>1. D!InsertAt(list, i, new) \in Seq(Cell) /\ OneMore(D!InsertAt(list, i, new), list, i, new)
    BY <1>1, <1>6, InsertedIn
  <2>2. list' \in Seq(Cell) /\ OneMore(list', list, i, new)
    BY <1>3, <2>1
  <2> QED
    BY <2>2 DEF OneMore
<1>8. /\ \A j, k \in 1 .. Len(list') : list'[j] = list'[k] => j = k
      /\ size' = Len(list') /\ live' = {list'[k] : k \in 1 .. Len(list')}
      /\ IsFiniteSet(live') /\ Cardinality(live') = size'
  BY <1>4, <1>6, <1>7, ListGrows
<1>9. list # << >> /\ e \in Cell /\ e # new /\ n > 0
  BY <1>1, <1>2, <1>4
<1>10. /\ head = list[1] /\ prev[head] = D!NULL /\ tail = list[n] /\ next[tail] = D!NULL
       /\ \A k \in 1 .. n - 1 : next[list[k]] = list[k + 1] /\ prev[list[k + 1]] = list[k]
  BY <1>1, <1>9 DEF Linked
<1>11. prev[e] = IF i = 1 THEN D!NULL ELSE list[i - 1]
  <2>1. CASE i = 1
    BY <1>2, <1>10, <2>1
  <2>2. CASE i # 1
    <3>1. i - 1 \in 1 .. n - 1 /\ (i - 1) + 1 = i
      BY <1>1, <1>2, <2>2
    <3> QED
      BY <1>2, <1>10, <2>2, <3>1
  <2> QED
    BY <2>1, <2>2
<1>12. \A k \in 1 .. n : list[k] \in Cell /\ list[k] # new /\ list[k] # D!NULL
  BY <1>1, <1>4, Assumptions DEF D!DlistAssumption, D!NULL
<1>13. /\ next' \in Links /\ prev' \in Links /\ prev'[e] = new /\ prev'[new] = prev[e]
       /\ \A c \in Cell \ {e, new} : prev'[c] = prev[c]
  BY <1>1, <1>5, <1>9 DEF Links
<1>14. /\ next'[new] = e
       /\ \A c \in Cell \ {new} : next'[c] = IF c = prev[e] THEN new ELSE next[c]
  BY <1>5
<1>15. tail' = list'[n + 1] /\ next'[tail'] = D!NULL
  <2>1. list'[n + 1] = list[n] /\ n \in 1 .. n
    <3>1. n + 1 \in 1 .. n + 1 /\ n + 1 > i /\ (n + 1) - 1 = n /\ n \in 1 .. n
      BY <1>1, <1>2, <1>9
    <3> QED
      BY <1>7, <3>1
  <2>2. list[n] # prev[e]
    <3>1. CASE i = 1
      BY <1>11, <1>12, <2>1, <3>1
    <3>2. CASE i # 1
      <4>1. i - 1 \in 1 .. n /\ i - 1 # n
        BY <1>1, <1>2, <3>2
      <4> QED
        BY <1>1, <1>11, <2>1, <3>2, <4>1
    <3> QED
      BY <3>1, <3>2
  <2> QED
    BY <1>5, <1>10, <1>12, <1>14, <2>1, <2>2
<1>16. head' = list'[1] /\ prev'[head'] = D!NULL
  <2>1. CASE i = 1
    BY <1>5, <1>7, <1>11, <1>13, <2>1
  <2>2. CASE i # 1
    <3>1. 1 \in 1 .. n /\ 1 \in 1 .. n + 1 /\ 1 < i /\ i - 1 \in 1 .. n
      BY <1>1, <1>2, <2>2
    <3>2. list'[1] = list[1]
      BY <1>7, <3>1
    <3>3. head' = list[1] /\ list[1] # e
      BY <1>1, <1>2, <1>5, <1>10, <1>11, <1>12, <2>2, <3>1
    <3> QED
      BY <1>10, <1>12, <1>13, <3>1, <3>2, <3>3
  <2> QED
    BY <2>1, <2>2
<1>17. ASSUME NEW k \in 1 .. n PROVE next'[list'[k]] = list'[k + 1] /\ prev'[list'[k + 1]] = list'[k]
  <2>0. k \in Nat
    BY <1>1
  <2>1. CASE k < i - 1
    <3>1. /\ k \in 1 .. n - 1 /\ k \in 1 .. n /\ k + 1 \in 1 .. n /\ k < i /\ k + 1 < i
          /\ k \in 1 .. n + 1 /\ k + 1 \in 1 .. n + 1 /\ k + 1 # i /\ i - 1 \in 1 .. n /\ k # i - 1 /\ i # 1
      BY <1>1, <1>2, <1>6, <2>0, <2>1
    <3>2. list'[k] = list[k] /\ list'[k + 1] = list[k + 1]
      BY <1>7, <3>1
    <3>3. list[k] # prev[e] /\ list[k + 1] # e
      BY <1>1, <1>2, <1>11, <3>1
    <3> QED
      BY <1>10, <1>12, <1>13, <1>14, <3>1, <3>2, <3>3
  <2>2. CASE k = i - 1
    <3>1. k \in 1 .. n + 1 /\ k < i /\ k + 1 = i /\ i # 1
      BY <1>1, <1>2, <1>6, <2>2
    <3>2. list'[k] = list[k] /\ list'[k + 1] = new /\ prev[e] = list[k]
      BY <1>7, <1>11, <2>2, <3>1
    <3> QED
      BY <1>12, <1>13, <1>14, <3>2
  <2>3. CASE k = i
    <3>1. k + 1 \in 1 .. n + 1 /\ k + 1 > i /\ (k + 1) - 1 = k
      BY <1>1, <1>2, <1>6, <2>3
    <3>2. list'[k] = new /\ list'[k + 1] = e
      BY <1>2, <1>7, <2>3, <3>1
    <3> QED
      BY <1>13, <1>14, <3>2
  <2>4. CASE k > i
    <3>1. /\ k - 1 \in 1 .. n - 1 /\ k \in 1 .. n + 1 /\ k + 1 \in 1 .. n + 1 /\ k + 1 > i
          /\ (k + 1) - 1 = k /\ (k - 1) + 1 = k /\ k - 1 \in 1 .. n /\ k # i
          /\ k - 1 # i - 1 /\ (i # 1 => i - 1 \in 1 .. n)
      BY <1>1, <1>2, <1>6, <2>0, <2>4
    <3>2. list'[k] = list[k - 1] /\ list'[k + 1] = list[k]
      BY <1>7, <2>4, <3>1
    <3>3. list[k - 1] # prev[e] /\ list[k] # e
      <4>1. CASE i = 1
        BY <1>1, <1>2, <1>11, <1>12, <3>1, <4>1
      <4>2. CASE i # 1
        BY <1>1, <1>2, <1>11, <3>1, <4>2
      <4> QED
        BY <4>1, <4>2
    <3>4. next[list[k - 1]] = list[k] /\ prev[list[k]] = list[k - 1]
      BY <1>10, <3>1
    <3> QED
      BY <1>12, <1>13, <1>14, <3>1, <3>2, <3>3, <3>4
  <2> QED
    BY <1>6, <2>0, <2>1, <2>2, <2>3, <2>4
<1>18. Linked(list, head, tail, next, prev)'
  <2>1. list' # << >> /\ Len(list') - 1 = n
    BY <1>1, <1>7
  <2>2. \A k \in 1 .. Len(list') - 1 : next'[list'[k]] = list'[k + 1] /\ prev'[list'[k + 1]] = list'[k]
    BY <1>17, <2>1
  <2> QED
    BY <1>7, <1>15, <1>16, <2>1, <2>2 DEF Linked
<1> QED
  BY <1>7, <1>8, <1>13, <1>18 DEF ListInv

(* Without e: the cells on both sides of it are next to each other. *)
LEMMA RemoveIsLinked ==
  ASSUME ListInv, NEW e \in live, D!iDListRemove(e)
  PROVE  ListInv'
<1> DEFINE i == D!Place(e)
           n == Len(list)
<1>1. /\ list \in Seq(Cell) /\ next \in Links /\ prev \in Links
      /\ \A j, k \in 1 .. n : list[j] = list[k] => j = k
      /\ live = {list[k] : k \in 1 .. n} /\ Linked(list, head, tail, next, prev) /\ n \in Nat
  BY DEF ListInv
<1>2. i \in 1 .. n /\ list[i] = e
  BY ListIsPlaced
<1>3. list' = D!RemoveAt(list, i) /\ live' = live \ {e} /\ size' = size - 1
  BY DEF D!iDListRemove
<1>4. /\ head' = IF e = head THEN next[e] ELSE head
      /\ tail' = IF next[e] # D!NULL THEN tail ELSE IF e = head THEN D!NULL ELSE prev[e]
      /\ next' = [c \in Cell |-> IF e # head /\ c = prev[e] THEN next[e] ELSE next[c]]
      /\ prev' = [c \in Cell |-> IF c # next[e] THEN prev[c] ELSE IF e = head THEN D!NULL ELSE prev[e]]
  BY DEF D!iDListRemove
<1> HIDE DEF i
<1>6. i \in Nat
  BY <1>1, <1>2
<1>7. /\ list' \in Seq(Cell) /\ Len(list') = n - 1
      /\ \A k \in 1 .. n - 1 : list'[k] = IF k < i THEN list[k] ELSE list[k + 1]
  <2>1. D!RemoveAt(list, i) \in Seq(Cell) /\ LessOne(D!RemoveAt(list, i), list, i)
    BY <1>1, <1>2, RemovedFrom
  <2>2. list' \in Seq(Cell) /\ LessOne(list', list, i)
    BY <1>3, <2>1
  <2> QED
    BY <2>2 DEF LessOne
<1>8. /\ \A j, k \in 1 .. Len(list') : list'[j] = list'[k] => j = k
      /\ size' = Len(list') /\ live' = {list'[k] : k \in 1 .. Len(list')}
      /\ IsFiniteSet(live') /\ Cardinality(live') = size'
  BY <1>2, <1>3, <1>7, ListShrinks
<1>9. list # << >> /\ e \in Cell /\ n > 0
  BY <1>1, <1>2
<1>10. /\ head = list[1] /\ prev[head] = D!NULL /\ tail = list[n] /\ next[tail] = D!NULL
       /\ \A k \in 1 .. n - 1 : next[list[k]] = list[k + 1] /\ prev[list[k + 1]] = list[k]
  BY <1>1, <1>9 DEF Linked
<1>11. \A k \in 1 .. n : list[k] \in Cell /\ list[k] # D!NULL
  BY <1>1, Assumptions DEF D!DlistAssumption, D!NULL
<1>12. next[e] = IF i = n THEN D!NULL ELSE list[i + 1]
  <2>1. CASE i = n
    BY <1>2, <1>10, <2>1
  <2>2. CASE i # n
    <3>1. i \in 1 .. n - 1
      BY <1>1, <1>2, <2>2
    <3> QED
      BY <1>2, <1>10, <2>2, <3>1
  <2> QED
    BY <2>1, <2>2
<1>13. prev[e] = IF i = 1 THEN D!NULL ELSE list[i - 1]
  <2>1. CASE i = 1
    BY <1>2, <1>10, <2>1
  <2>2. CASE i # 1
    <3>1. i - 1 \in 1 .. n - 1 /\ (i - 1) + 1 = i
      BY <1>1, <1>2, <2>2
    <3> QED
      BY <1>2, <1>10, <2>2, <3>1
  <2> QED
    BY <2>1, <2>2
<1>14. 1 \in 1 .. n /\ n \in 1 .. n /\ (e = head <=> i = 1)
  BY <1>1, <1>2, <1>9, <1>10
<1>15. next' \in Links /\ prev' \in Links
  BY <1>1, <1>4, <1>9 DEF Links
<1>16. list' # << >> <=> n > 1
  <2>1. list' # << >> <=> Len(list') # 0
    BY <1>7, EmptySeq
  <2> QED
    BY <1>1, <1>7, <1>9, <2>1
<1>17. CASE n = 1
  <2>1. i = 1 /\ list' = << >> /\ Len(list') = 0
    BY <1>2, <1>7, <1>16, <1>17
  <2>2. next[e] = D!NULL
    BY <1>12, <1>17, <2>1
  <2>3. head' = D!NULL /\ tail' = D!NULL
    BY <1>4, <1>14, <2>1, <2>2
  <2>4. Linked(list, head, tail, next, prev)'
    BY <2>1, <2>3 DEF Linked
  <2> QED
    BY <1>7, <1>8, <1>15, <2>4 DEF ListInv
<1>18. CASE n > 1
  <2>1. list' # << >> /\ Len(list') = n - 1
    BY <1>7, <1>16, <1>18
  <2>2. head' = list'[1]
    <3>1. 1 \in 1 .. n - 1 /\ (1 < i <=> i # 1)
      BY <1>1, <1>2, <1>6, <1>18
    <3> QED
      BY <1>4, <1>7, <1>10, <1>12, <1>14, <1>18, <3>1
  <2>3. tail' = list'[n - 1]
    <3>1. n - 1 \in 1 .. n - 1 /\ (n - 1) + 1 = n
      BY <1>1, <1>18
    <3>2. CASE i = n
      <4>1. n - 1 < i /\ i # 1
        BY <1>1, <1>18, <3>2
      <4> QED
        BY <1>4, <1>7, <1>12, <1>13, <1>14, <3>1, <3>2, <4>1
    <3>3. CASE i # n
      <4>1. ~ n - 1 < i /\ i + 1 \in 1 .. n
        BY <1>1, <1>2, <1>6, <3>3
      <4> QED
        BY <1>4, <1>7, <1>10, <1>11, <1>12, <3>1, <3>3, <4>1
    <3> QED
      BY <3>2, <3>3
  <2>4. prev'[head'] = D!NULL
    <3>1. CASE i = 1
      <4>1. i # n /\ i + 1 \in 1 .. n
        BY <1>18, <1>1, <3>1
      <4>2. head' = next[e] /\ next[e] \in Cell
        BY <1>4, <1>11, <1>12, <1>14, <3>1, <4>1
      <4> QED
        BY <1>4, <1>14, <3>1, <4>2
    <3>2. CASE i # 1
      <4>1. head' = list[1] /\ list[1] \in Cell
        BY <1>4, <1>10, <1>11, <1>14, <3>2
      <4>2. list[1] # next[e]
        <5>1. CASE i = n
          BY <1>11, <1>12, <1>14, <5>1
        <5>2. CASE i # n
          <6>1. i + 1 \in 1 .. n /\ i + 1 # 1
            BY <1>1, <1>2, <5>2
          <6> QED
            BY <1>1, <1>12, <1>14, <5>2, <6>1
        <5> QED
          BY <5>1, <5>2
      <4> QED
        BY <1>4, <1>10, <4>1, <4>2
    <3> QED
      BY <3>1, <3>2
  <2>5. next'[tail'] = D!NULL
    <3>1. CASE i = n
      <4>1. i # 1 /\ i - 1 \in 1 .. n
        BY <1>1, <1>18, <3>1
      <4>2. tail' = prev[e] /\ prev[e] \in Cell /\ e # head
        BY <1>4, <1>11, <1>12, <1>13, <1>14, <3>1, <4>1
      <4> QED
        BY <1>4, <1>12, <3>1, <4>2
    <3>2. CASE i # n
      <4>1. i + 1 \in 1 .. n
        BY <1>1, <1>2, <3>2
      <4>2. tail' = list[n] /\ list[n] \in Cell
        BY <1>4, <1>10, <1>11, <1>12, <1>14, <3>2, <4>1
      <4>3. e # head => list[n] # prev[e]
        <5>1. i # 1 => i - 1 \in 1 .. n /\ i - 1 # n
          BY <1>1, <1>2
        <5> QED
          BY <1>1, <1>13, <1>14, <5>1
      <4> QED
        BY <1>4, <1>10, <4>2, <4>3
    <3> QED
      BY <3>1, <3>2
  <2>6. ASSUME NEW k \in 1 .. n - 2 PROVE next'[list'[k]] = list'[k + 1] /\ prev'[list'[k + 1]] = list'[k]
    <3>0. k \in Nat /\ k \in 1 .. n - 1 /\ k + 1 \in 1 .. n - 1
      BY <1>1
    <3>1. CASE k < i - 1
      <4>1. /\ k < i /\ k + 1 < i /\ k \in 1 .. n /\ k + 1 \in 1 .. n /\ (i # 1 => i - 1 \in 1 .. n) /\ k # i - 1
            /\ (i # n => i + 1 \in 1 .. n) /\ k + 1 # i + 1
        BY <1>1, <1>2, <1>6, <3>0, <3>1
      <4>2. list'[k] = list[k] /\ list'[k + 1] = list[k + 1] /\ list[k] \in Cell /\ list[k + 1] \in Cell
        BY <1>7, <1>11, <3>0, <4>1
      <4>3. list[k] # prev[e]
        BY <1>1, <1>11, <1>13, <4>1
      <4>4. list[k + 1] # next[e]
        BY <1>1, <1>11, <1>12, <4>1
      <4> QED
        BY <1>4, <1>10, <3>0, <4>2, <4>3, <4>4
    <3>2. CASE k = i - 1
      <4>1. k < i /\ ~ k + 1 < i /\ i # 1 /\ i # n /\ i + 1 \in 1 .. n /\ i - 1 \in 1 .. n /\ (k + 1) + 1 = i + 1
        BY <1>1, <1>2, <1>6, <3>0, <3>2
      <4>2. list'[k] = list[i - 1] /\ list'[k + 1] = list[i + 1]
        BY <1>7, <3>0, <3>2, <4>1
      <4>3. list'[k] = prev[e] /\ list'[k + 1] = next[e] /\ prev[e] \in Cell /\ next[e] \in Cell
        BY <1>11, <1>12, <1>13, <4>1, <4>2
      <4> QED
        BY <1>4, <1>14, <4>1, <4>3
    <3>3. CASE k > i - 1
      <4>1. /\ ~ k < i /\ ~ k + 1 < i /\ k + 1 \in 1 .. n /\ (k + 1) + 1 \in 1 .. n /\ (i # 1 => i - 1 \in 1 .. n)
            /\ k + 1 # i - 1 /\ (i # n => i + 1 \in 1 .. n) /\ (k + 1) + 1 # i + 1
        BY <1>1, <1>2, <1>6, <3>0, <3>3
      <4>2. /\ list'[k] = list[k + 1] /\ list'[k + 1] = list[(k + 1) + 1]
            /\ list[k + 1] \in Cell /\ list[(k + 1) + 1] \in Cell
        BY <1>7, <1>11, <3>0, <4>1
      <4>3. list[k + 1] # prev[e]
        BY <1>1, <1>11, <1>13, <4>1
      <4>4. list[(k + 1) + 1] # next[e]
        BY <1>1, <1>11, <1>12, <4>1
      <4> QED
        BY <1>4, <1>10, <3>0, <4>2, <4>3, <4>4
    <3> QED
      BY <1>6, <3>0, <3>1, <3>2, <3>3
  <2>7. \A k \in 1 .. Len(list') - 1 : next'[list'[k]] = list'[k + 1] /\ prev'[list'[k + 1]] = list'[k]
    <3>1. Len(list') - 1 = n - 2
      BY <1>1, <2>1
    <3> QED
      BY <2>6, <3>1
  <2>8. Linked(list, head, tail, next, prev)'
    BY <2>1, <2>2, <2>3, <2>4, <2>5, <2>7 DEF Linked
  <2> QED
    BY <1>7, <1>8, <1>15, <2>8 DEF ListInv
<1>19. n = 1 \/ n > 1
  <2>1. n \in Nat /\ n > 0
    BY <1>1, <1>9
  <2> HIDE DEF n
  <2> QED
    BY <2>1
<1> QED
  BY <1>17, <1>18, <1>19

LEMMA ListStep ==
  ListInv /\ [D!Next]_D!vars => ListInv'
<1> SUFFICES ASSUME ListInv, [D!Next]_D!vars PROVE ListInv'
  OBVIOUS
<1>1. size # 0 => head \in live /\ tail \in live
  <2>1. /\ list \in Seq(Cell) /\ size = Len(list) /\ live = {list[k] : k \in 1 .. Len(list)}
        /\ Linked(list, head, tail, next, prev)
    BY DEF ListInv
  <2>2. size # 0 => list # << >> /\ 1 \in 1 .. Len(list) /\ Len(list) \in 1 .. Len(list)
    BY <2>1
  <2> QED
    BY <2>1, <2>2 DEF Linked
<1>2. size # 0 <=> live # {}
  <2>1. list \in Seq(Cell) /\ size = Len(list) /\ live = {list[k] : k \in 1 .. Len(list)}
    BY DEF ListInv
  <2> QED
    BY <2>1
<1>3. ASSUME NEW e \in live, NEW new \in Cell, D!iDListInsertAfter(e, new) PROVE ListInv'
  BY <1>3, FirstIsLinked, AfterIsLinked DEF D!iDListInsertAfter
<1>4. ASSUME NEW e \in live, NEW new \in Cell, D!iDListInsertBefore(e, new) PROVE ListInv'
  BY <1>4, FirstIsLinked, BeforeIsLinked DEF D!iDListInsertBefore
<1>5. ASSUME NEW new \in Cell, D!iDListAppend(new) PROVE ListInv'
  <2>1. D!InsertAfter(tail, new) => tail \in live
    BY <1>1 DEF D!InsertAfter
  <2> QED
    BY <1>5, <2>1, FirstIsLinked, AfterIsLinked DEF D!iDListAppend
<1>6. ASSUME NEW new \in Cell, D!iDListPrepend(new) PROVE ListInv'
  <2>1. D!InsertBefore(head, new) => head \in live
    BY <1>1 DEF D!InsertBefore
  <2> QED
    BY <1>6, <2>1, FirstIsLinked, BeforeIsLinked DEF D!iDListPrepend
<1>7. ASSUME NEW e \in live, D!iDListRemove(e) PROVE ListInv'
  BY <1>7, RemoveIsLinked
<1>8. CASE D!iDListDestroy
  BY <1>1, <1>7, <1>8 DEF D!iDListDestroy
<1>9. CASE UNCHANGED D!vars
  BY <1>9 DEF D!vars, ListInv, Linked
<1> QED
  BY <1>3, <1>4, <1>5, <1>6, <1>7, <1>8, <1>9 DEF D!Next

(* The list is linked in both directions, as the calls of its functions    *)
(* describe it, whatever the cells that malloc gives, and the cells        *)
(* allocated are those of the list.                                        *)
THEOREM ListIsKept == D!Spec => []D!ListIsLinked
<1>1. D!Init => ListInv
  <2> SUFFICES ASSUME D!Init PROVE ListInv
    OBVIOUS
  <2>1. list = << >> /\ live = {} /\ size = 0 /\ head = D!NULL /\ tail = D!NULL
    BY DEF D!Init
  <2>2. next \in Links /\ prev \in Links
    BY DEF D!Init, Links
  <2>3. Len(list) = 0 /\ list \in Seq(Cell) /\ live = {list[k] : k \in 1 .. Len(list)}
    BY <2>1
  <2>4. IsFiniteSet(live) /\ Cardinality(live) = 0
    BY <2>1, FS_EmptySet
  <2> QED
    BY <2>1, <2>2, <2>3, <2>4 DEF ListInv, Linked
<1>2. ListInv => D!ListIsLinked
  <2> SUFFICES ASSUME ListInv PROVE D!ListIsLinked
    OBVIOUS
  <2>1. D!Last(list) = list[Len(list)]
    BY DEF D!Last
  <2> QED
    <3>1. size = Len(list) /\ live = {list[k] : k \in 1 .. Len(list)} /\ Cardinality(live) = size
      BY DEF ListInv
    <3>2. Linked(list, head, tail, next, prev)
      BY DEF ListInv
    <3>3. list = << >> => head = D!NULL /\ tail = D!NULL
      BY <3>2 DEF Linked
    <3>4. list # << >> => head = list[1] /\ prev[head] = D!NULL /\ tail = D!Last(list) /\ next[tail] = D!NULL
      BY <2>1, <3>2 DEF Linked
    <3>5. \A k \in 1 .. Len(list) - 1 : next[list[k]] = list[k + 1] /\ prev[list[k + 1]] = list[k]
      BY <3>2 DEF Linked
    <3> QED
      BY <3>1, <3>3, <3>4, <3>5, Zenon DEF D!ListIsLinked, D!Cardinality, Cardinality
<1> QED
  BY <1>1, <1>2, ListStep, PTL DEF D!Spec

-----------------------------------------------------------------------------
(* The vector (Vector, src/vector.c).                                      *)

LEMMA SameCardinality == \A A : V!Cardinality(A) = Cardinality(A)
  BY Zenon DEF V!Cardinality, Cardinality

(* How often an element is in a sequence that has it once at most. *)
LEMMA CountedOnce ==
  ASSUME NEW s, NEW e, \A j, k \in DOMAIN s : s[j] = e /\ s[k] = e => j = k
  PROVE  V!Cardinality({k \in DOMAIN s : s[k] = e}) = IF \E k \in DOMAIN s : s[k] = e THEN 1 ELSE 0
<1> DEFINE there == {k \in DOMAIN s : s[k] = e}
<1>1. CASE \E k \in DOMAIN s : s[k] = e
  <2>1. PICK k \in DOMAIN s : s[k] = e
    BY <1>1
  <2>2. there = {k}
    BY <2>1
  <2>3. Cardinality(there) = 1
    BY <2>2, FS_Singleton
  <2> QED
    BY <1>1, <2>3, SameCardinality
<1>2. CASE ~ \E k \in DOMAIN s : s[k] = e
  <2>1. there = {}
    BY <1>2
  <2>2. Cardinality(there) = 0
    BY <2>1, FS_EmptySet
  <2> QED
    BY <1>2, <2>2, SameCardinality
<1> QED
  BY <1>1, <1>2

(* The elements of a set one after the other, each once. *)
LEMMA SetIsListed ==
  ASSUME NEW A, IsFiniteSet(A)
  PROVE  LET s == V!SetToSeq(A) IN
         /\ \A j, k \in DOMAIN s : s[j] = s[k] => j = k
         /\ A = {s[k] : k \in DOMAIN s}
<1> DEFINE s == V!SetToSeq(A)
           n == Cardinality(A)
<1>1. n \in Nat /\ ExistsBijection(1 .. n, A)
  BY FS_CardinalityType
<1>2. V!Cardinality(A) = n
  BY SameCardinality
<1>3. \A f : V!IsInjective(f) <=> \A j, k \in DOMAIN f : f[j] = f[k] => j = k
  BY DEF V!IsInjective
<1>4. \E f \in [1 .. n -> A] : V!IsInjective(f)
  <2>1. PICK f : f \in Bijection(1 .. n, A)
    BY <1>1 DEF ExistsBijection
  <2> QED
    BY <1>3, <2>1 DEF Bijection, Injection, IsInjective
<1>5. s \in [1 .. n -> A] /\ V!IsInjective(s)
  BY <1>2, <1>4 DEF V!SetToSeq
<1> HIDE DEF s, n
<1>6. s \in Injection(1 .. n, A)
  BY <1>3, <1>5 DEF Injection, IsInjective
<1>7. s \in Surjection(1 .. n, A)
  <2>1. Cardinality(1 .. n) = n
    BY <1>1, FS_Interval
  <2> QED
    BY <1>6, <2>1, FS_Injection DEF n
<1>8. A = {s[k] : k \in DOMAIN s}
  BY <1>5, <1>7 DEF Surjection
<1> QED
  BY <1>3, <1>5, <1>8 DEF s

-----------------------------------------------------------------------------
Stored == Element \cup {V!NULL, V!Junk}

(* The block holds the list. *)
BlockInv ==
  /\ data \in Seq(Stored) /\ Len(data) = alloc
  /\ items \in Seq(Element \cup {V!NULL}) /\ length = Len(items) /\ length <= alloc
  /\ \A k \in 1 .. length : data[k] = items[k]

(* The element e is in s. *)
In(e, s) == \E k \in 1 .. Len(s) : s[k] = e

(* What the vector was given is in it, or was freed. *)
OwnedInv ==
  /\ given \subseteq Element /\ freed \in [Element -> Nat]
  /\ \A e \in Element : In(e, items) => e \in given
  /\ ~ twice => \A j, k \in 1 .. Len(items) : items[j] = items[k] /\ items[j] \in Element => j = k
  /\ \A e \in Element : freed[e] = IF e \in given /\ ~ In(e, items) THEN 1 ELSE 0

LEMMA RoundedUp ==
  ASSUME NEW n \in Nat
  PROVE  V!RoundUp(n) \in Nat /\ n <= V!RoundUp(n)
<1>1. Growth \in Nat /\ Growth > 0
  BY Assumptions DEF V!VectorAssumption
<1> DEFINE q == (n + Growth - 1) \div Growth
<1>2. q \in Nat /\ n + Growth - 1 < q * Growth + Growth
  BY <1>1
<1> HIDE DEF q
<1>3. q * Growth \in Nat
  BY <1>1, <1>2
<1>4. n <= q * Growth
  BY <1>1, <1>2, <1>3
<1> QED
  BY <1>3, <1>4 DEF q, V!RoundUp

LEMMA BlockResized ==
  ASSUME BlockInv, NEW n \in Nat
  PROVE  LET u == V!Resized(n) IN
         /\ u \in Seq(Stored) /\ Len(u) = V!RoundUp(n) /\ n <= V!RoundUp(n)
         /\ \A k \in 1 .. n : u[k] = IF k <= length THEN items[k] ELSE V!NULL
<1> DEFINE m == V!RoundUp(n)
           block == IF m = alloc THEN data ELSE V!Realloc(data, m)
           u == [k \in DOMAIN block |-> IF k \in length + 1 .. n THEN V!NULL ELSE block[k]]
<1>1. m \in Nat /\ n <= m
  BY RoundedUp
<1> HIDE DEF m
<1>2. /\ data \in Seq(Stored) /\ Len(data) = alloc /\ length \in Nat /\ length <= alloc /\ alloc \in Nat
      /\ \A k \in 1 .. length : data[k] = items[k]
  BY DEF BlockInv
<1>3. /\ DOMAIN block = 1 .. m /\ \A k \in 1 .. m : block[k] \in Stored
      /\ \A k \in 1 .. m : k <= length => block[k] = items[k]
  <2>1. CASE m = alloc
    BY <1>2, <2>1
  <2>2. CASE m # alloc
    <3>1. block = [k \in 1 .. m |-> IF k <= Len(data) THEN data[k] ELSE V!Junk]
      BY <2>2 DEF V!Realloc
    <3>2. ASSUME NEW k \in 1 .. m PROVE block[k] \in Stored /\ (k <= length => block[k] = items[k])
      <4>1. CASE k <= alloc
        <5>1. k \in 1 .. Len(data) /\ block[k] = data[k]
          BY <1>1, <1>2, <3>1, <4>1
        <5>2. k <= length => k \in 1 .. length
          BY <1>1
        <5> QED
          BY <1>2, <5>1, <5>2
      <4>2. CASE ~ k <= alloc
        <5>1. block[k] = V!Junk /\ ~ k <= length
          BY <1>1, <1>2, <3>1, <4>2
        <5> QED
          BY <5>1 DEF Stored
      <4> QED
        BY <4>1, <4>2
    <3> QED
      BY <3>1, <3>2
  <2> QED
    BY <2>1, <2>2
<1> HIDE DEF block
<1>4. V!NULL \in Stored
  BY DEF Stored
<1>5. u \in [1 .. m -> Stored]
  BY <1>3, <1>4
<1>6. u \in Seq(Stored) /\ Len(u) = m
  BY <1>1, <1>5
<1>7. ASSUME NEW k \in 1 .. n PROVE u[k] = IF k <= length THEN items[k] ELSE V!NULL
  <2>1. k \in 1 .. m /\ (k <= length <=> ~ k \in length + 1 .. n)
    BY <1>1, <1>2
  <2> QED
    BY <1>3, <2>1
<1> QED
  BY <1>1, <1>6, <1>7 DEF V!Resized, m, block

(* The elements that leave the list are those of s, which are freed. *)
LEMMA FreedOnce ==
  ASSUME OwnedInv, NEW s, V!Free(s), given' = given,
         \A e \in Element : \A j, k \in DOMAIN s : s[j] = e /\ s[k] = e => j = k,
         \A e \in Element : (\E k \in DOMAIN s : s[k] = e) <=> In(e, items) /\ ~ In(e, items'),
         \A e \in Element : In(e, items') => In(e, items),
         ~ twice' => \A j, k \in 1 .. Len(items') : items'[j] = items'[k] /\ items'[j] \in Element => j = k
  PROVE  OwnedInv'
<1>1. /\ given \subseteq Element /\ freed \in [Element -> Nat]
      /\ \A e \in Element : In(e, items) => e \in given
      /\ \A e \in Element : freed[e] = IF e \in given /\ ~ In(e, items) THEN 1 ELSE 0
  BY DEF OwnedInv
<1> DEFINE count(e) == V!Cardinality({k \in DOMAIN s : s[k] = e})
<1>2. freed' = [e \in Element |-> freed[e] + count(e)]
  BY DEF V!Free
<1>3. ASSUME NEW e \in Element
      PROVE  count(e) = IF In(e, items) /\ ~ In(e, items') THEN 1 ELSE 0
  <2>1. count(e) = IF \E k \in DOMAIN s : s[k] = e THEN 1 ELSE 0
    BY CountedOnce
  <2> HIDE DEF count
  <2> QED
    BY <2>1
<1> HIDE DEF count
<1>4. freed' \in [Element -> Nat]
  BY <1>1, <1>2, <1>3
<1>5. ASSUME NEW e \in Element
      PROVE  freed'[e] = IF e \in given' /\ ~ In(e, items') THEN 1 ELSE 0
  <2>1. freed'[e] = freed[e] + count(e)
    BY <1>2
  <2>2. CASE In(e, items) /\ ~ In(e, items')
    BY <1>1, <1>3, <2>1, <2>2
  <2>3. CASE ~ (In(e, items) /\ ~ In(e, items'))
    BY <1>1, <1>3, <2>1, <2>3
  <2> QED
    BY <2>2, <2>3
<1>6. \A e \in Element : In(e, items)' <=> In(e, items')
  BY DEF In
<1>7. /\ given' \subseteq Element
      /\ \A e \in Element : In(e, items') => e \in given'
  BY <1>1
<1> QED
  BY <1>4, <1>5, <1>6, <1>7 DEF OwnedInv

LEMMA ResizeKept ==
  ASSUME BlockInv, OwnedInv, ~ twice, NEW n \in 1 .. MaxSize, V!iVectorResize(n)
  PROVE  BlockInv' /\ OwnedInv'
<1>1. /\ n \in Nat /\ n # length /\ UNCHANGED <<given, twice>>
      /\ data' = V!Resized(n) /\ length' = n /\ alloc' = V!RoundUp(n)
      /\ V!Free(SubSeq(data, n + 1, length))
      /\ items' = [k \in 1 .. n |-> IF k <= Len(items) THEN items[k] ELSE V!NULL]
  BY Assumptions DEF V!iVectorResize, V!VectorAssumption
<1>2. /\ data \in Seq(Stored) /\ length \in Nat /\ length <= Len(data) /\ Len(items) = length
      /\ items \in Seq(Element \cup {V!NULL})
      /\ \A k \in 1 .. length : data[k] = items[k]
  BY DEF BlockInv
<1>3. /\ items' \in Seq(Element \cup {V!NULL}) /\ Len(items') = n
      /\ \A k \in 1 .. n : items'[k] = IF k <= length THEN items[k] ELSE V!NULL
  <2>1. items' \in [1 .. n -> Element \cup {V!NULL}]
    BY <1>1, <1>2
  <2> QED
    BY <1>1, <1>2, <2>1
<1>4. BlockInv'
  BY <1>1, <1>3, BlockResized DEF BlockInv
<1>5. V!NULL \notin Element
  BY Assumptions DEF V!VectorAssumption, V!NULL
<1>6. \A j, k \in 1 .. length : items[j] = items[k] /\ items[j] \in Element => j = k
  BY <1>2 DEF OwnedInv
<1>7. \A j, k \in 1 .. Len(items') : items'[j] = items'[k] /\ items'[j] \in Element => j = k
  BY <1>1, <1>2, <1>3, <1>5, <1>6
<1>8. CASE n < length
  <2> DEFINE s == SubSeq(data, n + 1, length)
  <2>1. /\ DOMAIN s = 1 .. length - n
        /\ \A k \in 1 .. length - n : s[k] = items[k + n] /\ k + n \in 1 .. length
    <3>1. Len(s) = length - n /\ s \in Seq(Stored) /\ \A k \in 1 .. length - n : s[k] = data[k + n]
      BY <1>1, <1>2, <1>8
    <3> HIDE DEF s
    <3>2. \A k \in 1 .. length - n : k + n \in 1 .. length
      BY <1>1, <1>2, <1>8
    <3> QED
      BY <1>2, <3>1, <3>2
  <2>2. V!Free(s)
    BY <1>1
  <2> HIDE DEF s
  <2>3. ASSUME NEW e \in Element, NEW j \in DOMAIN s, NEW k \in DOMAIN s, s[j] = e, s[k] = e
        PROVE  j = k
    <3>1. j + n = k + n
      BY <1>6, <2>1, <2>3
    <3> QED
      BY <1>1, <1>2, <2>1, <3>1
  <2>4. ASSUME NEW e \in Element
        PROVE  (\E k \in DOMAIN s : s[k] = e) <=> In(e, items) /\ ~ In(e, items')
    <3>1. ASSUME NEW k \in DOMAIN s, s[k] = e PROVE In(e, items) /\ ~ In(e, items')
      <4>1. In(e, items)
        BY <1>2, <2>1, <3>1 DEF In
      <4>2. ASSUME NEW j \in 1 .. n, items'[j] = e PROVE FALSE
        <5>1. j \in 1 .. length /\ items[j] = e
          BY <1>1, <1>2, <1>3, <1>8, <4>2
        <5>2. j = k + n
          BY <1>6, <2>1, <3>1, <5>1
        <5> QED
          BY <1>1, <1>2, <2>1, <5>2
      <4> QED
        BY <1>3, <4>1, <4>2 DEF In
    <3>2. ASSUME In(e, items), ~ In(e, items') PROVE \E k \in DOMAIN s : s[k] = e
      <4>1. PICK k \in 1 .. length : items[k] = e
        BY <1>2, <3>2 DEF In
      <4>2. ~ k <= n
        <5>1. SUFFICES ASSUME k <= n PROVE FALSE
          OBVIOUS
        <5>2. k \in 1 .. n /\ items'[k] = e
          BY <1>1, <1>2, <1>3, <4>1, <5>1
        <5> QED
          BY <1>3, <3>2, <5>2 DEF In
      <4>3. k - n \in 1 .. length - n /\ (k - n) + n = k
        BY <1>1, <1>2, <4>1, <4>2
      <4> QED
        BY <2>1, <4>1, <4>3
    <3> QED
      BY <3>1, <3>2
  <2>5. ASSUME NEW e \in Element, In(e, items') PROVE In(e, items)
    BY <1>1, <1>2, <1>3, <1>8, <2>5 DEF In
  <2>6. OwnedInv'
    BY <1>1, <1>7, <2>2, <2>3, <2>4, <2>5, FreedOnce
  <2> QED
    BY <1>4, <2>6
<1>9. CASE n > length
  <2> DEFINE s == SubSeq(data, n + 1, length)
  <2>1. DOMAIN s = {}
    <3>1. length < n + 1
      BY <1>1, <1>2, <1>9
    <3>2. Len(s) = 0 /\ s \in Seq(Stored)
      BY <1>1, <1>2, <3>1
    <3> QED
      BY <3>2
  <2>2. V!Free(s)
    BY <1>1
  <2> HIDE DEF s
  <2>3. ASSUME NEW e \in Element PROVE In(e, items') <=> In(e, items)
    <3>1. ASSUME In(e, items') PROVE In(e, items)
      <4>1. PICK k \in 1 .. n : items'[k] = e
        BY <1>3, <3>1 DEF In
      <4>2. k \in 1 .. length /\ items[k] = e
        BY <1>1, <1>2, <1>3, <1>5, <4>1
      <4> QED
        BY <1>2, <4>2 DEF In
    <3>2. ASSUME In(e, items) PROVE In(e, items')
      <4>1. PICK k \in 1 .. length : items[k] = e
        BY <1>2, <3>2 DEF In
      <4>2. k \in 1 .. n /\ items'[k] = e
        BY <1>1, <1>2, <1>3, <1>9, <4>1
      <4> QED
        BY <1>3, <4>2 DEF In
    <3> QED
      BY <3>1, <3>2
  <2>4. OwnedInv'
    BY <1>1, <1>7, <2>1, <2>2, <2>3, FreedOnce
  <2> QED
    BY <1>4, <2>4
<1> QED
  BY <1>1, <1>2, <1>8, <1>9

LEMMA AppendKept ==
  ASSUME BlockInv, OwnedInv, NEW e \in Element, V!Fresh(e) \/ (twice /\ freed[e] = 0), V!iVectorAppend(e)
  PROVE  BlockInv' /\ OwnedInv'
<1>1. /\ data' = [V!Resized(length + 1) EXCEPT ![length + 1] = e]
      /\ length' = length + 1 /\ alloc' = V!RoundUp(length + 1)
      /\ items' = Append(items, e) /\ given' = given \cup {e} /\ UNCHANGED <<freed, twice>>
  BY DEF V!iVectorAppend
<1>2. /\ length \in Nat /\ Len(items) = length /\ items \in Seq(Element \cup {V!NULL})
      /\ \A k \in 1 .. length : data[k] = items[k]
  BY DEF BlockInv
<1>3. /\ items' \in Seq(Element \cup {V!NULL}) /\ Len(items') = length + 1 /\ items'[length + 1] = e
      /\ \A k \in 1 .. length : items'[k] = items[k]
  BY <1>1, <1>2
<1>4. BlockInv'
  <2> DEFINE u == V!Resized(length + 1)
             n == length + 1
  <2>1. n \in Nat /\ n \in 1 .. n
    BY <1>2
  <2> HIDE DEF n
  <2>2. /\ V!Resized(n) \in Seq(Stored) /\ Len(V!Resized(n)) = V!RoundUp(n) /\ n <= V!RoundUp(n)
        /\ \A k \in 1 .. n : V!Resized(n)[k] = IF k <= length THEN items[k] ELSE V!NULL
    BY <2>1, BlockResized
  <2>3. u \in Seq(Stored) /\ Len(u) = alloc' /\ n <= alloc' /\ \A k \in 1 .. length : u[k] = items[k]
    BY <1>1, <1>2, <2>2 DEF n
  <2> HIDE DEF u
  <2>4. e \in Stored /\ n \in 1 .. Len(u)
    BY <2>1, <2>3 DEF Stored
  <2>5. data' = [u EXCEPT ![n] = e]
    BY <1>1 DEF u, n
  <2>6. data' \in Seq(Stored) /\ Len(data') = Len(u) /\ data'[n] = e /\ \A k \in 1 .. length : data'[k] = u[k]
    <3>1. \A k \in 1 .. length : k # n /\ k \in 1 .. Len(u)
      BY <1>2, <2>1, <2>3 DEF n
    <3> QED
      BY <2>3, <2>4, <2>5, <3>1
  <2>7. \A k \in 1 .. n : data'[k] = items'[k]
    <3>1. \A k \in 1 .. n : k = n \/ k \in 1 .. length
      BY <1>2 DEF n
    <3> QED
      BY <1>3, <2>3, <2>6, <3>1 DEF n
  <2> QED
    BY <1>1, <1>3, <2>3, <2>6, <2>7 DEF BlockInv, n
<1>5. ASSUME NEW x PROVE In(x, items') <=> In(x, items) \/ x = e
  <2>1. \A k \in 1 .. length + 1 : k \in 1 .. length \/ k = length + 1
    BY <1>2
  <2>2. length + 1 \in 1 .. length + 1 /\ \A k \in 1 .. length : k \in 1 .. length + 1
    BY <1>2
  <2> QED
    BY <1>2, <1>3, <2>1, <2>2 DEF In
<1>6. /\ given \subseteq Element /\ freed \in [Element -> Nat] /\ freed[e] = 0
      /\ \A x \in Element : In(x, items) => x \in given
      /\ \A x \in Element : freed[x] = IF x \in given /\ ~ In(x, items) THEN 1 ELSE 0
  BY DEF OwnedInv, V!Fresh
<1>7. ASSUME ~ twice, NEW j \in 1 .. length + 1, NEW k \in 1 .. length + 1, items'[j] = items'[k], items'[j] \in Element
      PROVE  j = k
  <2>1. ~ In(e, items) /\ \A a, b \in 1 .. length : items[a] = items[b] /\ items[a] \in Element => a = b
    BY <1>2, <1>6, <1>7 DEF OwnedInv, V!Fresh
  <2>2. j \in 1 .. length \/ j = length + 1
    BY <1>2
  <2>3. k \in 1 .. length \/ k = length + 1
    BY <1>2
  <2> QED
    BY <1>2, <1>3, <1>7, <2>1, <2>2, <2>3 DEF In
<1>8. \A x : In(x, items)' <=> In(x, items')
  BY DEF In
<1>9. \A x \in Element : freed'[x] = IF x \in given' /\ ~ In(x, items') THEN 1 ELSE 0
  BY <1>1, <1>5, <1>6
<1>10. /\ given' \subseteq Element /\ freed' \in [Element -> Nat]
       /\ \A x \in Element : In(x, items') => x \in given'
       /\ ~ twice' => \A j, k \in 1 .. Len(items') : items'[j] = items'[k] /\ items'[j] \in Element => j = k
  BY <1>1, <1>3, <1>5, <1>6, <1>7
<1> QED
  BY <1>4, <1>8, <1>9, <1>10 DEF OwnedInv

LEMMA RemoveKept ==
  ASSUME BlockInv, OwnedInv, ~ twice, NEW i \in 1 .. length, V!iVectorRemove(i), ~ torn'
  PROVE  BlockInv' /\ OwnedInv'
<1> DEFINE m == length - 1
<1>0. PICK from \in V!Sources(i) :
        \/ alloc' = m /\ data' = V!Realloc(V!Moved(from), m)
        \/ data' = V!Moved(from) /\ alloc' = alloc
  BY DEF V!iVectorRemove
<1>1. /\ V!Free(<<data[i]>>) /\ length' = m /\ UNCHANGED <<given, twice>>
      /\ items' = V!RemoveAt(items, i) /\ ~ V!Overlaps(i)
  BY DEF V!iVectorRemove
<1>2. /\ data \in Seq(Stored) /\ length \in Nat /\ length <= Len(data) /\ Len(items) = length
      /\ items \in Seq(Element \cup {V!NULL}) /\ Len(data) = alloc /\ alloc \in Nat
      /\ \A k \in 1 .. length : data[k] = items[k]
  BY DEF BlockInv
<1>3. i \in Nat /\ m \in Nat /\ m + 1 = length /\ m < length /\ 1 <= i /\ i <= length
  BY <1>2
<1> HIDE DEF m
<1>4. /\ items' \in Seq(Element \cup {V!NULL}) /\ Len(items') = m
      /\ \A k \in 1 .. m : items'[k] = IF k < i THEN items[k] ELSE items[k + 1]
  <2>1. D!RemoveAt(items, i) \in Seq(Element \cup {V!NULL}) /\ LessOne(D!RemoveAt(items, i), items, i)
    BY <1>2, RemovedFrom
  <2>2. V!RemoveAt(items, i) = D!RemoveAt(items, i)
    BY DEF V!RemoveAt, D!RemoveAt
  <2>3. items' \in Seq(Element \cup {V!NULL}) /\ LessOne(items', items, i)
    BY <1>1, <2>1, <2>2
  <2>4. Len(items) - 1 = m
    BY <1>2, <1>3
  <2> QED
    BY <2>3, <2>4 DEF LessOne
<1>5. BlockInv'
  <2> DEFINE u == V!Moved(from)
  <2>0. DOMAIN from = i .. length - 1 /\ \A k \in i .. length - 1 : from[k] = k + 1
    BY <1>0, <1>1 DEF V!Sources
  <2>1. /\ u \in Seq(Stored) /\ Len(u) = alloc
        /\ \A k \in 1 .. m : u[k] = items'[k]
    <3>1. u = [k \in 1 .. alloc |-> IF k \in i .. length - 1 THEN data[k + 1] ELSE data[k]]
      BY <1>2, <2>0 DEF V!Moved
    <3> HIDE DEF u
    <3>2. ASSUME NEW k \in 1 .. alloc
          PROVE  u[k] \in Stored
      <4>1. k \in i .. length - 1 => k + 1 \in 1 .. Len(data)
        BY <1>2, <1>3
      <4> QED
        BY <1>2, <3>1, <4>1
    <3>3. u \in [1 .. alloc -> Stored]
      BY <3>1, <3>2
    <3>4. ASSUME NEW k \in 1 .. m PROVE u[k] = items'[k]
      <4>1. /\ k \in 1 .. alloc /\ k \in 1 .. length /\ k + 1 \in 1 .. length
            /\ (k \in i .. length - 1 <=> ~ k < i)
        BY <1>2, <1>3
      <4>2. u[k] = IF k < i THEN data[k] ELSE data[k + 1]
        BY <3>1, <4>1
      <4> QED
        BY <1>2, <1>4, <4>1, <4>2
    <3> QED
      BY <1>2, <3>3, <3>4
  <2> HIDE DEF u
  <2>2. m <= alloc
    BY <1>2, <1>3
  <2>3. CASE alloc' = m /\ data' = V!Realloc(u, m)
    <3>1. data' = [k \in 1 .. m |-> IF k <= Len(u) THEN u[k] ELSE V!Junk]
      BY <2>3 DEF V!Realloc
    <3>2. \A k \in 1 .. m : k <= Len(u) /\ k \in 1 .. Len(u)
      BY <1>2, <1>3, <2>1, <2>2
    <3>3. data' \in [1 .. m -> Stored] /\ \A k \in 1 .. m : data'[k] = u[k]
      BY <2>1, <3>1, <3>2
    <3>4. data' \in Seq(Stored) /\ Len(data') = m /\ \A k \in 1 .. m : data'[k] = items'[k] /\ m <= m
      BY <1>3, <2>1, <3>3
    <3> QED
      BY <1>1, <1>3, <1>4, <2>3, <3>4 DEF BlockInv
  <2>4. CASE data' = u /\ alloc' = alloc
    BY <1>1, <1>4, <2>1, <2>2, <2>4 DEF BlockInv
  <2> QED
    BY <1>0, <2>3, <2>4 DEF u
<1>6. \A j, k \in 1 .. length : items[j] = items[k] /\ items[j] \in Element => j = k
  BY <1>2 DEF OwnedInv
<1>7. ASSUME NEW k \in 1 .. m
      PROVE  /\ k \in Nat /\ k \in 1 .. length /\ k + 1 \in 1 .. length
             /\ items'[k] = (IF k < i THEN items[k] ELSE items[k + 1])
  BY <1>3, <1>4
<1>8. ASSUME NEW j \in 1 .. Len(items'), NEW k \in 1 .. Len(items'), items'[j] = items'[k], items'[j] \in Element
      PROVE  j = k
  <2>0. j \in 1 .. m /\ k \in 1 .. m
    BY <1>4
  <2>1. CASE j < i /\ k < i
    BY <1>6, <1>7, <1>8, <2>0, <2>1
  <2>2. CASE ~ j < i /\ ~ k < i
    <3>1. j + 1 = k + 1
      BY <1>6, <1>7, <1>8, <2>0, <2>2
    <3> QED
      BY <1>7, <2>0, <3>1
  <2>3. CASE j < i /\ ~ k < i
    <3>1. j = k + 1
      BY <1>6, <1>7, <1>8, <2>0, <2>3
    <3> QED
      BY <1>3, <1>7, <2>0, <2>3, <3>1
  <2>4. CASE ~ j < i /\ k < i
    <3>1. j + 1 = k
      BY <1>6, <1>7, <1>8, <2>0, <2>4
    <3> QED
      BY <1>3, <1>7, <2>0, <2>4, <3>1
  <2> QED
    BY <2>1, <2>2, <2>3, <2>4
<1>9. ASSUME NEW e \in Element PROVE In(e, items') <=> In(e, items) /\ e # items[i]
  <2>1. ASSUME NEW k \in 1 .. m, items'[k] = e PROVE In(e, items) /\ e # items[i]
    <3>1. CASE k < i
      <4>1. items[k] = e /\ k # i
        BY <1>3, <1>7, <2>1, <3>1
      <4> QED
        BY <1>2, <1>6, <1>7, <4>1 DEF In
    <3>2. CASE ~ k < i
      <4>1. items[k + 1] = e /\ k + 1 # i
        BY <1>3, <1>7, <2>1, <3>2
      <4> QED
        BY <1>2, <1>6, <1>7, <4>1 DEF In
    <3> QED
      BY <3>1, <3>2
  <2>2. ASSUME NEW k \in 1 .. length, items[k] = e, e # items[i] PROVE In(e, items')
    <3>1. CASE k < i
      <4>1. k \in 1 .. m /\ items'[k] = e
        BY <1>3, <1>7, <2>2, <3>1
      <4> QED
        BY <1>4, <4>1 DEF In
    <3>2. CASE k > i
      <4>1. k - 1 \in 1 .. m /\ ~ k - 1 < i /\ (k - 1) + 1 = k
        BY <1>2, <1>3, <3>2
      <4>2. items'[k - 1] = e
        BY <1>7, <2>2, <4>1
      <4> QED
        BY <1>4, <4>1, <4>2 DEF In
    <3> QED
      BY <1>2, <1>3, <2>2, <3>1, <3>2
  <2> QED
    BY <1>2, <1>4, <2>1, <2>2 DEF In
<1>10. OwnedInv'
  <2> DEFINE s == <<data[i]>>
  <2>1. DOMAIN s = {1} /\ s[1] = items[i] /\ i \in 1 .. Len(items)
    BY <1>2
  <2>2. V!Free(s)
    BY <1>1
  <2> HIDE DEF s
  <2>3. \A e \in Element : (\E k \in DOMAIN s : s[k] = e) <=> In(e, items) /\ ~ In(e, items')
    BY <1>9, <2>1 DEF In
  <2>4. \A e \in Element : \A j, k \in DOMAIN s : s[j] = e /\ s[k] = e => j = k
    BY <2>1
  <2> QED
    BY <1>1, <1>8, <1>9, <2>2, <2>3, <2>4, FreedOnce
<1> QED
  BY <1>5, <1>10

LEMMA ReplaceKept ==
  ASSUME BlockInv, OwnedInv, ~ twice, NEW i \in 1 .. MaxSize, NEW e \in Element, V!Fresh(e),
         V!iVectorReplace(i, e)
  PROVE  BlockInv' /\ OwnedInv'
<1>1. /\ i \in 1 .. length /\ data' = [data EXCEPT ![i] = e]
      /\ items' = [items EXCEPT ![i] = e] /\ given' = (given \cup {e}) \ {data[i]}
      /\ UNCHANGED <<length, alloc, freed, twice>>
  BY DEF V!iVectorReplace
<1>2. /\ data \in Seq(Stored) /\ length \in Nat /\ length <= Len(data) /\ Len(items) = length
      /\ items \in Seq(Element \cup {V!NULL}) /\ Len(data) = alloc
      /\ \A k \in 1 .. length : data[k] = items[k]
  BY DEF BlockInv
<1>3. e \in Stored /\ i \in 1 .. Len(data) /\ \A k \in 1 .. length : k \in 1 .. Len(data)
  BY <1>1, <1>2 DEF Stored
<1>4. data' \in Seq(Stored) /\ Len(data') = Len(data) /\ \A k \in 1 .. length : data'[k] = IF k = i THEN e ELSE data[k]
  BY <1>1, <1>2, <1>3
<1>5. /\ items' \in Seq(Element \cup {V!NULL}) /\ Len(items') = length
      /\ \A k \in 1 .. length : items'[k] = IF k = i THEN e ELSE items[k]
  BY <1>1, <1>2
<1>6. BlockInv'
  BY <1>1, <1>2, <1>4, <1>5 DEF BlockInv
<1>7. /\ given \subseteq Element /\ freed \in [Element -> Nat] /\ freed[e] = 0 /\ e \notin given /\ ~ In(e, items)
      /\ \A x \in Element : In(x, items) => x \in given
      /\ \A j, k \in 1 .. length : items[j] = items[k] /\ items[j] \in Element => j = k
      /\ \A x \in Element : freed[x] = IF x \in given /\ ~ In(x, items) THEN 1 ELSE 0
  BY <1>2 DEF OwnedInv, V!Fresh
<1>8. ASSUME NEW x \in Element PROVE In(x, items') <=> x = e \/ (In(x, items) /\ x # items[i])
  <2>1. ASSUME NEW k \in 1 .. length, items'[k] = x PROVE x = e \/ (In(x, items) /\ x # items[i])
    BY <1>1, <1>2, <1>5, <1>7, <2>1 DEF In
  <2>2. ASSUME NEW k \in 1 .. length, items[k] = x, x # items[i] PROVE In(x, items')
    BY <1>5, <2>2 DEF In
  <2>3. In(e, items')
    BY <1>1, <1>5 DEF In
  <2> QED
    BY <1>2, <1>5, <2>1, <2>2, <2>3 DEF In
<1>9. ASSUME NEW j \in 1 .. length, NEW k \in 1 .. length, items'[j] = items'[k], items'[j] \in Element
      PROVE  j = k
  <2>1. \A a \in 1 .. length : items[a] # e
    BY <1>2, <1>7 DEF In
  <2> QED
    BY <1>5, <1>7, <1>9, <2>1
<1>10. data[i] = items[i] /\ items[i] # e /\ In(items[i], items)
  BY <1>1, <1>2, <1>7 DEF In
<1>11. \A x \in Element : freed'[x] = IF x \in given' /\ ~ In(x, items') THEN 1 ELSE 0
  BY <1>1, <1>7, <1>8, <1>10
<1>12. /\ given' \subseteq Element /\ freed' \in [Element -> Nat]
       /\ \A x \in Element : In(x, items') => x \in given'
       /\ \A j, k \in 1 .. Len(items') : items'[j] = items'[k] /\ items'[j] \in Element => j = k
  <2>1. given' \subseteq Element /\ freed' \in [Element -> Nat]
    BY <1>1, <1>7
  <2>2. \A x \in Element : In(x, items') => x \in given'
    BY <1>1, <1>7, <1>8, <1>10
  <2>3. \A j, k \in 1 .. Len(items') : items'[j] = items'[k] /\ items'[j] \in Element => j = k
    BY <1>5, <1>9
  <2> QED
    BY <2>1, <2>2, <2>3
<1>13. \A x : In(x, items)' <=> In(x, items')
  BY DEF In
<1> QED
  BY <1>6, <1>11, <1>12, <1>13 DEF OwnedInv

LEMMA ClearKept ==
  ASSUME BlockInv, OwnedInv, V!iVectorClear
  PROVE  BlockInv' /\ OwnedInv'
<1> DEFINE A == {data[k] : k \in 1 .. length}
<1>1. /\ V!Free(V!SetToSeq(A)) /\ data' = << >> /\ length' = 0 /\ alloc' = 0 /\ items' = << >>
      /\ UNCHANGED <<given, twice>>
  BY DEF V!iVectorClear
<1>2. length \in Nat /\ Len(items) = length /\ \A k \in 1 .. length : data[k] = items[k]
  BY DEF BlockInv
<1>3. BlockInv'
  BY <1>1 DEF BlockInv
<1>4. IsFiniteSet(A)
  <2> DEFINE f == [k \in 1 .. length |-> data[k]]
  <2>1. f \in Surjection(1 .. length, A)
    BY DEF Surjection
  <2>2. IsFiniteSet(1 .. length)
    BY <1>2, FS_Interval
  <2> HIDE DEF f, A
  <2> QED
    BY <2>1, <2>2, FS_Surjection
<1>5. \A e : e \in A <=> In(e, items)
  BY <1>2 DEF In
<1> HIDE DEF A
<1> DEFINE s == V!SetToSeq(A)
<1>6. (\A j, k \in DOMAIN s : s[j] = s[k] => j = k) /\ A = {s[k] : k \in DOMAIN s}
  BY <1>4, SetIsListed
<1>7. V!Free(s)
  BY <1>1
<1> HIDE DEF s
<1>8. Len(items') = 0 /\ \A e : ~ In(e, items')
  BY <1>1 DEF In
<1>9. \A e \in Element : (\E k \in DOMAIN s : s[k] = e) <=> In(e, items) /\ ~ In(e, items')
  BY <1>5, <1>6, <1>8
<1>10. \A e \in Element : \A j, k \in DOMAIN s : s[j] = e /\ s[k] = e => j = k
  BY <1>6
<1>11. \A j, k \in 1 .. Len(items') : items'[j] = items'[k] /\ items'[j] \in Element => j = k
  BY <1>8
<1>12. OwnedInv'
  BY <1>1, <1>7, <1>8, <1>9, <1>10, <1>11, FreedOnce
<1> QED
  BY <1>3, <1>12

(* Nothing is said of what follows an undefined memcpy. *)
VectorInv == torn \in BOOLEAN /\ (~ torn => BlockInv /\ OwnedInv)

LEMMA VectorStep ==
  VectorInv /\ [V!Next]_V!vars => VectorInv'
<1> SUFFICES ASSUME VectorInv, [V!Next]_V!vars PROVE VectorInv'
  OBVIOUS
<1>1. torn' \in BOOLEAN
  BY DEF VectorInv, V!Next, V!vars, V!iVectorAppend, V!iVectorResize, V!iVectorRemove, V!iVectorReplace,
         V!iVectorClear, V!Overlaps
<1>2. SUFFICES ASSUME ~ torn, ~ torn' PROVE BlockInv' /\ OwnedInv'
  <2>1. CASE UNCHANGED V!vars /\ torn
    BY <1>1, <2>1 DEF VectorInv, V!vars
  <2>2. V!Next => ~ torn
    BY DEF V!Next
  <2> QED BY <1>1, <2>1, <2>2 DEF VectorInv
<1>3. BlockInv /\ OwnedInv
  BY <1>2 DEF VectorInv
<1>4. ASSUME NEW e \in Element, V!Fresh(e) \/ (twice /\ freed[e] = 0), V!iVectorAppend(e) PROVE BlockInv' /\ OwnedInv'
  BY <1>3, <1>4, AppendKept
<1>5. ASSUME NEW n \in 1 .. MaxSize, ~ twice, V!iVectorResize(n) PROVE BlockInv' /\ OwnedInv'
  BY <1>3, <1>5, ResizeKept
<1>6. ASSUME NEW i \in 1 .. MaxSize, ~ twice, V!iVectorRemove(i) PROVE BlockInv' /\ OwnedInv'
  BY <1>2, <1>3, <1>6, RemoveKept DEF V!iVectorRemove
<1>7. ASSUME NEW i \in 1 .. MaxSize, NEW e \in Element, ~ twice, V!Fresh(e), V!iVectorReplace(i, e)
      PROVE  BlockInv' /\ OwnedInv'
  BY <1>3, <1>7, ReplaceKept
<1>8. CASE V!iVectorClear
  BY <1>3, <1>8, ClearKept
<1>9. CASE UNCHANGED V!vars
  BY <1>3, <1>9 DEF V!vars, BlockInv, OwnedInv, In
<1> QED
  BY <1>4, <1>5, <1>6, <1>7, <1>8, <1>9 DEF V!Next

LEMMA VectorIsKept ==
  V!Spec => []V!VectorIsList
<1>1. V!Init => VectorInv
  <2> SUFFICES ASSUME V!Init PROVE VectorInv
    OBVIOUS
  <2>1. /\ data = << >> /\ length = 0 /\ alloc = 0 /\ items = << >> /\ given = {}
        /\ freed = [e \in Element |-> 0] /\ torn = FALSE
    BY DEF V!Init
  <2>2. BlockInv
    BY <2>1 DEF BlockInv
  <2>3. Len(items) = 0 /\ \A e : ~ In(e, items)
    BY <2>1 DEF In
  <2> QED
    <3>1. OwnedInv
      BY <2>1, <2>3 DEF OwnedInv
    <3> QED BY <2>1, <2>2, <3>1 DEF VectorInv
<1>2. VectorInv => V!VectorIsList
  <2> SUFFICES ASSUME BlockInv, OwnedInv PROVE V!VectorIsList
    BY DEF VectorInv, V!VectorIsList
  <2>1. /\ data \in Seq(Stored) /\ Len(data) = alloc /\ length \in Nat /\ length <= alloc
        /\ items \in Seq(Element \cup {V!NULL}) /\ length = Len(items)
        /\ \A k \in 1 .. length : data[k] = items[k]
    BY DEF BlockInv
  <2>2. SubSeq(data, 1, length) = items
    <3> DEFINE s == SubSeq(data, 1, length)
    <3>1. s \in Seq(Stored) /\ Len(s) = length /\ \A k \in 1 .. length : s[k] = data[k]
      BY <2>1
    <3> HIDE DEF s
    <3>2. s = items
      BY <2>1, <3>1
    <3> QED
      BY <3>2 DEF s
  <2>3. \A e \in Element : e \in {items[k] : k \in 1 .. Len(items)} <=> In(e, items)
    BY DEF In
  <2>4. \A e \in Element : freed[e] = IF e \in given /\ ~ e \in {items[k] : k \in 1 .. Len(items)} THEN 1 ELSE 0
    BY <2>3 DEF OwnedInv
  <2> QED
    BY <2>1, <2>2, <2>4 DEF V!VectorIsList
<1> QED
  BY <1>1, <1>2, VectorStep, PTL DEF V!Spec

(* The containers are what their calls describe, whatever is called, the   *)
(* size of the blocks and the cells that malloc gives: the vector has its  *)
(* elements in a block that holds them, has freed once each of those that  *)
(* left it, as long as no element is removed that has two or more after it *)
(* (memcpy of blocks that overlap, undefined); and the list is linked in   *)
(* both directions.                                                        *)
THEOREM ContainersAreKept == V!Spec /\ D!Spec => []ContainersKept
  BY VectorIsKept, ListIsKept, PTL DEF ContainersKept

-----------------------------------------------------------------------------
(* The memory on I2C (I2cMem, src/i2c/i2c.c).                              *)

Calls == [kind : {"read", "write"}, at : M!Cells, data : Seq(Value)]

(* The access that is under way is in the memory, a write in one page,     *)
(* that is written as a whole.                                             *)
AccessInv ==
  /\ mem \in [M!Cells -> Value]
  /\ \/ call = M!NoCall
     \/ /\ call \in Calls /\ call.at + Len(call.data) <= MemSize
        /\ offset = call.at % Reach /\ addr = (call.at % MemSize) \div Reach
        /\ call.kind = "write" =>
             /\ (call.at % PageSize) + Len(call.data) <= PageSize
             /\ p \in {0, Len(call.data)}
             /\ \A k \in 1 .. p : mem[call.at + k - 1] = call.data[k]

LEMMA Sizes ==
  /\ MemSize \in Nat /\ MemSize > 0 /\ PageSize \in Nat /\ PageSize > 0 /\ Reach \in Nat /\ Reach > 0
  /\ MemSize % PageSize = 0
  BY Assumptions DEF M!I2cMemAssumption

LEMMA DivMod ==
  ASSUME NEW a \in Nat, NEW b \in Nat, b > 0
  PROVE  a \div b \in Nat /\ a % b \in Nat /\ a = b * (a \div b) + (a % b)
  OBVIOUS

(* The cell of the byte k of an access of n bytes. *)
LEMMA CellOfByte ==
  ASSUME NEW at \in Nat, NEW n \in Nat, at + n <= MemSize, NEW k \in 1 .. n
  PROVE  /\ at + k - 1 \in M!Cells /\ at + k - 1 \in Nat /\ at + k - 1 < MemSize
         /\ at + k - 1 \in at .. at + n - 1 /\ (at + k - 1) - at + 1 = k
<1>1. MemSize \in Nat
  BY Sizes
<1> QED
  BY <1>1 DEF M!Cells

(* The address of the chip and the offset are those of the access. *)
LEMMA FirstIsAsked ==
  ASSUME AccessInv, call # M!NoCall
  PROVE  M!First = call.at
<1>1. call.at \in Nat /\ call.at < MemSize /\ offset = call.at % Reach /\ addr = (call.at % MemSize) \div Reach
  BY Sizes DEF AccessInv, Calls, M!Cells
<1>2. call.at % MemSize = call.at
  BY <1>1, Sizes
<1>3. call.at = Reach * (call.at \div Reach) + (call.at % Reach)
  BY <1>1, Sizes
<1>4. (call.at \div Reach) * Reach = Reach * (call.at \div Reach)
  BY <1>1, Sizes
<1> QED
  BY <1>1, <1>2, <1>3, <1>4 DEF M!First

(* A write in a page stores what is written, and nothing elsewhere. *)
LEMMA PageIsStored ==
  ASSUME NEW at \in M!Cells, NEW d \in Seq(Value), (at % PageSize) + Len(d) <= PageSize, at + Len(d) <= MemSize,
         M!First = at, mem \in [M!Cells -> Value]
  PROVE  /\ M!Programmed(d) \in [M!Cells -> Value]
         /\ M!Programmed(d) = [a \in M!Cells |-> IF a \in at .. at + Len(d) - 1 THEN d[a - at + 1] ELSE mem[a]]
<1> DEFINE page == (at \div PageSize) * PageSize
           hits(a) == {k \in 1 .. Len(d) : page + ((at - page + k - 1) % PageSize) = a}
<1>1. at \in Nat /\ Len(d) \in Nat
  BY Sizes DEF M!Cells
<1>2. page \in Nat /\ at - page = at % PageSize /\ at % PageSize \in Nat
  <2>1. at = PageSize * (at \div PageSize) + (at % PageSize) /\ at \div PageSize \in Nat /\ at % PageSize \in Nat
    BY <1>1, Sizes
  <2>2. page = PageSize * (at \div PageSize) /\ page \in Nat
    <3> DEFINE q == at \div PageSize
    <3>1. q \in Nat
      BY <2>1
    <3> HIDE DEF q
    <3>2. q * PageSize = PageSize * q /\ q * PageSize \in Nat
      BY <3>1, Sizes
    <3> QED
      BY <3>2 DEF q
  <2> HIDE DEF page
  <2> QED
    BY <1>1, <2>1, <2>2
<1>3. M!Programmed(d) = [a \in M!Cells |-> IF hits(a) = {} THEN mem[a]
                           ELSE d[CHOOSE k \in hits(a) : \A j \in hits(a) : j <= k]]
  BY DEF M!Programmed
<1> HIDE DEF page
<1>4. ASSUME NEW k \in 1 .. Len(d)
      PROVE  page + ((at - page + k - 1) % PageSize) = at + k - 1
  <2> DEFINE x == at - page + k - 1
  <2>1. x \in Nat /\ x < PageSize /\ page + x = at + k - 1
    BY <1>1, <1>2, Sizes
  <2> HIDE DEF x
  <2>2. x % PageSize = x
    BY <2>1, Sizes
  <2> QED
    BY <2>1, <2>2 DEF x
<1>5. ASSUME NEW a \in M!Cells
      PROVE  hits(a) = {k \in 1 .. Len(d) : at + k - 1 = a}
  BY <1>4
<1> HIDE DEF hits
<1>6. ASSUME NEW a \in M!Cells
      PROVE  /\ a \in at .. at + Len(d) - 1 => hits(a) = {a - at + 1} /\ a - at + 1 \in 1 .. Len(d)
             /\ a \notin at .. at + Len(d) - 1 => hits(a) = {}
  <2>0. a \in Nat
    BY Sizes DEF M!Cells
  <2>1. \A k \in 1 .. Len(d) : at + k - 1 = a => k = a - at + 1 /\ a \in at .. at + Len(d) - 1
    BY <1>1, <2>0
  <2>2. a \in at .. at + Len(d) - 1 => a - at + 1 \in 1 .. Len(d) /\ at + (a - at + 1) - 1 = a
    BY <1>1, <2>0
  <2> QED
    BY <1>5, <2>1, <2>2
<1>7. ASSUME NEW a \in M!Cells
      PROVE  M!Programmed(d)[a] = IF a \in at .. at + Len(d) - 1 THEN d[a - at + 1] ELSE mem[a]
  <2>1. CASE a \in at .. at + Len(d) - 1
    <3> DEFINE h == a - at + 1
    <3>1. hits(a) = {h} /\ h \in 1 .. Len(d)
      BY <1>6, <2>1
    <3>2. h <= h
      BY <3>1
    <3> HIDE DEF h
    <3>3. (CHOOSE k \in hits(a) : \A j \in hits(a) : j <= k) = h
      BY <3>1, <3>2
    <3> QED
      BY <1>3, <2>1, <3>1, <3>3 DEF h
  <2>2. CASE a \notin at .. at + Len(d) - 1
    BY <1>3, <1>6, <2>2
  <2> QED
    BY <2>1, <2>2
<1>8. M!Programmed(d) = [a \in M!Cells |-> M!Programmed(d)[a]]
  BY <1>3
<1>9. M!Programmed(d) = [a \in M!Cells |-> IF a \in at .. at + Len(d) - 1 THEN d[a - at + 1] ELSE mem[a]]
  BY <1>7, <1>8
<1>10. ASSUME NEW a \in M!Cells
       PROVE  (IF a \in at .. at + Len(d) - 1 THEN d[a - at + 1] ELSE mem[a]) \in Value
  <2>1. CASE a \in at .. at + Len(d) - 1
    BY <1>6, <2>1
  <2> QED
    BY <2>1
<1> QED
  BY <1>9, <1>10

(* The memory as the application sees it. *)
F == INSTANCE FlatMemory WITH Size <- MemSize, cells <- mem, op <- call, result <- answer

LEMMA IdleIsIdle == M!NoCall = M!MemoryIsFlat!Idle /\ M!Cells = M!MemoryIsFlat!Address /\ \A c \in Calls : c # M!NoCall
  BY DEF M!NoCall, M!MemoryIsFlat!Idle, M!Cells, M!MemoryIsFlat!Address, Calls

(* A call that begins. *)
LEMMA CallBegins ==
  ASSUME AccessInv, NEW kind \in {"read", "write"}, NEW at \in M!Cells, NEW d \in Seq(Value),
         at + Len(d) <= MemSize, kind = "write" => (at % PageSize) + Len(d) <= PageSize,
         M!Begin(kind, at, d)
  PROVE  AccessInv' /\ M!MemoryIsFlat!Call
<1>1. /\ call = M!NoCall /\ call' = [kind |-> kind, at |-> at, data |-> d]
      /\ offset' = at % Reach /\ addr' = (at % MemSize) \div Reach /\ p' = 0
      /\ UNCHANGED <<mem, answer>>
  BY DEF M!Begin, M!prviSetOffset
<1>2. call' \in Calls /\ call'.kind = kind /\ call'.at = at /\ call'.data = d
  BY <1>1 DEF Calls
<1>3. AccessInv'
  BY <1>1, <1>2 DEF AccessInv
<1>4. M!MemoryIsFlat!Call
  BY <1>1, <1>2, IdleIsIdle DEF M!MemoryIsFlat!Call, Calls
<1> QED
  BY <1>3, <1>4

(* A page is written: all that is asked, where it is asked. *)
LEMMA WriteStores ==
  ASSUME AccessInv, M!WritePage
  PROVE  AccessInv' /\ \E part \in SUBSET M!MemoryIsFlat!Range : M!MemoryIsFlat!Store(part)
<1> DEFINE d == call.data
           n == Len(call.data)
<1>1. /\ call.kind = "write" /\ n - p > 0 /\ p' = p + M!Count
      /\ mem' = M!Programmed(SubSeq(d, p + 1, p + M!Count))
      /\ UNCHANGED <<call, addr, offset, answer>>
  BY DEF M!WritePage, M!Remaining
<1>2. call # M!NoCall
  BY <1>1 DEF M!NoCall
<1>3. /\ call \in Calls /\ call.at + n <= MemSize /\ mem \in [M!Cells -> Value]
      /\ (call.at % PageSize) + n <= PageSize /\ p \in {0, n}
      /\ offset = call.at % Reach /\ addr = (call.at % MemSize) \div Reach
  BY <1>1, <1>2 DEF AccessInv
<1>4. call.at \in M!Cells /\ call.at \in Nat /\ d \in Seq(Value) /\ n \in Nat /\ M!First = call.at
  BY <1>2, <1>3, FirstIsAsked, Sizes DEF Calls, M!Cells
<1>5. p = 0 /\ call.at % PageSize \in Nat /\ n <= PageSize
  <2>1. call.at % PageSize \in Nat
    BY <1>4, Sizes
  <2>2. p = 0
    BY <1>1, <1>3, <1>4
  <2>3. PICK m \in Nat : m = call.at % PageSize
    BY <2>1
  <2>4. m + n <= PageSize
    BY <1>3, <2>3
  <2>5. n <= PageSize
    BY <1>4, <2>3, <2>4, Sizes
  <2> QED
    BY <2>1, <2>2, <2>5
<1>6. M!Count = n /\ p' = n
  BY <1>1, <1>4, <1>5, Sizes DEF M!Count, M!Remaining
<1>7. SubSeq(d, p + 1, p + M!Count) = d
  BY <1>4, <1>5, <1>6
<1>8. /\ M!Programmed(d) \in [M!Cells -> Value]
      /\ M!Programmed(d) = [a \in M!Cells |-> IF a \in call.at .. call.at + n - 1 THEN d[a - call.at + 1] ELSE mem[a]]
  BY <1>3, <1>4, PageIsStored
<1>9. /\ mem' \in [M!Cells -> Value]
      /\ mem' = [a \in M!Cells |-> IF a \in call.at .. call.at + n - 1 THEN d[a - call.at + 1] ELSE mem[a]]
  BY <1>1, <1>7, <1>8
<1>10. ASSUME NEW k \in 1 .. n PROVE mem'[call.at + k - 1] = d[k]
  <2> DEFINE a == call.at + k - 1
  <2>1. a \in M!Cells /\ a \in call.at .. call.at + n - 1 /\ a - call.at + 1 = k
    BY <1>3, <1>4, CellOfByte
  <2> HIDE DEF a
  <2>2. mem'[a] = d[k]
    BY <1>9, <2>1
  <2> QED
    BY <2>2 DEF a
<1>11. AccessInv'
  BY <1>1, <1>3, <1>6, <1>9, <1>10 DEF AccessInv
<1>12. M!MemoryIsFlat!Store(M!MemoryIsFlat!Range)
  BY <1>1, <1>9, IdleIsIdle DEF M!MemoryIsFlat!Store, M!MemoryIsFlat!Range, M!MemoryIsFlat!Wanted
<1> QED
  BY <1>11, <1>12

(* What is returned is what a memory returns. *)
LEMMA AnswerIsRight ==
  /\ AccessInv /\ M!iI2cMemWriteReturns => M!MemoryIsFlat!WriteReturns
  /\ AccessInv /\ M!ReadCells => M!MemoryIsFlat!ReadReturns
<1> SUFFICES ASSUME AccessInv
             PROVE  (M!iI2cMemWriteReturns => M!MemoryIsFlat!WriteReturns) /\ (M!ReadCells => M!MemoryIsFlat!ReadReturns)
  OBVIOUS
<1> DEFINE n == Len(call.data)
<1>0. call # M!NoCall => call \in Calls /\ call.at \in Nat /\ n \in Nat /\ call.at + n <= MemSize
  BY Sizes DEF AccessInv, Calls, M!Cells
<1>1. ASSUME M!iI2cMemWriteReturns PROVE M!MemoryIsFlat!WriteReturns
  <2>1. /\ call.kind = "write" /\ n - p = 0 /\ call' = M!NoCall /\ answer' = <<"ok">> /\ UNCHANGED mem
    BY <1>1 DEF M!iI2cMemWriteReturns, M!Answer, M!Remaining
  <2>2. call # M!NoCall
    BY <2>1 DEF M!NoCall
  <2>3. p \in {0, n} /\ \A k \in 1 .. p : mem[call.at + k - 1] = call.data[k]
    BY <2>1, <2>2 DEF AccessInv
  <2>4. p = n
    BY <1>0, <2>1, <2>2, <2>3
  <2>5. ASSUME NEW a \in M!MemoryIsFlat!Range PROVE mem[a] = M!MemoryIsFlat!Wanted(a)
    <3> DEFINE k == a - call.at + 1
    <3>1. k \in 1 .. p /\ call.at + k - 1 = a
      BY <1>0, <2>2, <2>4 DEF M!MemoryIsFlat!Range
    <3> HIDE DEF k
    <3>2. mem[a] = call.data[k]
      BY <2>3, <3>1
    <3> QED
      BY <3>2 DEF k, M!MemoryIsFlat!Wanted
  <2> QED
    BY <2>1, <2>5, IdleIsIdle DEF M!MemoryIsFlat!WriteReturns, M!MemoryIsFlat!Return
<1>2. ASSUME M!ReadCells PROVE M!MemoryIsFlat!ReadReturns
  <2>1. /\ call.kind = "read" /\ call' = M!NoCall /\ UNCHANGED mem
        /\ answer' = <<"read", [k \in 1 .. n |-> mem[(M!First + k - 1) % MemSize]]>>
    BY <1>2 DEF M!ReadCells, M!Answer
  <2>2. call # M!NoCall
    BY <2>1 DEF M!NoCall
  <2>3. ASSUME NEW k \in 1 .. n PROVE (M!First + k - 1) % MemSize = call.at + k - 1
    <3> DEFINE x == call.at + k - 1
    <3>1. x \in Nat /\ x < MemSize
      BY <1>0, <2>2, CellOfByte
    <3>2. M!First + k - 1 = x
      BY <2>2, FirstIsAsked
    <3> HIDE DEF x
    <3>3. x % MemSize = x
      BY <3>1, Sizes
    <3> QED
      BY <3>2, <3>3 DEF x
  <2>4. [k \in 1 .. n |-> mem[(M!First + k - 1) % MemSize]] = [k \in 1 .. n |-> mem[call.at + k - 1]]
    BY <2>3
  <2> QED
    BY <2>1, <2>4, IdleIsIdle DEF M!MemoryIsFlat!ReadReturns, M!MemoryIsFlat!Return
<1> QED
  BY <1>1, <1>2

LEMMA MemoryStep ==
  AccessInv /\ [M!Next]_M!vars => AccessInv' /\ [M!MemoryIsFlat!Next]_<<mem, call, answer>>
<1> SUFFICES ASSUME AccessInv, [M!Next]_M!vars PROVE AccessInv' /\ [M!MemoryIsFlat!Next]_<<mem, call, answer>>
  OBVIOUS
<1>0. call' = M!NoCall /\ UNCHANGED mem => AccessInv'
  BY DEF AccessInv
<1>1. ASSUME NEW w \in Writes, M!Begin("write", w[1], w[2]) PROVE AccessInv' /\ M!MemoryIsFlat!Call
  <2>1. /\ w[1] \in M!Cells /\ w[2] \in Seq(Value) /\ (w[1] % PageSize) + Len(w[2]) <= PageSize
    BY Assumptions DEF M!I2cMemAssumption, M!Cells
  <2>2. w[1] + Len(w[2]) <= MemSize
    <3> DEFINE at == w[1]
               n == Len(w[2])
               q == at \div PageSize
               r == at % PageSize
               m == MemSize \div PageSize
    <3>1. at \in Nat /\ n \in Nat /\ r + n <= PageSize /\ at < MemSize
      BY <2>1, Sizes DEF M!Cells
    <3>2. q \in Nat /\ r \in Nat /\ at = PageSize * q + r
      BY <3>1, Sizes, DivMod
    <3>3. m \in Nat /\ MemSize = PageSize * m
      BY Sizes
    <3> HIDE DEF at, n, q, r, m
    <3>4. PageSize * q < PageSize * m
      BY <3>1, <3>2, <3>3, Sizes
    <3>5. q < m
      BY <3>2, <3>3, <3>4, Sizes
    <3>6. q + 1 <= m
      BY <3>2, <3>3, <3>5
    <3>7. PageSize * (q + 1) <= PageSize * m
      BY <3>2, <3>3, <3>6, Sizes
    <3>8. PageSize * (q + 1) = PageSize * q + PageSize
      BY <3>2, Sizes
    <3>9. at + n <= MemSize
      BY <3>1, <3>2, <3>3, <3>7, <3>8, Sizes
    <3> QED
      BY <3>9 DEF at, n
  <2> QED
    BY <1>1, <2>1, <2>2, CallBegins
<1>2. ASSUME NEW r \in Reads, M!Begin("read", r[1], [k \in 1 .. r[2] |-> 0]) PROVE AccessInv' /\ M!MemoryIsFlat!Call
  <2> DEFINE d == [k \in 1 .. r[2] |-> 0]
  <2>1. r[1] \in M!Cells /\ r[2] \in Nat /\ r[1] + r[2] <= MemSize /\ 0 \in Value
    BY Assumptions DEF M!I2cMemAssumption, M!Cells
  <2>2. d \in Seq(Value) /\ Len(d) = r[2]
    BY <2>1
  <2> HIDE DEF d
  <2>3. M!Begin("read", r[1], d)
    BY <1>2 DEF d
  <2> QED
    BY <2>1, <2>2, <2>3, CallBegins
<1>3. CASE M!WritePage
  BY <1>3, WriteStores DEF M!MemoryIsFlat!Next
<1>4. CASE M!iI2cMemWriteReturns
  <2>1. call' = M!NoCall /\ UNCHANGED mem
    BY <1>4 DEF M!iI2cMemWriteReturns, M!Answer
  <2> QED
    BY <1>0, <1>4, <2>1, AnswerIsRight DEF M!MemoryIsFlat!Next
<1>5. CASE M!ReadCells
  <2>1. call' = M!NoCall /\ UNCHANGED mem
    BY <1>5 DEF M!ReadCells, M!Answer
  <2> QED
    BY <1>0, <1>5, <2>1, AnswerIsRight DEF M!MemoryIsFlat!Next
<1>6. M!Accesses => call # M!MemoryIsFlat!Idle
  BY DEF M!Accesses, M!MemoryIsFlat!Idle
<1>7. CASE M!Accesses /\ M!Answer(<<"error">>) /\ UNCHANGED mem
  <2>1. call' = M!NoCall /\ answer' = <<"error">>
    BY <1>7 DEF M!Answer
  <2>2. M!MemoryIsFlat!Failure
    BY <1>6, <1>7, <2>1, IdleIsIdle DEF M!MemoryIsFlat!Failure, M!MemoryIsFlat!Return
  <2> QED
    BY <1>0, <1>7, <2>1, <2>2 DEF M!MemoryIsFlat!Next
<1>8. CASE UNCHANGED <<mem, call, answer, addr, offset, p>>
  BY <1>8 DEF AccessInv
<1>9. CASE M!NotReady
  BY <1>7, <1>8, <1>9 DEF M!NotReady
<1>10. CASE M!OtherError
  BY <1>7, <1>10 DEF M!OtherError
<1>11. CASE UNCHANGED M!vars
  BY <1>8, <1>11 DEF M!vars
<1> QED
  BY <1>1, <1>2, <1>3, <1>4, <1>5, <1>9, <1>10, <1>11 DEF M!Next, M!MemoryIsFlat!Next

(* What the application does with the memory is what a flat memory does,   *)
(* whatever the sizes, the retries, the timeouts and the errors, when each *)
(* write stays in one page (I2cMemAssumption); iI2cMemWrite writes all the *)
(* pages of a longer one to the first.                                     *)
THEOREM MemoryIsFlat == M!Spec => MemorySpec
<1>1. M!Init => AccessInv /\ M!MemoryIsFlat!Init
  <2> SUFFICES ASSUME M!Init PROVE AccessInv /\ M!MemoryIsFlat!Init
    OBVIOUS
  <2>1. mem = [a \in M!Cells |-> 0] /\ call = M!NoCall /\ answer = << >> /\ 0 \in Value
    BY Assumptions DEF M!Init, M!I2cMemAssumption
  <2> QED
    BY <2>1, IdleIsIdle DEF AccessInv, M!MemoryIsFlat!Init
<1> QED
  BY <1>1, MemoryStep, PTL DEF M!Spec, M!MemoryIsFlat!Spec, MemorySpec, M!MemorySpec

-----------------------------------------------------------------------------
(* The leds (LedRgb, src/ledrgb.c, src/i2c/tlc59116.c).                    *)
(*                                                                         *)
(* The registers of a controller and the copy of the driver may differ     *)
(* after a write that fails, and any later write of the same register      *)
(* sends the copy.  So the invariant LedInv says of both that they hold    *)
(* what was asked (Fits), with what the call under way asks added; of the  *)
(* call under way that each item it asks is still to be written or shows   *)
(* what is asked already (AsksInv), and that the blinking bit is only set  *)
(* after the period it shows (TodoInv, Fresh).                             *)

Blink == <<"blink", 0>>
FREQ == <<L!GRPFREQ, 0>>
DIM == <<L!GRPPWM, 0>>

(* The cell that is written last for an item. *)
CellOf(i) ==
  CASE i[1] = "mode" -> L!ModeCell(i[2]) [] i[1] = "pwm" -> L!PwmCell(i[2])
    [] i[1] = "dim" -> DIM [] OTHER -> L!DMBLNK

(* What item i shows, now (registers r) or after its registers are written *)
(* from the copy s, is in Vals.                                            *)
Fits(i, r, s, Vals) ==
  IF i = Blink
    THEN \A b \in {r[L!DMBLNK], s[L!DMBLNK]} :
           IF b = 0 THEN -1 \in Vals ELSE r[FREQ] \in Vals /\ s[FREQ] \in Vals
    ELSE r[CellOf(i)] \in Vals /\ s[CellOf(i)] \in Vals

(* The values that the call under way asks for. *)
LedAsked(c, i) == IF <<c, i>> \in DOMAIN ledCall.asks THEN ledCall.asks[<<c, i>>] ELSE {}

Sets(w, c, i) == w.ctrl = c /\ CellOf(i) \in DOMAIN w.set

(* The first write of a blinker *)
Blinks(w) ==
  /\ DOMAIN w.set = {DIM, FREQ}
  /\ w.set[DIM] \in LedAsked(w.ctrl, <<"dim", 0>>) /\ w.set[FREQ] \in LedAsked(w.ctrl, Blink)

(* The period of controller c is the one asked. *)
Fresh(c) == chip[c][FREQ] \in LedAsked(c, Blink) /\ shadow[c][FREQ] \in LedAsked(c, Blink)

(* A write of the call sets what the call asks. *)
Right(w) ==
  /\ w.ctrl \in L!Ctrl
  /\ \/ \E i \in L!Item \ {Blink} : \E v \in LedAsked(w.ctrl, i) : w.set = L!Only(CellOf(i), v)
     \/ w.set = L!Only(L!DMBLNK, 0) /\ -1 \in LedAsked(w.ctrl, Blink)
     \/ Blinks(w)
     \/ w.set = L!Only(L!DMBLNK, 1)
     \/ \E v \in {0, 1} : w.set = L!Only(L!EFCLR, v)

IsSeqOf(s) == s \in Seq({s[k] : k \in DOMAIN s})

TodoInv ==
  /\ IsSeqOf(todo)
  /\ \A k \in DOMAIN todo :
       /\ Right(todo[k])
       /\ Blinks(todo[k]) =>
            k + 1 \in DOMAIN todo /\ todo[k + 1] = [ctrl |-> todo[k].ctrl, set |-> L!Only(L!DMBLNK, 1)]
       /\ todo[k].set = L!Only(L!DMBLNK, 1) =>
            IF k = 1 THEN Fresh(todo[k].ctrl)
            ELSE Blinks(todo[k - 1]) /\ todo[k - 1].ctrl = todo[k].ctrl

AsksInv ==
  /\ DOMAIN ledCall.asks \subseteq L!Ctrl \X L!Item
  /\ \A x \in DOMAIN ledCall.asks :
       \/ \E k \in DOMAIN todo : Sets(todo[k], x[1], x[2])
       \/ Fits(x[2], chip[x[1]], shadow[x[1]], ledCall.asks[x])

IsRegs(f) == f = [x \in L!Cells |-> f[x]]

LedTypeInv ==
  /\ setup \in Setups
  /\ chip = [c \in L!Ctrl |-> chip[c]] /\ \A c \in L!Ctrl : IsRegs(chip[c])
  /\ shadow = [c \in L!Ctrl |-> shadow[c]] /\ \A c \in L!Ctrl : IsRegs(shadow[c])
  /\ shows = [c \in L!Ctrl |-> shows[c]] /\ \A c \in L!Ctrl : DOMAIN shows[c] = L!Item
  /\ nof_ctrl \in Nat
  /\ phase \in {"closed", "opening", "open"}
  /\ leds \in Seq({l \in Led : \A i \in 1 .. 3 : l[i] \in L!Ctrl \X Out})
  /\ (phase # "open" => todo = <<>>)
  /\ (todo = <<>> => ledCall = L!NoCall)

Alone(c) == \A d \in L!Ctrl \ {c} : setup[d] # setup[c]

(* The controllers that iOpen has started *)
Started(c) ==
  /\ \A x \in L!Cells \ {L!OSC} : chip[c][x] = L!Reset[x] /\ shadow[c][x] = L!Reset[x]
  /\ Alone(c) => chip[c][L!OSC] = 0
  /\ shadow[c][L!OSC] = 0

OpeningInv ==
  phase = "opening" => nof_ctrl < Len(setup) /\ \A c \in 1 .. nof_ctrl : Started(c)

OpenInv ==
  phase = "open" =>
    \A c \in L!Ctrl :
      /\ \A i \in L!Item : Fits(i, chip[c], shadow[c], shows[c][i] \cup LedAsked(c, i))
      /\ Alone(c) => chip[c][L!OSC] = 0
      /\ shadow[c][L!OSC] = 0

LedInv == LedTypeInv /\ OpeningInv /\ OpenInv /\ TodoInv /\ AsksInv

LEMMA SetupFacts ==
  ASSUME LedTypeInv
  PROVE  Len(setup) \in Nat \ {0} /\ L!Ctrl = 1 .. Len(setup)
BY Assumptions DEF L!LedRgbAssumption, LedTypeInv, L!Ctrl

(* The cells of the items are different ones. *)
LEMMA CellFacts ==
  /\ \A i \in L!Item : CellOf(i) \in L!Cells
  /\ \A i \in L!Item \ {Blink} : CellOf(i) \notin {L!OSC, L!EFCLR, L!DMBLNK, FREQ}
  /\ \A i, j \in L!Item \ {Blink} : CellOf(i) = CellOf(j) => i = j
  /\ CellOf(Blink) = L!DMBLNK
  /\ {L!OSC, L!EFCLR, L!DMBLNK, FREQ, DIM} \subseteq L!Cells
  /\ L!OSC \notin {L!EFCLR, L!DMBLNK, FREQ, DIM} /\ L!EFCLR \notin {L!DMBLNK, FREQ, DIM}
  /\ L!DMBLNK \notin {FREQ, DIM} /\ FREQ # DIM
<1>1. \A i \in L!Item :
        \/ \E o \in Out : i = <<"mode", o>> /\ CellOf(i) = L!ModeCell(o)
        \/ \E o \in Out : i = <<"pwm", o>> /\ CellOf(i) = L!PwmCell(o)
        \/ i = <<"dim", 0>> /\ CellOf(i) = DIM
        \/ i = Blink /\ CellOf(i) = L!DMBLNK
  <2> TAKE i \in L!Item
  <2>1. ASSUME NEW o PROVE CellOf(<<"mode", o>>) = L!ModeCell(o) /\ CellOf(<<"pwm", o>>) = L!PwmCell(o)
    BY DEF CellOf
  <2>2. CellOf(<<"dim", 0>>) = DIM /\ CellOf(Blink) = L!DMBLNK
    BY DEF CellOf, Blink
  <2> QED BY <2>1, <2>2 DEF L!Item, Blink
<1>2. \A o, q \in Out : L!ModeCell(o) = L!ModeCell(q) => o = q
  BY Assumptions DEF L!LedRgbAssumption, L!ModeCell, L!LEDOUT
<1>3. \A o, q \in Out : L!PwmCell(o) = L!PwmCell(q) => o = q
  BY DEF L!PwmCell, L!PWM
<1>4. \A o, q \in Out : L!ModeCell(o) # L!PwmCell(q)
  BY DEF L!PwmCell, L!PWM, L!ModeCell, L!LEDOUT
<1>5. \A o \in Out : {L!ModeCell(o), L!PwmCell(o)} \cap {L!OSC, L!EFCLR, L!DMBLNK, FREQ, DIM} = {}
  BY DEF L!PwmCell, L!PWM, L!ModeCell, L!LEDOUT, L!OSC, L!EFCLR, L!DMBLNK, FREQ, DIM, L!MODE1, L!MODE2, L!GRPPWM, L!GRPFREQ
<1>6. /\ L!OSC \notin {L!EFCLR, L!DMBLNK, FREQ, DIM} /\ L!EFCLR \notin {L!DMBLNK, FREQ, DIM}
      /\ L!DMBLNK \notin {FREQ, DIM} /\ FREQ # DIM
  BY DEF L!OSC, L!EFCLR, L!DMBLNK, FREQ, DIM, L!MODE1, L!MODE2, L!GRPPWM, L!GRPFREQ
<1>7. /\ {L!OSC, L!EFCLR, L!DMBLNK, FREQ, DIM} \subseteq L!Cells
      /\ \A o \in Out : L!ModeCell(o) \in L!Cells /\ L!PwmCell(o) \in L!Cells
  BY DEF L!Cells, FREQ, DIM
<1>8. \A i \in L!Item : CellOf(i) \in L!Cells
  BY <1>1, <1>7
<1>9. \A i \in L!Item \ {Blink} : CellOf(i) \notin {L!OSC, L!EFCLR, L!DMBLNK, FREQ}
  BY <1>1, <1>5, <1>6
<1>10. \A i, j \in L!Item \ {Blink} : CellOf(i) = CellOf(j) => i = j
  BY <1>1, <1>2, <1>3, <1>4, <1>5
<1>11. CellOf(Blink) = L!DMBLNK
  BY DEF CellOf, Blink
<1> QED BY <1>6, <1>7, <1>8, <1>9, <1>10, <1>11

(* What a write changes: the copy takes the cells that are set, and a cell *)
(* of the chip that is written takes that of the copy.                     *)
LEMMA CellStep ==
  ASSUME LedTypeInv, NEW w, w.ctrl \in L!Ctrl, DOMAIN w.set \subseteq L!Cells,
         NEW done, L!Written(w, done),
         NEW c \in L!Ctrl, NEW x \in L!Cells
  PROVE  /\ w.ctrl = c /\ x \in DOMAIN w.set =>
              shadow'[c][x] = w.set[x] /\ chip'[c][x] \in {chip[c][x], w.set[x]}
         /\ w.ctrl = c /\ x \in DOMAIN w.set /\ done = L!Registers(w) => chip'[c][x] = w.set[x]
         /\ w.ctrl # c \/ x \notin DOMAIN w.set =>
              shadow'[c][x] = shadow[c][x] /\ chip'[c][x] \in {chip[c][x], shadow[c][x]}
         /\ w.ctrl # c \/ x[1] \notin done => chip'[c][x] = chip[c][x]
<1>1. /\ chip = [d \in L!Ctrl |-> chip[d]] /\ shadow = [d \in L!Ctrl |-> shadow[d]]
  BY DEF LedTypeInv
<1> DEFINE regs == L!Changed(shadow[w.ctrl], w)
<1>2. /\ shadow' = [shadow EXCEPT ![w.ctrl] = regs]
      /\ chip' = [chip EXCEPT ![w.ctrl] = [y \in L!Cells |-> IF y[1] \in done THEN regs[y] ELSE @[y]]]
  BY DEF L!Written
<1>3. regs[x] = IF x \in DOMAIN w.set THEN w.set[x] ELSE shadow[w.ctrl][x]
  BY DEF L!Changed
<1>4. x \in DOMAIN w.set => x[1] \in L!Registers(w)
  BY DEF L!Registers
<1> HIDE DEF regs
<1>5. CASE w.ctrl = c
  <2>1. shadow'[c] = regs
    BY <1>1, <1>2, <1>5
  <2>2. chip'[c] = [y \in L!Cells |-> IF y[1] \in done THEN regs[y] ELSE chip[c][y]]
    BY <1>1, <1>2, <1>5
  <2>3. chip'[c][x] = IF x[1] \in done THEN regs[x] ELSE chip[c][x]
    BY <2>2
  <2> QED BY <2>1, <2>3, <1>3, <1>4, <1>5
<1>6. CASE w.ctrl # c
  <2>1. shadow'[c] = shadow[c] /\ chip'[c] = chip[c]
    BY <1>1, <1>2, <1>6
  <2> QED BY <2>1, <1>6
<1> QED BY <1>5, <1>6

LEMMA RightSets ==
  ASSUME NEW w, Right(w)
  PROVE  /\ w.ctrl \in L!Ctrl /\ DOMAIN w.set \subseteq L!Cells /\ L!OSC \notin DOMAIN w.set
         /\ FREQ \in DOMAIN w.set => Blinks(w)
BY CellFacts DEF Right, Blinks, L!Only

(* A value that the write sets for an item is one that the call asks. *)
LEMMA SetIsAsked ==
  ASSUME NEW w, Right(w), NEW i \in L!Item \ {Blink}, CellOf(i) \in DOMAIN w.set
  PROVE  w.set[CellOf(i)] \in LedAsked(w.ctrl, i)
<1>1. CASE \E j \in L!Item \ {Blink} : \E v \in LedAsked(w.ctrl, j) : w.set = L!Only(CellOf(j), v)
  <2>1. PICK j \in L!Item \ {Blink} : \E v \in LedAsked(w.ctrl, j) : w.set = L!Only(CellOf(j), v)
    BY <1>1
  <2>2. PICK v \in LedAsked(w.ctrl, j) : w.set = L!Only(CellOf(j), v)
    BY <2>1
  <2>3. j = i
    BY <2>2, CellFacts DEF L!Only
  <2> QED BY <2>2, <2>3 DEF L!Only
<1>2. CASE Blinks(w)
  <2>1. CellOf(i) = DIM
    BY <1>2, CellFacts DEF Blinks
  <2>2. CellOf(<<"dim", 0>>) = DIM /\ <<"dim", 0>> \in L!Item \ {Blink}
    BY DEF CellOf, L!Item, Blink
  <2>3. i = <<"dim", 0>>
    BY <2>1, <2>2, CellFacts
  <2> QED BY <1>2, <2>1, <2>3 DEF Blinks
<1>3. w.set # L!Only(L!DMBLNK, 0) /\ w.set # L!Only(L!DMBLNK, 1) /\ \A v : w.set # L!Only(L!EFCLR, v)
  <2>2. CellOf(i) # L!DMBLNK /\ CellOf(i) # L!EFCLR
    BY CellFacts
  <2>3. w.set # L!Only(L!DMBLNK, 0)
    BY <2>2 DEF L!Only
  <2>4. w.set # L!Only(L!DMBLNK, 1)
    BY <2>2 DEF L!Only
  <2>5. ASSUME NEW v PROVE w.set # L!Only(L!EFCLR, v)
    BY <2>2 DEF L!Only
  <2> QED BY <2>3, <2>4, <2>5
<1> QED BY <1>1, <1>2, <1>3 DEF Right

LEMMA BlinkSet ==
  ASSUME NEW w, Right(w), L!DMBLNK \in DOMAIN w.set
  PROVE  \/ w.set = L!Only(L!DMBLNK, 0) /\ w.set[L!DMBLNK] = 0 /\ -1 \in LedAsked(w.ctrl, Blink)
         \/ w.set = L!Only(L!DMBLNK, 1) /\ w.set[L!DMBLNK] = 1
<1>1. \A x, v : DOMAIN L!Only(x, v) = {x} /\ L!Only(x, v)[x] = v
  BY DEF L!Only
<1>2. ~ Blinks(w)
  BY CellFacts DEF Blinks
<1>3. ~ \E i \in L!Item \ {Blink} : \E v \in LedAsked(w.ctrl, i) : w.set = L!Only(CellOf(i), v)
  <2> SUFFICES ASSUME NEW i \in L!Item \ {Blink}, NEW v, w.set = L!Only(CellOf(i), v) PROVE FALSE
    OBVIOUS
  <2>1. CellOf(i) = L!DMBLNK
    BY DEF L!Only
  <2> QED BY <2>1, CellFacts
<1>4. ~ \E v \in {0, 1} : w.set = L!Only(L!EFCLR, v)
  BY CellFacts DEF L!Only
<1> QED BY <1>1, <1>2, <1>3, <1>4 DEF Right

(* A write keeps what an item may show in any set that holds what the call *)
(* asks for it.                                                            *)
LEMMA FitsStep ==
  ASSUME LedTypeInv, NEW w, Right(w), w.set = L!Only(L!DMBLNK, 1) => Fresh(w.ctrl),
         NEW done, L!Written(w, done),
         NEW c \in L!Ctrl, NEW i \in L!Item, NEW Vals, LedAsked(c, i) \subseteq Vals,
         Fits(i, chip[c], shadow[c], Vals)
  PROVE  Fits(i, chip'[c], shadow'[c], Vals)
<1>1. w.ctrl \in L!Ctrl /\ DOMAIN w.set \subseteq L!Cells /\ (FREQ \in DOMAIN w.set => Blinks(w))
  BY RightSets
<1>2. CASE i # Blink
  <2>1. CellOf(i) \in L!Cells
    BY CellFacts
  <2>2. w.ctrl = c /\ CellOf(i) \in DOMAIN w.set => w.set[CellOf(i)] \in Vals
    BY <1>2, SetIsAsked
  <2>3. chip[c][CellOf(i)] \in Vals /\ shadow[c][CellOf(i)] \in Vals
    BY <1>2 DEF Fits
  <2>4. chip'[c][CellOf(i)] \in Vals /\ shadow'[c][CellOf(i)] \in Vals
    BY <1>1, <2>1, <2>2, <2>3, CellStep
  <2> QED BY <1>2, <2>4 DEF Fits
<1>3. CASE i = Blink
  <2>1. L!DMBLNK \in L!Cells /\ FREQ \in L!Cells
    BY CellFacts
  <2>2. CASE w.ctrl = c /\ L!DMBLNK \in DOMAIN w.set
    <3>1. FREQ \notin DOMAIN w.set
      BY <1>1, <2>2, CellFacts DEF Blinks
    <3>2. \/ w.set[L!DMBLNK] = 0 /\ -1 \in Vals
          \/ w.set[L!DMBLNK] = 1 /\ chip[c][FREQ] \in Vals /\ shadow[c][FREQ] \in Vals
      BY <1>3, <2>2, BlinkSet DEF Fresh
    <3>3. /\ shadow'[c][L!DMBLNK] = w.set[L!DMBLNK] /\ chip'[c][L!DMBLNK] \in {chip[c][L!DMBLNK], w.set[L!DMBLNK]}
          /\ shadow'[c][FREQ] = shadow[c][FREQ] /\ chip'[c][FREQ] \in {chip[c][FREQ], shadow[c][FREQ]}
      BY <1>1, <2>1, <2>2, <3>1, CellStep
    <3> QED BY <1>3, <3>2, <3>3 DEF Fits
  <2>3. CASE w.ctrl = c /\ FREQ \in DOMAIN w.set
    <3>1. L!DMBLNK \notin DOMAIN w.set /\ w.set[FREQ] \in Vals
      BY <1>1, <1>3, <2>3, CellFacts DEF Blinks
    <3>2. /\ shadow'[c][FREQ] = w.set[FREQ] /\ chip'[c][FREQ] \in {chip[c][FREQ], w.set[FREQ]}
          /\ shadow'[c][L!DMBLNK] = shadow[c][L!DMBLNK] /\ chip'[c][L!DMBLNK] \in {chip[c][L!DMBLNK], shadow[c][L!DMBLNK]}
      BY <1>1, <2>1, <2>3, <3>1, CellStep
    <3> QED BY <1>3, <3>1, <3>2 DEF Fits
  <2>4. CASE w.ctrl # c \/ (L!DMBLNK \notin DOMAIN w.set /\ FREQ \notin DOMAIN w.set)
    <3>1. /\ shadow'[c][FREQ] = shadow[c][FREQ] /\ chip'[c][FREQ] \in {chip[c][FREQ], shadow[c][FREQ]}
          /\ shadow'[c][L!DMBLNK] = shadow[c][L!DMBLNK] /\ chip'[c][L!DMBLNK] \in {chip[c][L!DMBLNK], shadow[c][L!DMBLNK]}
      BY <1>1, <2>1, <2>4, CellStep
    <3> QED BY <1>3, <3>1 DEF Fits
  <2> QED BY <2>2, <2>3, <2>4
<1> QED BY <1>2, <1>3

(* A write that reaches the controller leaves the item as it was asked. *)
LEMMA FitsDone ==
  ASSUME LedTypeInv, NEW w, Right(w), w.set = L!Only(L!DMBLNK, 1) => Fresh(w.ctrl),
         L!Written(w, L!Registers(w)),
         NEW c \in L!Ctrl, NEW i \in L!Item, Sets(w, c, i)
  PROVE  Fits(i, chip'[c], shadow'[c], LedAsked(c, i))
<1>1. w.ctrl = c /\ CellOf(i) \in DOMAIN w.set /\ CellOf(i) \in L!Cells /\ DOMAIN w.set \subseteq L!Cells
  BY RightSets, CellFacts DEF Sets
<1>2. chip'[c][CellOf(i)] = w.set[CellOf(i)] /\ shadow'[c][CellOf(i)] = w.set[CellOf(i)]
  BY <1>1, CellStep
<1>3. CASE i # Blink
  BY <1>1, <1>2, <1>3, SetIsAsked DEF Fits
<1>4. CASE i = Blink
  <2>1. CellOf(i) = L!DMBLNK /\ FREQ \in L!Cells
    BY <1>4, CellFacts
  <2>2. FREQ \notin DOMAIN w.set
    BY <1>1, <2>1, RightSets, CellFacts DEF Blinks
  <2>3. \/ w.set[L!DMBLNK] = 0 /\ -1 \in LedAsked(c, i)
        \/ w.set[L!DMBLNK] = 1 /\ chip[c][FREQ] \in LedAsked(c, i) /\ shadow[c][FREQ] \in LedAsked(c, i)
    BY <1>1, <1>4, <2>1, BlinkSet DEF Fresh
  <2>4. shadow'[c][FREQ] = shadow[c][FREQ] /\ chip'[c][FREQ] \in {chip[c][FREQ], shadow[c][FREQ]}
    BY <1>1, <2>1, <2>2, CellStep
  <2> QED BY <1>2, <1>4, <2>1, <2>3, <2>4 DEF Fits
<1> QED BY <1>3, <1>4

LEMMA WrittenType ==
  ASSUME LedTypeInv, NEW w, w.ctrl \in L!Ctrl, NEW done, L!Written(w, done), setup' = setup
  PROVE  /\ (chip = [c \in L!Ctrl |-> chip[c]] /\ \A c \in L!Ctrl : IsRegs(chip[c]))'
         /\ (shadow = [c \in L!Ctrl |-> shadow[c]] /\ \A c \in L!Ctrl : IsRegs(shadow[c]))'
<1>1. /\ chip = [d \in L!Ctrl |-> chip[d]] /\ shadow = [d \in L!Ctrl |-> shadow[d]]
      /\ \A c \in L!Ctrl : IsRegs(chip[c]) /\ IsRegs(shadow[c])
  BY DEF LedTypeInv
<1> DEFINE regs == L!Changed(shadow[w.ctrl], w)
           now == [y \in L!Cells |-> IF y[1] \in done THEN regs[y] ELSE chip[w.ctrl][y]]
<1>2. /\ shadow' = [shadow EXCEPT ![w.ctrl] = regs] /\ chip' = [chip EXCEPT ![w.ctrl] = now]
  BY <1>1 DEF L!Written
<1>3. L!Ctrl' = L!Ctrl
  BY DEF L!Ctrl
<1>4. IsRegs(regs) /\ IsRegs(now)
  BY DEF IsRegs, L!Changed
<1> HIDE DEF regs, now
<1>5. \A c \in L!Ctrl : IsRegs(chip'[c]) /\ IsRegs(shadow'[c])
  <2> TAKE c \in L!Ctrl
  <2>1. shadow'[c] \in {shadow[c], regs} /\ chip'[c] \in {chip[c], now}
    BY <1>1, <1>2
  <2> QED BY <2>1, <1>1, <1>4
<1>6. chip' = [c \in L!Ctrl |-> chip'[c]] /\ shadow' = [c \in L!Ctrl |-> shadow'[c]]
  BY <1>1, <1>2
<1> QED BY <1>3, <1>5, <1>6 DEF IsRegs

LEMMA EmptyFacts == DOMAIN <<>> = {} /\ \A Elems : <<>> \in Seq(Elems)
OBVIOUS

LEMMA SelfSeq ==
  ASSUME NEW Elems, NEW s \in Seq(Elems)
  PROVE  IsSeqOf(s)
<1>1. s = [k \in 1 .. Len(s) |-> s[k]] /\ Len(s) \in Nat /\ DOMAIN s = 1 .. Len(s)
  BY ElementOfSeq
<1> DEFINE T == {s[k] : k \in DOMAIN s}
<1>2. s \in [1 .. Len(s) -> T]
  BY <1>1
<1> QED BY <1>1, <1>2 DEF IsSeqOf

(* The first write of a call may be made. *)
LEMMA FirstWrite ==
  ASSUME LedInv, todo # <<>>
  PROVE  /\ 1 \in DOMAIN todo /\ Head(todo) = todo[1] /\ Right(todo[1]) /\ todo[1].ctrl \in L!Ctrl
         /\ DOMAIN todo = 1 .. Len(todo) /\ Len(todo) \in Nat \ {0} /\ phase = "open"
         /\ todo[1].set = L!Only(L!DMBLNK, 1) => Fresh(todo[1].ctrl)
<1>1. todo \in Seq({todo[k] : k \in DOMAIN todo})
  BY DEF LedInv, TodoInv, IsSeqOf
<1>2. /\ DOMAIN todo = 1 .. Len(todo) /\ Len(todo) \in Nat \ {0} /\ Head(todo) = todo[1]
  BY <1>1, EmptySeq, ElementOfSeq, HeadTailProperties
<1>3. 1 \in DOMAIN todo
  BY <1>2
<1>4. phase = "open"
  BY DEF LedInv, LedTypeInv
<1> QED BY <1>2, <1>3, <1>4 DEF LedInv, TodoInv, Right

(* A write keeps the oscillators as they are, and what the items may show. *)
LEMMA OpenStep ==
  ASSUME LedInv, todo # <<>>, NEW done, L!Written(todo[1], done), NEW c \in L!Ctrl
  PROVE  /\ Alone(c) => chip'[c][L!OSC] = 0
         /\ shadow'[c][L!OSC] = 0
         /\ \A i \in L!Item : Fits(i, chip'[c], shadow'[c], shows[c][i] \cup LedAsked(c, i))
<1>1. /\ Right(todo[1]) /\ todo[1].ctrl \in L!Ctrl /\ phase = "open"
      /\ todo[1].set = L!Only(L!DMBLNK, 1) => Fresh(todo[1].ctrl)
  BY FirstWrite
<1>2. /\ \A i \in L!Item : Fits(i, chip[c], shadow[c], shows[c][i] \cup LedAsked(c, i))
      /\ Alone(c) => chip[c][L!OSC] = 0
      /\ shadow[c][L!OSC] = 0
  BY <1>1 DEF LedInv, OpenInv
<1>3. L!OSC \in L!Cells /\ L!OSC \notin DOMAIN todo[1].set /\ DOMAIN todo[1].set \subseteq L!Cells
  BY <1>1, RightSets, CellFacts
<1>4. LedTypeInv
  BY DEF LedInv
<1>5. shadow'[c][L!OSC] = shadow[c][L!OSC] /\ chip'[c][L!OSC] \in {chip[c][L!OSC], shadow[c][L!OSC]}
  BY <1>1, <1>3, <1>4, CellStep
<1>6. \A i \in L!Item : Fits(i, chip'[c], shadow'[c], shows[c][i] \cup LedAsked(c, i))
  BY <1>1, <1>2, <1>4, FitsStep
<1> QED BY <1>2, <1>5, <1>6

(* A write after which the call goes on. *)
LEMMA GoOnStep ==
  ASSUME LedInv, todo # <<>>, Len(todo) # 1, NEW done, L!Written(todo[1], done),
         todo' = Tail(todo), UNCHANGED <<setup, phase, nof_ctrl, leds, ledCalls, ledCall, shows>>,
         \A x \in DOMAIN ledCall.asks :
           \/ \E k \in DOMAIN todo \ {1} : Sets(todo[k], x[1], x[2])
           \/ Fits(x[2], chip'[x[1]], shadow'[x[1]], ledCall.asks[x]),
         Blinks(todo[1]) =>
           /\ chip'[todo[1].ctrl][FREQ] \in LedAsked(todo[1].ctrl, Blink)
           /\ shadow'[todo[1].ctrl][FREQ] \in LedAsked(todo[1].ctrl, Blink)
  PROVE  LedInv'
<1> DEFINE w == todo[1]
<1>1. /\ 1 \in DOMAIN todo /\ Head(todo) = w /\ Right(w) /\ w.ctrl \in L!Ctrl
      /\ DOMAIN todo = 1 .. Len(todo) /\ Len(todo) \in Nat \ {0} /\ phase = "open"
      /\ w.set = L!Only(L!DMBLNK, 1) => Fresh(w.ctrl)
  BY FirstWrite
<1>2. UNCHANGED <<setup, phase, nof_ctrl, leds, ledCalls>>
  OBVIOUS
<1>3. LedTypeInv
  BY DEF LedInv
<1>4. L!Ctrl' = L!Ctrl /\ \A c : Alone(c)' = Alone(c)
  BY <1>2 DEF L!Ctrl, Alone
<1>5. /\ (chip = [c \in L!Ctrl |-> chip[c]] /\ \A c \in L!Ctrl : IsRegs(chip[c]))'
      /\ (shadow = [c \in L!Ctrl |-> shadow[c]] /\ \A c \in L!Ctrl : IsRegs(shadow[c]))'
  BY <1>1, <1>2, <1>3, WrittenType
<1>6. \A c \in L!Ctrl :
        /\ Alone(c) => chip'[c][L!OSC] = 0
        /\ shadow'[c][L!OSC] = 0
        /\ \A i \in L!Item : Fits(i, chip'[c], shadow'[c], shows[c][i] \cup LedAsked(c, i))
  BY <1>2, OpenStep
<1>11. todo' = Tail(todo) /\ UNCHANGED <<ledCall, shows>>
  OBVIOUS
<1>12. /\ Tail(todo) \in Seq({todo[k] : k \in DOMAIN todo})
      /\ Len(todo') = Len(todo) - 1
      /\ \A k \in 1 .. Len(todo) - 1 : todo'[k] = todo[k + 1]
  BY <1>2, <1>11, HeadTailProperties DEF LedInv, TodoInv, IsSeqOf
<1>13. DOMAIN todo' = 1 .. Len(todo) - 1
  BY <1>11, <1>12, ElementOfSeq
<1>14. IsSeqOf(todo)'
  BY <1>11, <1>12, SelfSeq
<1>15. todo' # <<>>
  BY <1>1, <1>13, EmptyFacts
<1>16. \A u : Right(u)' = Right(u) /\ Blinks(u)' = Blinks(u) /\ \A c, i : LedAsked(c, i)' = LedAsked(c, i)
  BY <1>4, <1>11 DEF Right, Blinks, LedAsked
<1>17. LedTypeInv'
  BY <1>1, <1>2, <1>3, <1>4, <1>5, <1>11, <1>15 DEF LedTypeInv
<1>18. OpeningInv'
  BY <1>1, <1>2 DEF OpeningInv
<1>19. OpenInv'
  BY <1>4, <1>6, <1>11, <1>16 DEF OpenInv, Fits
<1>20. AsksInv'
  <2>1. \A k \in DOMAIN todo \ {1} : k - 1 \in DOMAIN todo' /\ todo'[k - 1] = todo[k]
    BY <1>1, <1>12, <1>13
  <2>2. \A u, c, i : Sets(u, c, i)' = Sets(u, c, i)
    BY DEF Sets
  <2> QED BY <1>4, <1>11, <2>1, <2>2 DEF AsksInv, LedInv, Fits
<1>21. ASSUME NEW k \in DOMAIN todo'
       PROVE  /\ Right(todo'[k])
              /\ Blinks(todo'[k]) =>
                   k + 1 \in DOMAIN todo' /\ todo'[k + 1] = [ctrl |-> todo'[k].ctrl, set |-> L!Only(L!DMBLNK, 1)]
              /\ todo'[k].set = L!Only(L!DMBLNK, 1) =>
                   IF k = 1 THEN chip'[todo'[k].ctrl][FREQ] \in LedAsked(todo'[k].ctrl, Blink)
                                 /\ shadow'[todo'[k].ctrl][FREQ] \in LedAsked(todo'[k].ctrl, Blink)
                   ELSE Blinks(todo'[k - 1]) /\ todo'[k - 1].ctrl = todo'[k].ctrl
  <2>1. k \in Nat /\ k + 1 \in DOMAIN todo /\ todo'[k] = todo[k + 1] /\ k + 1 # 1
    BY <1>1, <1>12, <1>13
  <2>2. /\ Right(todo[k + 1])
        /\ Blinks(todo[k + 1]) =>
             (k + 1) + 1 \in DOMAIN todo
             /\ todo[(k + 1) + 1] = [ctrl |-> todo[k + 1].ctrl, set |-> L!Only(L!DMBLNK, 1)]
        /\ todo[k + 1].set = L!Only(L!DMBLNK, 1) =>
             Blinks(todo[(k + 1) - 1]) /\ todo[(k + 1) - 1].ctrl = todo[k + 1].ctrl
    BY <2>1 DEF LedInv, TodoInv
  <2>3. Blinks(todo'[k]) =>
          k + 1 \in DOMAIN todo' /\ todo'[k + 1] = [ctrl |-> todo'[k].ctrl, set |-> L!Only(L!DMBLNK, 1)]
    BY <1>1, <1>12, <1>13, <2>1, <2>2
  <2>4. (k + 1) - 1 = k
    BY <2>1
  <2>5. CASE k = 1
    <3>1. Blinks(w) =>
            /\ chip'[w.ctrl][FREQ] \in LedAsked(w.ctrl, Blink)
            /\ shadow'[w.ctrl][FREQ] \in LedAsked(w.ctrl, Blink)
      OBVIOUS
    <3> QED BY <2>1, <2>2, <2>3, <2>4, <2>5, <3>1
  <2>6. CASE k # 1
    <3>1. k - 1 \in 1 .. Len(todo) - 1 /\ (k - 1) + 1 = k
      BY <1>1, <1>13, <2>6
    <3>2. todo'[k - 1] = todo[k]
      BY <1>12, <3>1
    <3> QED BY <2>1, <2>2, <2>3, <2>4, <2>6, <3>2
  <2> QED BY <2>5, <2>6
<1>22. TodoInv'
  <2>1. \A c : Fresh(c)' = (/\ chip'[c][FREQ] \in LedAsked(c, Blink)
                            /\ shadow'[c][FREQ] \in LedAsked(c, Blink))
    BY <1>16 DEF Fresh
  <2> QED BY <1>14, <1>16, <1>21, <2>1 DEF TodoInv
<1> QED BY <1>17, <1>18, <1>19, <1>20, <1>22 DEF LedInv

LEMMA WriteOkStep ==
  ASSUME LedInv, L!WriteOk
  PROVE  LedInv'
<1> DEFINE w == todo[1]
<1>1. /\ 1 \in DOMAIN todo /\ Head(todo) = w /\ Right(w) /\ w.ctrl \in L!Ctrl
      /\ DOMAIN todo = 1 .. Len(todo) /\ Len(todo) \in Nat \ {0} /\ phase = "open"
      /\ w.set = L!Only(L!DMBLNK, 1) => Fresh(w.ctrl)
  BY FirstWrite DEF L!WriteOk
<1>2. /\ todo # <<>> /\ L!Written(w, L!Registers(w)) /\ UNCHANGED <<setup, phase, nof_ctrl, leds, ledCalls>>
      /\ IF Len(todo) = 1 THEN L!Ends(FALSE) ELSE todo' = Tail(todo) /\ UNCHANGED <<ledCall, shows>>
  BY <1>1 DEF L!WriteOk
<1>3. LedTypeInv
  BY DEF LedInv
<1>4. L!Ctrl' = L!Ctrl /\ \A c : Alone(c)' = Alone(c)
  BY <1>2 DEF L!Ctrl, Alone
<1>5. /\ (chip = [c \in L!Ctrl |-> chip[c]] /\ \A c \in L!Ctrl : IsRegs(chip[c]))'
      /\ (shadow = [c \in L!Ctrl |-> shadow[c]] /\ \A c \in L!Ctrl : IsRegs(shadow[c]))'
  BY <1>1, <1>2, <1>3, WrittenType
<1>6. \A c \in L!Ctrl :
        /\ Alone(c) => chip'[c][L!OSC] = 0
        /\ shadow'[c][L!OSC] = 0
        /\ \A i \in L!Item : Fits(i, chip'[c], shadow'[c], shows[c][i] \cup LedAsked(c, i))
  BY <1>2, OpenStep
<1>7. \A x \in DOMAIN ledCall.asks : x[1] \in L!Ctrl /\ x[2] \in L!Item /\ x = <<x[1], x[2]>>
  BY DEF LedInv, AsksInv
<1>8. \A x \in DOMAIN ledCall.asks :
        \/ \E k \in DOMAIN todo \ {1} : Sets(todo[k], x[1], x[2])
        \/ Fits(x[2], chip'[x[1]], shadow'[x[1]], ledCall.asks[x])
  <2> TAKE x \in DOMAIN ledCall.asks
  <2>1. /\ x[1] \in L!Ctrl /\ x[2] \in L!Item /\ LedAsked(x[1], x[2]) = ledCall.asks[x]
    BY <1>7 DEF LedAsked
  <2>2. CASE Sets(w, x[1], x[2])
    BY <1>1, <1>2, <1>3, <2>1, <2>2, FitsDone
  <2>3. CASE Fits(x[2], chip[x[1]], shadow[x[1]], ledCall.asks[x])
    BY <1>1, <1>2, <1>3, <2>1, <2>3, FitsStep
  <2> QED BY <2>2, <2>3 DEF LedInv, AsksInv
<1>9. CASE Len(todo) = 1
  <2>1. L!Ends(FALSE)
    BY <1>2, <1>9
  <2>0. DOMAIN todo \ {1} = {}
    BY <1>1, <1>9
  <2>2. todo' = <<>> /\ ledCall' = L!NoCall
    BY <2>1 DEF L!Ends
  <2>3. shows' = [c \in L!Ctrl |-> shows'[c]] /\ \A c \in L!Ctrl : DOMAIN shows'[c] = L!Item
    BY <1>3, <2>1 DEF L!Ends, LedTypeInv
  <2>4. LedTypeInv'
    BY <1>2, <1>3, <1>4, <1>5, <2>2, <2>3 DEF LedTypeInv
  <2>5. OpeningInv'
    BY <1>1, <1>2 DEF OpeningInv
  <2>6. TodoInv'
    BY <2>2, EmptyFacts DEF TodoInv, IsSeqOf
  <2>7. AsksInv'
    BY <2>2, EmptyFacts DEF AsksInv, L!NoCall
  <2>8. ASSUME NEW c \in L!Ctrl, NEW i \in L!Item
        PROVE  Fits(i, chip'[c], shadow'[c], shows'[c][i])
    <3>1. shows'[c][i] = IF <<c, i>> \notin DOMAIN ledCall.asks THEN shows[c][i] ELSE ledCall.asks[<<c, i>>]
      BY <1>3, <2>1 DEF L!Ends, LedTypeInv
    <3>2. CASE <<c, i>> \notin DOMAIN ledCall.asks
      <4>1. LedAsked(c, i) = {}
        BY <3>2 DEF LedAsked
      <4> QED BY <1>6, <3>1, <3>2, <4>1
    <3>3. CASE <<c, i>> \in DOMAIN ledCall.asks
      BY <1>8, <2>0, <3>1, <3>3
    <3> QED BY <3>2, <3>3
  <2>9. \A c, i : LedAsked(c, i)' = {}
    BY <2>2, EmptyFacts DEF LedAsked, L!NoCall
  <2>10. OpenInv'
    BY <1>4, <1>6, <2>8, <2>9 DEF OpenInv, Fits
  <2> QED BY <2>4, <2>5, <2>6, <2>7, <2>10 DEF LedInv
<1>10. CASE Len(todo) # 1
  <2>1. todo' = Tail(todo) /\ UNCHANGED <<ledCall, shows>>
    BY <1>2, <1>10
  <2>2. Blinks(w) =>
          /\ chip'[w.ctrl][FREQ] \in LedAsked(w.ctrl, Blink)
          /\ shadow'[w.ctrl][FREQ] \in LedAsked(w.ctrl, Blink)
    <3>1. Blinks(w) => FREQ \in DOMAIN w.set /\ w.set[FREQ] \in LedAsked(w.ctrl, Blink)
      BY DEF Blinks
    <3>2. FREQ \in L!Cells /\ DOMAIN w.set \subseteq L!Cells
      BY <1>1, CellFacts, RightSets
    <3> QED BY <1>1, <1>2, <1>3, <3>1, <3>2, CellStep
  <2>3. UNCHANGED <<setup, phase, nof_ctrl, leds, ledCalls, ledCall, shows>>
    BY <1>2, <2>1
  <2> QED BY <1>2, <1>8, <1>10, <2>1, <2>2, <2>3, GoOnStep
<1> QED BY <1>9, <1>10

LEMMA FrontType ==
  ASSUME NEW Elems, NEW s \in Seq(Elems)
  PROVE  L!Front(s) \in Seq(Elems)
<1>1. CASE s = <<>>
  BY <1>1, EmptyFacts, SubSeqProperties DEF L!Front
<1>2. CASE s # <<>>
  BY <1>2, EmptySeq, ElementOfSeq, SubSeqProperties DEF L!Front
<1> QED BY <1>1, <1>2

(* A write that fails and ends the call. *)
LEMMA WriteEndsStep ==
  ASSUME LedInv, todo # <<>>, NEW done, L!Written(todo[1], done), L!Ends(TRUE),
         UNCHANGED <<setup, phase, nof_ctrl, ledCalls>>, leds' \in {leds, L!Front(leds)}
  PROVE  LedInv'
<1> DEFINE w == todo[1]
<1>1. /\ Head(todo) = w /\ Right(w) /\ w.ctrl \in L!Ctrl /\ phase = "open"
      /\ w.set = L!Only(L!DMBLNK, 1) => Fresh(w.ctrl)
  BY FirstWrite
<1>2. L!Written(w, done)
  OBVIOUS
<1>3. /\ todo # <<>> /\ UNCHANGED <<setup, phase, nof_ctrl, ledCalls>> /\ L!Ends(TRUE)
      /\ leds' \in {leds, L!Front(leds)}
  OBVIOUS
<1>4. LedTypeInv
  BY DEF LedInv
<1>5. L!Ctrl' = L!Ctrl /\ \A c : Alone(c)' = Alone(c)
  BY <1>3 DEF L!Ctrl, Alone
<1>6. /\ (chip = [c \in L!Ctrl |-> chip[c]] /\ \A c \in L!Ctrl : IsRegs(chip[c]))'
      /\ (shadow = [c \in L!Ctrl |-> shadow[c]] /\ \A c \in L!Ctrl : IsRegs(shadow[c]))'
  BY <1>1, <1>2, <1>3, <1>4, WrittenType
<1>7. \A c \in L!Ctrl :
        /\ Alone(c) => chip'[c][L!OSC] = 0
        /\ shadow'[c][L!OSC] = 0
        /\ \A i \in L!Item : Fits(i, chip'[c], shadow'[c], shows[c][i] \cup LedAsked(c, i))
  BY <1>2, <1>3, OpenStep
<1>8. todo' = <<>> /\ ledCall' = L!NoCall
  BY <1>3 DEF L!Ends
<1>9. shows' = [c \in L!Ctrl |-> shows'[c]] /\ \A c \in L!Ctrl : DOMAIN shows'[c] = L!Item
  BY <1>3, <1>4 DEF L!Ends, LedTypeInv
<1>10. leds' \in Seq({l \in Led : \A i \in 1 .. 3 : l[i] \in L!Ctrl \X Out})
  BY <1>3, <1>4, FrontType DEF LedTypeInv
<1>11. LedTypeInv'
  BY <1>3, <1>4, <1>5, <1>6, <1>8, <1>9, <1>10 DEF LedTypeInv
<1>12. OpeningInv'
  BY <1>1, <1>3 DEF OpeningInv
<1>13. TodoInv'
  BY <1>8, EmptyFacts DEF TodoInv, IsSeqOf
<1>14. AsksInv'
  BY <1>8, EmptyFacts DEF AsksInv, L!NoCall
<1>15. ASSUME NEW c \in L!Ctrl, NEW i \in L!Item
       PROVE  shows'[c][i] = shows[c][i] \cup LedAsked(c, i)
  BY <1>3, <1>4 DEF L!Ends, LedTypeInv, LedAsked
<1>16. \A c, i : LedAsked(c, i)' = {}
  BY <1>8, EmptyFacts DEF LedAsked, L!NoCall
<1>17. OpenInv'
  BY <1>5, <1>7, <1>15, <1>16 DEF OpenInv, Fits
<1> QED BY <1>11, <1>12, <1>13, <1>14, <1>17 DEF LedInv

LEMMA WriteFailsStep ==
  ASSUME LedInv, L!WriteFails
  PROVE  LedInv'
<1> DEFINE w == todo[1]
<1>1. /\ todo # <<>> /\ Head(todo) = w /\ Right(w) /\ w.ctrl \in L!Ctrl
  BY FirstWrite DEF L!WriteFails
<1>2. PICK done : L!Written(w, done)
  BY <1>1 DEF L!WriteFails
<1>3. UNCHANGED <<setup, phase, nof_ctrl, ledCalls>>
  BY DEF L!WriteFails
<1>4. ASSUME L!GoesOn(w), Len(todo) # 1
      PROVE  LedInv'
  <2>1. todo' = Tail(todo) /\ UNCHANGED <<ledCall, shows, leds>>
    BY <1>1, <1>4 DEF L!WriteFails
  <2>2. DOMAIN w.set = {L!EFCLR}
    BY <1>4 DEF L!GoesOn, L!Only
  <2>3. ~ Blinks(w)
    BY <2>2, CellFacts DEF Blinks
  <2>4. \A i \in L!Item : CellOf(i) \notin DOMAIN w.set
    BY <2>2, CellFacts
  <2>5. \A x \in DOMAIN ledCall.asks :
          \/ \E k \in DOMAIN todo \ {1} : Sets(todo[k], x[1], x[2])
          \/ Fits(x[2], chip'[x[1]], shadow'[x[1]], ledCall.asks[x])
    <3> TAKE x \in DOMAIN ledCall.asks
    <3>1. x[1] \in L!Ctrl /\ x[2] \in L!Item /\ x = <<x[1], x[2]>>
      BY DEF LedInv, AsksInv
    <3>2. LedAsked(x[1], x[2]) = ledCall.asks[x]
      BY <3>1 DEF LedAsked
    <3>3. ~ Sets(w, x[1], x[2])
      BY <2>4, <3>1 DEF Sets
    <3>4. CASE Fits(x[2], chip[x[1]], shadow[x[1]], ledCall.asks[x])
      BY <1>1, <1>2, <3>1, <3>2, <3>4, FitsStep, FirstWrite DEF LedInv
    <3> QED BY <3>3, <3>4 DEF LedInv, AsksInv
  <2>6. UNCHANGED <<setup, phase, nof_ctrl, leds, ledCalls, ledCall, shows>>
    BY <1>3, <2>1
  <2> QED BY <1>1, <1>2, <1>4, <2>1, <2>3, <2>5, <2>6, GoOnStep
<1>5. ASSUME ~ (L!GoesOn(w) /\ Len(todo) # 1)
      PROVE  LedInv'
  <2>1. L!Ends(TRUE) /\ leds' \in {leds, L!Front(leds)}
    BY <1>1, <1>5 DEF L!WriteFails
  <2> QED BY <1>1, <1>2, <1>3, <2>1, WriteEndsStep
<1> QED BY <1>4, <1>5

-----------------------------------------------------------------------------
(* The calls.  What a call must be to keep the invariant: its writes are   *)
(* right, and every item that is asked has one.                            *)
Proper(writes, asked) ==
  /\ writes # <<>> /\ writes \in Seq({writes[k] : k \in DOMAIN writes})
  /\ DOMAIN asked \subseteq L!Ctrl \X L!Item
  /\ \A x \in DOMAIN asked : \E k \in DOMAIN writes : Sets(writes[k], x[1], x[2])

(* The writes are right, and a blinker sets its period and then the bit.   *)
Orderly(writes) ==
  \A k \in DOMAIN writes :
    /\ Right(writes[k])
    /\ Blinks(writes[k]) =>
         k + 1 \in DOMAIN writes /\ writes[k + 1] = [ctrl |-> writes[k].ctrl, set |-> L!Only(L!DMBLNK, 1)]
    /\ writes[k].set = L!Only(L!DMBLNK, 1) =>
         k # 1 /\ Blinks(writes[k - 1]) /\ writes[k - 1].ctrl = writes[k].ctrl

LEMMA CallStep ==
  ASSUME LedInv, NEW writes, NEW asked, NEW adds, L!Call(writes, asked, adds), Proper(writes, asked),
         leds' \in Seq({l \in Led : \A i \in 1 .. 3 : l[i] \in L!Ctrl \X Out}),
         Orderly(writes)'
  PROVE  LedInv'
<1>1. /\ todo = <<>> /\ phase = "open" /\ todo' = writes /\ ledCall' = [adds |-> adds, asks |-> asked]
      /\ UNCHANGED <<setup, chip, shadow, phase, nof_ctrl, shows>>
  BY DEF L!Call, L!AtRest
<1>2. LedTypeInv /\ ledCall = L!NoCall
  BY <1>1 DEF LedInv, LedTypeInv
<1>3. L!Ctrl' = L!Ctrl /\ \A c : Alone(c)' = Alone(c)
  BY <1>1 DEF L!Ctrl, Alone
<1>4. \A c, i : LedAsked(c, i) = {}
  BY <1>2, EmptyFacts DEF LedAsked, L!NoCall
<1>5. LedTypeInv'
  BY <1>1, <1>2, <1>3 DEF LedTypeInv, Proper
<1>6. OpeningInv'
  BY <1>1 DEF OpeningInv
<1>7. TodoInv'
  <2>1. IsSeqOf(todo)'
    BY <1>1 DEF Proper, IsSeqOf
  <2>2. ASSUME NEW k \in DOMAIN todo'
        PROVE  /\ Right(todo[k])'
               /\ (Blinks(todo[k]) =>
                    k + 1 \in DOMAIN todo /\ todo[k + 1] = [ctrl |-> todo[k].ctrl, set |-> L!Only(L!DMBLNK, 1)])'
               /\ (todo[k].set = L!Only(L!DMBLNK, 1) =>
                    k # 1 /\ Blinks(todo[k - 1]) /\ todo[k - 1].ctrl = todo[k].ctrl)'
    BY <1>1 DEF Orderly
  <2> QED BY <2>1, <2>2 DEF TodoInv
<1>8. AsksInv'
  BY <1>1, <1>3 DEF AsksInv, Proper, Sets
<1>9. OpenInv'
  <2> SUFFICES ASSUME NEW c \in L!Ctrl
               PROVE  /\ \A i \in L!Item : Fits(i, chip[c], shadow[c], shows[c][i] \cup LedAsked(c, i)')
                      /\ Alone(c) => chip[c][L!OSC] = 0
                      /\ shadow[c][L!OSC] = 0
    BY <1>1, <1>3 DEF OpenInv, Fits
  <2>1. /\ \A i \in L!Item : Fits(i, chip[c], shadow[c], shows[c][i] \cup LedAsked(c, i))
        /\ Alone(c) => chip[c][L!OSC] = 0
        /\ shadow[c][L!OSC] = 0
    BY <1>1 DEF LedInv, OpenInv
  <2>2. ASSUME NEW i \in L!Item
        PROVE  Fits(i, chip[c], shadow[c], shows[c][i] \cup LedAsked(c, i)')
    BY <1>4, <2>1 DEF Fits
  <2> QED BY <2>1, <2>2
<1> QED BY <1>5, <1>6, <1>7, <1>8, <1>9 DEF LedInv

LEMMA FunIsSeq ==
  ASSUME NEW Elems, NEW n \in Nat, NEW f \in [1 .. n -> Elems]
  PROVE  f \in Seq(Elems)
OBVIOUS

(* A call that writes the pins of some leds, one after the other. *)
LEMMA PinsStep ==
  ASSUME LedInv, NEW pins, NEW n \in Nat \ {0}, DOMAIN pins = 1 .. n,
         \A k \in 1 .. n : pins[k] \in L!Ctrl \X Out,
         NEW name \in {"mode", "pwm"}, NEW v, DOMAIN v = 1 .. n, NEW adds, NEW writes,
         writes = [k \in DOMAIN pins |->
                     [ctrl |-> pins[k][1], set |-> L!Only(CellOf(<<name, pins[k][2]>>), v[k])]],
         L!Call(writes, L!Asks(pins, name, v), adds),
         leds' \in Seq({l \in Led : \A i \in 1 .. 3 : l[i] \in L!Ctrl \X Out})
  PROVE  LedInv'
<1> DEFINE asked == L!Asks(pins, name, v)
           Key(k) == <<pins[k][1], <<name, pins[k][2]>>>>
<1>1. L!Ctrl' = L!Ctrl /\ ledCall'.asks = asked
  BY DEF L!Call, L!Ctrl
<1>2. DOMAIN asked = {Key(k) : k \in 1 .. n} /\ \A k \in 1 .. n : v[k] \in asked[Key(k)]
  BY DEF L!Asks
<1>3. \A k \in 1 .. n : <<name, pins[k][2]>> \in L!Item \ {Blink} /\ pins[k][1] \in L!Ctrl
  BY DEF L!Item, Blink
<1>4. /\ DOMAIN writes = 1 .. n
      /\ \A k \in 1 .. n :
           /\ writes[k].ctrl = pins[k][1]
           /\ writes[k].set = L!Only(CellOf(<<name, pins[k][2]>>), v[k])
  OBVIOUS
<1>5. writes \in Seq({writes[k] : k \in DOMAIN writes}) /\ writes # <<>>
  <2> DEFINE T == {writes[k] : k \in DOMAIN writes}
  <2>1. writes \in [1 .. n -> T]
    BY <1>4
  <2>2. writes \in Seq(T)
    BY <2>1, FunIsSeq
  <2>3. 1 \in DOMAIN writes
    BY <1>4
  <2> QED BY <2>2, <2>3, EmptyFacts
<1> HIDE DEF asked
<1>6. Proper(writes, asked)
  <2>1. DOMAIN asked \subseteq L!Ctrl \X L!Item
    BY <1>2, <1>3
  <2>2. ASSUME NEW x \in DOMAIN asked PROVE \E k \in DOMAIN writes : Sets(writes[k], x[1], x[2])
    <3>1. PICK k \in 1 .. n : x = Key(k)
      BY <1>2
    <3>2. Sets(writes[k], x[1], x[2])
      BY <1>4, <3>1 DEF Sets, L!Only
    <3> QED BY <1>4, <3>2
  <2> QED BY <1>5, <2>1, <2>2 DEF Proper
<1>7. ASSUME NEW k \in DOMAIN writes
      PROVE  Right(writes[k])' /\ ~ Blinks(writes[k])' /\ writes[k].set # L!Only(L!DMBLNK, 1)
  <2> DEFINE i == <<name, pins[k][2]>>
  <2>1. i \in L!Item \ {Blink} /\ writes[k].ctrl \in L!Ctrl /\ writes[k].set = L!Only(CellOf(i), v[k])
    BY <1>3, <1>4
  <2>2. v[k] \in LedAsked(writes[k].ctrl, i)'
    BY <1>1, <1>2, <1>4 DEF LedAsked
  <2>3. CellOf(i) \notin {L!DMBLNK, FREQ} /\ DOMAIN writes[k].set = {CellOf(i)}
    BY <2>1, CellFacts DEF L!Only
  <2>4. Right(writes[k])'
    BY <1>1, <2>1, <2>2 DEF Right
  <2>5. ~ Blinks(writes[k])'
    BY <2>3 DEF Blinks
  <2>6. writes[k].set # L!Only(L!DMBLNK, 1)
    BY <2>3 DEF L!Only
  <2> QED BY <2>4, <2>5, <2>6
<1>8. Orderly(writes)'
  BY <1>7 DEF Orderly
<1> QED BY <1>6, <1>8, CallStep DEF asked

(* Some leds of the device: each of their pins is one of a controller. *)
LEMMA LedFacts ==
  ASSUME LedInv, NEW k \in DOMAIN leds
  PROVE  leds[k] \in Led /\ DOMAIN leds[k] = 1 .. 3 /\ \A i \in 1 .. 3 : leds[k][i] \in L!Ctrl \X Out
<1>1. leds \in Seq({l \in Led : \A i \in 1 .. 3 : l[i] \in L!Ctrl \X Out})
  BY DEF LedInv, LedTypeInv
<1>2. leds[k] \in {l \in Led : \A i \in 1 .. 3 : l[i] \in L!Ctrl \X Out}
  BY <1>1, ElementOfSeq
<1> QED BY <1>2, Assumptions DEF L!LedRgbAssumption

LEMMA AddLedStep ==
  ASSUME LedInv, NEW led \in Led, NEW mode, L!iLedRgbAddLed(led, mode)
  PROVE  LedInv'
<1>1. LedTypeInv /\ Len(setup) \in Nat \ {0} /\ L!Ctrl = 1 .. Len(setup)
  BY SetupFacts DEF LedInv
<1>2. led \in [1 .. 3 -> Nat \X Nat] /\ \A i \in 1 .. 3 : led[i] \in L!Ctrl \X Out
  BY <1>1, Assumptions DEF L!LedRgbAssumption, L!iLedRgbAddLed
<1>3. leds' \in Seq({l \in Led : \A i \in 1 .. 3 : l[i] \in L!Ctrl \X Out})
  BY <1>1, <1>2, AppendProperties DEF LedTypeInv, L!iLedRgbAddLed
<1> DEFINE v == [k \in 1 .. 3 |-> mode]
<1>4. DOMAIN led = 1 .. 3 /\ DOMAIN v = 1 .. 3
  BY <1>2
<1>5. L!iSetMode(led, mode) =
        [k \in DOMAIN led |-> [ctrl |-> led[k][1], set |-> L!Only(CellOf(<<"mode", led[k][2]>>), v[k])]]
  BY <1>4 DEF L!iSetMode, L!iSetPinMode, CellOf
<1>6. L!Call(L!iSetMode(led, mode), L!Asks(led, "mode", v), TRUE)
  BY DEF L!iLedRgbAddLed
<1> HIDE DEF v
<1>7. PICK n \in Nat \ {0} : n = 3
  OBVIOUS
<1>8. DOMAIN led = 1 .. n /\ DOMAIN v = 1 .. n /\ \A k \in 1 .. n : led[k] \in L!Ctrl \X Out
  BY <1>2, <1>4, <1>7
<1> QED BY <1>3, <1>5, <1>6, <1>8, PinsStep

(* The pins of a group are pins of controllers. *)
LEMMA GroupFacts ==
  ASSUME LedInv, NEW g \in L!Groups
  PROVE  \E n \in Nat \ {0} : DOMAIN L!Pins(g) = 1 .. n /\ \A k \in 1 .. n : L!Pins(g)[k] \in L!Ctrl \X Out
<1>1. PICK m \in DOMAIN leds : g \in [1 .. m -> DOMAIN leds]
  BY DEF L!Groups
<1>2. leds \in Seq({l \in Led : \A i \in 1 .. 3 : l[i] \in L!Ctrl \X Out})
  BY DEF LedInv, LedTypeInv
<1>3. m \in Nat \ {0}
  BY <1>1, <1>2, ElementOfSeq
<1>4. Len(g) = m
  BY <1>1, <1>3
<1>5. 3 * m \in Nat \ {0} /\ DOMAIN L!Pins(g) = 1 .. 3 * m
  BY <1>3, <1>4 DEF L!Pins
<1>6. ASSUME NEW k \in 1 .. 3 * m PROVE L!Pins(g)[k] \in L!Ctrl \X Out
  <2>1. (k + 2) \div 3 \in 1 .. m /\ ((k + 2) % 3) + 1 \in 1 .. 3
    BY <1>3
  <2>2. g[(k + 2) \div 3] \in DOMAIN leds
    BY <1>1, <2>1
  <2>3. leds[g[(k + 2) \div 3]][((k + 2) % 3) + 1] \in L!Ctrl \X Out
    BY <2>1, <2>2, LedFacts
  <2> QED BY <1>4, <2>3 DEF L!Pins
<1> QED BY <1>5, <1>6

LEMMA GrpModeStep ==
  ASSUME LedInv, NEW g \in L!Groups, NEW mode, L!iLedRgbSetGrpMode(g, mode)
  PROVE  LedInv'
<1>1. PICK pins : pins = L!Pins(g)
  OBVIOUS
<1>2. PICK n \in Nat \ {0} : DOMAIN pins = 1 .. n /\ \A k \in 1 .. n : pins[k] \in L!Ctrl \X Out
  BY <1>1, GroupFacts
<1>3. PICK v : v = [k \in DOMAIN pins |-> mode]
  OBVIOUS
<1>4. L!iSetMode(pins, mode) =
        [k \in DOMAIN pins |-> [ctrl |-> pins[k][1], set |-> L!Only(CellOf(<<"mode", pins[k][2]>>), v[k])]]
  BY <1>3 DEF L!iSetMode, L!iSetPinMode, CellOf
<1>5. L!Call(L!iSetMode(pins, mode), L!Asks(pins, "mode", v), FALSE) /\ leds' = leds
  BY <1>1, <1>3 DEF L!iLedRgbSetGrpMode
<1>6. leds' \in Seq({l \in Led : \A i \in 1 .. 3 : l[i] \in L!Ctrl \X Out})
  BY <1>5 DEF LedInv, LedTypeInv
<1>7. DOMAIN v = 1 .. n
  BY <1>2, <1>3
<1> QED BY <1>2, <1>4, <1>5, <1>6, <1>7, PinsStep

LEMMA GrpColorStep ==
  ASSUME LedInv, NEW g \in L!Groups, NEW color, L!iLedRgbSetGrpColor(g, color)
  PROVE  LedInv'
<1>1. PICK pins : pins = L!Pins(g)
  OBVIOUS
<1>2. PICK n \in Nat \ {0} : DOMAIN pins = 1 .. n /\ \A k \in 1 .. n : pins[k] \in L!Ctrl \X Out
  BY <1>1, GroupFacts
<1>3. PICK v : v = [k \in DOMAIN pins |-> color[((k + 2) % 3) + 1]]
  OBVIOUS
<1>4. L!iSetColor(pins, color) =
        [k \in DOMAIN pins |-> [ctrl |-> pins[k][1], set |-> L!Only(CellOf(<<"pwm", pins[k][2]>>), v[k])]]
  BY <1>3 DEF L!iSetColor, L!iSetPinPwm, CellOf
<1>5. L!Call(L!iSetColor(pins, color), L!Asks(pins, "pwm", v), FALSE) /\ leds' = leds
  BY <1>1, <1>3 DEF L!iLedRgbSetGrpColor
<1>6. leds' \in Seq({l \in Led : \A i \in 1 .. 3 : l[i] \in L!Ctrl \X Out})
  BY <1>5 DEF LedInv, LedTypeInv
<1>7. DOMAIN v = 1 .. n
  BY <1>2, <1>3
<1> QED BY <1>2, <1>4, <1>5, <1>6, <1>7, PinsStep

LEMMA ShortSequences ==
  \A x, y, z : /\ <<x>> \o <<>> = <<x>> /\ <<x>> \o <<y>> = <<x, y>>
              /\ <<x, y>> \o <<>> = <<x, y>> /\ <<x, y>> \o <<z>> = <<x, y, z>>
<1> SUFFICES ASSUME NEW x, NEW y, NEW z
             PROVE  /\ <<x>> \o <<>> = <<x>> /\ <<x>> \o <<y>> = <<x, y>>
                    /\ <<x, y>> \o <<>> = <<x, y>> /\ <<x, y>> \o <<z>> = <<x, y, z>>
  OBVIOUS
<1> DEFINE Elems == {x, y, z}
<1>1. /\ <<x>> \in Seq(Elems) /\ <<y>> \in Seq(Elems) /\ <<z>> \in Seq(Elems)
      /\ <<x, y>> \in Seq(Elems) /\ <<x, y, z>> \in Seq(Elems)
  OBVIOUS
<1>2. /\ Len(<<x>>) = 1 /\ Len(<<y>>) = 1 /\ Len(<<z>>) = 1 /\ Len(<<x, y>>) = 2 /\ Len(<<x, y, z>>) = 3
      /\ <<x>>[1] = x /\ <<y>>[1] = y /\ <<z>>[1] = z /\ <<x, y>>[1] = x /\ <<x, y>>[2] = y
      /\ <<x, y, z>>[1] = x /\ <<x, y, z>>[2] = y /\ <<x, y, z>>[3] = z
  OBVIOUS
<1>3. <<x>> \o <<>> = <<x>> /\ <<x, y>> \o <<>> = <<x, y>>
  BY <1>1, ConcatEmptySeq
<1> HIDE DEF Elems
<1>4. /\ <<x>> \o <<y>> \in Seq(Elems) /\ Len(<<x>> \o <<y>>) = 2
      /\ (<<x>> \o <<y>>)[1] = x /\ (<<x>> \o <<y>>)[2] = y
  BY <1>1, <1>2, ConcatProperties
<1>5. /\ <<x, y>> \o <<z>> \in Seq(Elems) /\ Len(<<x, y>> \o <<z>>) = 3
      /\ (<<x, y>> \o <<z>>)[1] = x /\ (<<x, y>> \o <<z>>)[2] = y /\ (<<x, y>> \o <<z>>)[3] = z
  BY <1>1, <1>2, ConcatProperties
<1>6. <<x>> \o <<y>> = <<x, y>>
  <2>1. \A i \in 1 .. 2 : (<<x>> \o <<y>>)[i] = <<x, y>>[i]
    BY <1>2, <1>4
  <2> QED BY <1>1, <1>2, <1>4, <2>1, SeqEqual
<1>7. <<x, y>> \o <<z>> = <<x, y, z>>
  <2>1. \A i \in 1 .. 3 : (<<x, y>> \o <<z>>)[i] = <<x, y, z>>[i]
    BY <1>2, <1>5
  <2> QED BY <1>1, <1>2, <1>5, <2>1, SeqEqual
<1> QED BY <1>3, <1>6, <1>7

(* cs are the controllers of the led, each at least once. *)
OfLed(cs, led) ==
  /\ Len(cs) \in Nat \ {0}
  /\ \A j \in 1 .. Len(cs) : cs[j] \in {led[i][1] : i \in 1 .. 3}
  /\ \A i \in 1 .. 3 : \E j \in 1 .. Len(cs) : cs[j] = led[i][1]

LEMMA ControllersFacts ==
  ASSUME NEW led
  PROVE  OfLed(L!Controllers(led), led)
<1> SUFFICES
         /\ L!Controllers(led) \in Seq({led[i][1] : i \in 1 .. 3}) /\ Len(L!Controllers(led)) \in Nat \ {0}
         /\ \A i \in 1 .. 3 : \E k \in 1 .. Len(L!Controllers(led)) : L!Controllers(led)[k] = led[i][1]
  <2> HIDE DEF L!Controllers
  <2> QED BY ElementOfSeq DEF OfLed
<1> DEFINE c == [i \in 1 .. 3 |-> led[i][1]]
           T == {led[i][1] : i \in 1 .. 3}
           b == IF c[2] = c[1] THEN <<>> ELSE <<c[2]>>
           d == IF c[3] \in {c[1], c[2]} THEN <<>> ELSE <<c[3]>>
<1>1. c[1] = led[1][1] /\ c[2] = led[2][1] /\ c[3] = led[3][1] /\ {c[1], c[2], c[3]} \subseteq T
  OBVIOUS
<1>2. L!Controllers(led) = <<c[1]>> \o b \o d
  BY DEF L!Controllers
<1> HIDE DEF c, T
<1>3. /\ \A i \in 1 .. 3 : led[i][1] \in {c[1], c[2], c[3]}
  BY <1>1
<1>4. CASE c[2] = c[1] /\ c[3] \in {c[1], c[2]}
  <2>1. L!Controllers(led) = <<c[1]>>
    BY <1>2, <1>4
  <2>2. <<c[1]>> \in Seq(T) /\ Len(<<c[1]>>) = 1 /\ <<c[1]>>[1] = c[1]
    BY <1>1
  <2> QED BY <1>3, <1>4, <2>1, <2>2 DEF T
<1>5. CASE c[2] = c[1] /\ c[3] \notin {c[1], c[2]}
  <2>1. L!Controllers(led) = <<c[1], c[3]>>
    BY <1>2, <1>5, ShortSequences
  <2>2. /\ <<c[1], c[3]>> \in Seq(T) /\ Len(<<c[1], c[3]>>) = 2
        /\ <<c[1], c[3]>>[1] = c[1] /\ <<c[1], c[3]>>[2] = c[3]
    BY <1>1
  <2> QED BY <1>3, <1>5, <2>1, <2>2 DEF T
<1>6. CASE c[2] # c[1] /\ c[3] \in {c[1], c[2]}
  <2>1. L!Controllers(led) = <<c[1], c[2]>>
    BY <1>2, <1>6, ShortSequences
  <2>2. /\ <<c[1], c[2]>> \in Seq(T) /\ Len(<<c[1], c[2]>>) = 2
        /\ <<c[1], c[2]>>[1] = c[1] /\ <<c[1], c[2]>>[2] = c[2]
    BY <1>1
  <2> QED BY <1>3, <1>6, <2>1, <2>2 DEF T
<1>7. CASE c[2] # c[1] /\ c[3] \notin {c[1], c[2]}
  <2>1. L!Controllers(led) = <<c[1], c[2], c[3]>>
    <3>1. b = <<c[2]>> /\ d = <<c[3]>>
      BY <1>7
    <3>2. <<c[1]>> \o <<c[2]>> = <<c[1], c[2]>> /\ <<c[1], c[2]>> \o <<c[3]>> = <<c[1], c[2], c[3]>>
      BY ShortSequences
    <3> QED BY <1>2, <3>1, <3>2
  <2>2. /\ <<c[1], c[2], c[3]>> \in Seq(T) /\ Len(<<c[1], c[2], c[3]>>) = 3
        /\ <<c[1], c[2], c[3]>>[1] = c[1] /\ <<c[1], c[2], c[3]>>[2] = c[2]
        /\ <<c[1], c[2], c[3]>>[3] = c[3]
    BY <1>1
  <2> QED BY <1>3, <2>1, <2>2 DEF T
<1> QED BY <1>4, <1>5, <1>6, <1>7

(* The writes f are a and then b for each of the controllers cs. *)
TwoEach(f, cs, a, b) ==
  /\ f # <<>> /\ f \in Seq({f[k] : k \in DOMAIN f})
  /\ \A k \in DOMAIN f :
       \/ \E j \in 1 .. Len(cs) :
            /\ f[k] = [ctrl |-> cs[j], set |-> a]
            /\ k + 1 \in DOMAIN f /\ f[k + 1] = [ctrl |-> cs[j], set |-> b]
       \/ /\ k # 1
          /\ \E j \in 1 .. Len(cs) :
               /\ f[k] = [ctrl |-> cs[j], set |-> b]
               /\ f[k - 1] = [ctrl |-> cs[j], set |-> a]
  /\ \A j \in 1 .. Len(cs) :
       /\ \E k \in DOMAIN f : f[k] = [ctrl |-> cs[j], set |-> a]
       /\ \E k \in DOMAIN f : f[k] = [ctrl |-> cs[j], set |-> b]

LEMMA ForEachFacts ==
  ASSUME NEW cs, Len(cs) \in Nat \ {0}, NEW a, NEW b
  PROVE  TwoEach(L!ForEach(cs, <<a, b>>), cs, a, b)
<1> DEFINE w == <<a, b>>
           f == L!ForEach(cs, w)
           l == Len(cs)
           W(k) == [ctrl |-> cs[(k + 1) \div 2], set |-> w[((k + 1) % 2) + 1]]
<1>1. f = [k \in 1 .. 2 * l |-> W(k)]
  BY DEF L!ForEach
<1>2. DOMAIN f = 1 .. 2 * l /\ \A k \in 1 .. 2 * l : f[k] = W(k)
  BY <1>1
<1>6. w[1] = a /\ w[2] = b
  OBVIOUS
<1> HIDE DEF f, l, w
<1>0. l \in Nat \ {0}
  BY DEF l
<1>3. ASSUME NEW j \in 1 .. l
      PROVE  /\ 2 * j \in 1 .. 2 * l /\ 2 * j - 1 \in 1 .. 2 * l
             /\ f[2 * j] = [ctrl |-> cs[j], set |-> w[2]]
             /\ f[2 * j - 1] = [ctrl |-> cs[j], set |-> w[1]]
  <2>1. 2 * j \in 1 .. 2 * l /\ 2 * j - 1 \in 1 .. 2 * l
    BY <1>0
  <2>2. (2 * j + 1) \div 2 = j /\ ((2 * j + 1) % 2) + 1 = 2
    BY <1>0
  <2>3. (2 * j - 1 + 1) \div 2 = j /\ ((2 * j - 1 + 1) % 2) + 1 = 1
    BY <1>0
  <2>4. W(2 * j) = [ctrl |-> cs[j], set |-> w[2]]
    BY <2>2
  <2>5. W(2 * j - 1) = [ctrl |-> cs[j], set |-> w[1]]
    BY <2>3
  <2> HIDE DEF W
  <2> QED BY <1>2, <2>1, <2>4, <2>5
<1>4. ASSUME NEW k \in 1 .. 2 * l
      PROVE  \E j \in 1 .. l : k = 2 * j \/ k = 2 * j - 1
  <2>1. (k + 1) \div 2 \in 1 .. l /\ (k = 2 * ((k + 1) \div 2) \/ k = 2 * ((k + 1) \div 2) - 1)
    BY <1>0
  <2> QED BY <2>1
<1>5. ASSUME NEW k \in 1 .. 2 * l
      PROVE  \/ \E j \in 1 .. l :
                  /\ f[k] = [ctrl |-> cs[j], set |-> w[1]]
                  /\ k + 1 \in 1 .. 2 * l
                  /\ f[k + 1] = [ctrl |-> cs[j], set |-> w[2]]
             \/ /\ k # 1
                /\ \E j \in 1 .. l :
                      /\ f[k] = [ctrl |-> cs[j], set |-> w[2]]
                      /\ f[k - 1] = [ctrl |-> cs[j], set |-> w[1]]
  <2>1. PICK j \in 1 .. l : k = 2 * j \/ k = 2 * j - 1
    BY <1>4
  <2>3. CASE k = 2 * j
    <3>1. k # 1 /\ k - 1 = 2 * j - 1
      BY <2>3, <1>0
    <3> QED BY <1>3, <2>3, <3>1
  <2>4. CASE k = 2 * j - 1
    <3>1. k + 1 = 2 * j
      BY <2>4, <1>0
    <3> QED BY <1>3, <2>4, <3>1
  <2> QED BY <2>1, <2>3, <2>4
<1>10. f = [k \in 1 .. 2 * l |-> f[k]]
  BY <1>1, <1>2
<1> HIDE DEF W
<1>7. f \in Seq({f[k] : k \in DOMAIN f})
  <2> DEFINE T == {f[k] : k \in DOMAIN f}
  <2>1. f \in [1 .. 2 * l -> T] /\ 2 * l \in Nat
    BY <1>0, <1>2, <1>10
  <2> QED BY <2>1, FunIsSeq
<1>8. f # <<>>
  <2>1. 1 \in DOMAIN f
    BY <1>0, <1>2
  <2> QED BY <2>1, EmptyFacts
<1>9. TwoEach(f, cs, a, b)
  <2>1. \A k \in DOMAIN f :
       \/ \E j \in 1 .. Len(cs) :
            /\ f[k] = [ctrl |-> cs[j], set |-> a]
            /\ k + 1 \in DOMAIN f /\ f[k + 1] = [ctrl |-> cs[j], set |-> b]
       \/ /\ k # 1
          /\ \E j \in 1 .. Len(cs) :
               /\ f[k] = [ctrl |-> cs[j], set |-> b]
               /\ f[k - 1] = [ctrl |-> cs[j], set |-> a]
    BY <1>2, <1>5, <1>6 DEF l
  <2>2. \A j \in 1 .. Len(cs) :
          /\ \E k \in DOMAIN f : f[k] = [ctrl |-> cs[j], set |-> a]
          /\ \E k \in DOMAIN f : f[k] = [ctrl |-> cs[j], set |-> b]
    BY <1>2, <1>3, <1>6 DEF l
  <2> QED BY <1>7, <1>8, <2>1, <2>2 DEF TwoEach
<1> QED BY <1>9 DEF f, w

(* Two writes for each controller of a led, of which the second sets the   *)
(* bit DMBLNK, and the first the brightness, with the period if it blinks. *)
LEMMA SharedStep ==
  ASSUME LedInv, NEW led, \A i \in 1 .. 3 : led[i][1] \in L!Ctrl, NEW cs, OfLed(cs, led),
         NEW dim, NEW blink, NEW first, NEW bit \in {0, 1},
         \/ bit = 0 /\ blink = -1 /\ first = L!Only(DIM, dim)
         \/ bit = 1 /\ DOMAIN first = {DIM, FREQ} /\ first[DIM] = dim /\ first[FREQ] = blink,
         NEW writes, TwoEach(writes, cs, first, L!Only(L!DMBLNK, bit)),
         NEW asked, asked = L!AsksShared(led, dim, blink),
         L!Call(writes, asked, FALSE), leds' = leds
  PROVE  LedInv'
<1> DEFINE Dim == <<"dim", 0>>
<1>2. \A i \in 1 .. 3 : \E j \in 1 .. Len(cs) : cs[j] = led[i][1]
  BY DEF OfLed
<1>3. \A j \in 1 .. Len(cs) : cs[j] \in L!Ctrl /\ \E i \in 1 .. 3 : cs[j] = led[i][1]
  BY DEF OfLed
<1>4. /\ DOMAIN asked = {<<led[i][1], n>> : i \in 1 .. 3, n \in {Dim, Blink}}
      /\ \A i \in 1 .. 3 : dim \in asked[<<led[i][1], Dim>>] /\ blink \in asked[<<led[i][1], Blink>>]
  BY DEF L!AsksShared, Blink
<1>5. ledCall'.asks = asked /\ L!Ctrl' = L!Ctrl
  BY DEF L!Call, L!Ctrl
<1>6. ASSUME NEW j \in 1 .. Len(cs)
      PROVE  dim \in LedAsked(cs[j], Dim)' /\ blink \in LedAsked(cs[j], Blink)'
  <2>1. PICK i \in 1 .. 3 : cs[j] = led[i][1]
    BY <1>3
  <2>2. <<cs[j], Dim>> \in DOMAIN asked /\ <<cs[j], Blink>> \in DOMAIN asked
    BY <1>4, <2>1
  <2>3. dim \in asked[<<cs[j], Dim>>] /\ blink \in asked[<<cs[j], Blink>>]
    BY <1>4, <2>1
  <2> QED BY <1>5, <2>2, <2>3 DEF LedAsked
<1>9. /\ writes # <<>> /\ writes \in Seq({writes[n] : n \in DOMAIN writes})
      /\ \A n \in DOMAIN writes :
           \/ \E j \in 1 .. Len(cs) :
                /\ writes[n] = [ctrl |-> cs[j], set |-> first] /\ n + 1 \in DOMAIN writes
                /\ writes[n + 1] = [ctrl |-> cs[j], set |-> L!Only(L!DMBLNK, bit)]
           \/ /\ n # 1
              /\ \E j \in 1 .. Len(cs) :
                   /\ writes[n] = [ctrl |-> cs[j], set |-> L!Only(L!DMBLNK, bit)]
                   /\ writes[n - 1] = [ctrl |-> cs[j], set |-> first]
      /\ \A j \in 1 .. Len(cs) :
           /\ \E n \in DOMAIN writes : writes[n] = [ctrl |-> cs[j], set |-> first]
           /\ \E n \in DOMAIN writes : writes[n] = [ctrl |-> cs[j], set |-> L!Only(L!DMBLNK, bit)]
  BY DEF TwoEach
<1>10. Dim \in L!Item \ {Blink} /\ Blink \in L!Item /\ CellOf(Dim) = DIM /\ CellOf(Blink) = L!DMBLNK
  BY DEF L!Item, Blink, CellOf
<1>11. DIM \in DOMAIN first /\ L!DMBLNK \notin DOMAIN first /\ L!DMBLNK \in DOMAIN L!Only(L!DMBLNK, bit)
  BY CellFacts DEF L!Only
<1>12. Proper(writes, asked)
  <2>5. DOMAIN asked \subseteq L!Ctrl \X L!Item
    BY <1>4, <1>10
  <2>6. ASSUME NEW x \in DOMAIN asked PROVE \E n \in DOMAIN writes : Sets(writes[n], x[1], x[2])
    <3>1. PICK i \in 1 .. 3, m \in {Dim, Blink} : x = <<led[i][1], m>>
      BY <1>4
    <3>2. PICK j \in 1 .. Len(cs) : cs[j] = led[i][1]
      BY <1>2
    <3>3. CASE m = Dim
      <4>1. PICK n \in DOMAIN writes : writes[n] = [ctrl |-> cs[j], set |-> first]
        BY <1>9
      <4>2. Sets(writes[n], x[1], x[2])
        BY <1>10, <1>11, <3>1, <3>2, <3>3, <4>1 DEF Sets
      <4> QED BY <4>2
    <3>4. CASE m = Blink
      <4>1. PICK n \in DOMAIN writes : writes[n] = [ctrl |-> cs[j], set |-> L!Only(L!DMBLNK, bit)]
        BY <1>9
      <4>2. Sets(writes[n], x[1], x[2])
        BY <1>10, <1>11, <3>1, <3>2, <3>4, <4>1 DEF Sets
      <4> QED BY <4>2
    <3> QED BY <3>3, <3>4
  <2> QED BY <1>9, <2>5, <2>6 DEF Proper
<1>13. ASSUME NEW j \in 1 .. Len(cs)
       PROVE  /\ Right([ctrl |-> cs[j], set |-> first])' /\ first # L!Only(L!DMBLNK, 1)
              /\ Right([ctrl |-> cs[j], set |-> L!Only(L!DMBLNK, bit)])'
              /\ ~ Blinks([ctrl |-> cs[j], set |-> L!Only(L!DMBLNK, bit)])'
              /\ bit = 1 => Blinks([ctrl |-> cs[j], set |-> first])'
              /\ Blinks([ctrl |-> cs[j], set |-> first])' => bit = 1
              /\ L!Only(L!DMBLNK, bit) = L!Only(L!DMBLNK, 1) => bit = 1
  <2> DEFINE a == [ctrl |-> cs[j], set |-> first]
             b == [ctrl |-> cs[j], set |-> L!Only(L!DMBLNK, bit)]
  <2>1. a.ctrl = cs[j] /\ a.set = first /\ b.ctrl = cs[j] /\ b.set = L!Only(L!DMBLNK, bit)
    OBVIOUS
  <2> HIDE DEF a, b
  <2>2. dim \in LedAsked(cs[j], Dim)' /\ blink \in LedAsked(cs[j], Blink)' /\ cs[j] \in L!Ctrl
    BY <1>3, <1>6
  <2>3. L!DMBLNK \notin {FREQ, DIM} /\ FREQ # DIM
    BY CellFacts
  <2>4. first # L!Only(L!DMBLNK, 1)
    BY <1>11 DEF L!Only
  <2>5. L!Only(L!DMBLNK, bit) = L!Only(L!DMBLNK, 1) => bit = 1
    <3>1. L!Only(L!DMBLNK, bit)[L!DMBLNK] = bit /\ L!Only(L!DMBLNK, 1)[L!DMBLNK] = 1
      BY DEF L!Only
    <3> QED BY <3>1
  <2>6. bit = 1 => Blinks(a)'
    BY <2>1, <2>2, <2>3 DEF Blinks, L!Only
  <2>7. Blinks(a)' => bit = 1
    BY <2>1, <2>3 DEF Blinks, L!Only
  <2>8. ~ Blinks(b)'
    BY <2>1, <2>3 DEF Blinks, L!Only
  <2>9. Right(b)'
    BY <1>5, <2>1, <2>2 DEF Right
  <2>10. Right(a)'
    <3>1. CASE bit = 1
      BY <1>5, <2>1, <2>2, <2>6, <3>1 DEF Right
    <3>2. CASE bit = 0
      <4>1. a.set = L!Only(CellOf(Dim), dim)
        BY <1>10, <2>1, <3>2
      <4> QED BY <1>5, <1>10, <2>1, <2>2, <4>1 DEF Right
    <3> QED BY <3>1, <3>2
  <2> QED BY <2>4, <2>5, <2>6, <2>7, <2>8, <2>9, <2>10 DEF a, b
<1>14. ASSUME NEW n \in DOMAIN writes
       PROVE  /\ Right(writes[n])'
              /\ Blinks(writes[n])' =>
                   n + 1 \in DOMAIN writes /\ writes[n + 1] = [ctrl |-> writes[n].ctrl, set |-> L!Only(L!DMBLNK, 1)]
              /\ writes[n].set = L!Only(L!DMBLNK, 1) =>
                   n # 1 /\ Blinks(writes[n - 1])' /\ writes[n - 1].ctrl = writes[n].ctrl
  <2>1. CASE \E j \in 1 .. Len(cs) :
                /\ writes[n] = [ctrl |-> cs[j], set |-> first] /\ n + 1 \in DOMAIN writes
                /\ writes[n + 1] = [ctrl |-> cs[j], set |-> L!Only(L!DMBLNK, bit)]
    BY <1>13, <2>1
  <2>2. CASE /\ n # 1
             /\ \E j \in 1 .. Len(cs) :
                   /\ writes[n] = [ctrl |-> cs[j], set |-> L!Only(L!DMBLNK, bit)]
                   /\ writes[n - 1] = [ctrl |-> cs[j], set |-> first]
    BY <1>13, <2>2
  <2> QED BY <1>9, <2>1, <2>2
<1>15. leds' \in Seq({l \in Led : \A i \in 1 .. 3 : l[i] \in L!Ctrl \X Out})
  BY DEF LedInv, LedTypeInv
<1>16. Orderly(writes)'
  BY <1>14 DEF Orderly
<1> QED BY <1>12, <1>15, <1>16, CallStep

LEMMA DimmerStep ==
  ASSUME LedInv, NEW k \in DOMAIN leds, NEW dimming, L!iLedRgbSetDimmer(leds[k], dimming)
  PROVE  LedInv'
<1>1. PICK led : led = leds[k] /\ \A i \in 1 .. 3 : led[i][1] \in L!Ctrl
  BY LedFacts
<1>2. PICK cs : cs = L!Controllers(led)
  OBVIOUS
<1>3. OfLed(cs, led)
  BY <1>2, ControllersFacts
<1>4. PICK first : first = L!Only(DIM, L!Byte(dimming))
  OBVIOUS
<1>5. PICK writes : writes = L!ForEach(cs, <<first, L!Only(L!DMBLNK, 0)>>)
  OBVIOUS
<1>6. TwoEach(writes, cs, first, L!Only(L!DMBLNK, 0))
  BY <1>3, <1>5, ForEachFacts DEF OfLed
<1>7. PICK asked : asked = L!AsksShared(led, L!Byte(dimming), -1)
  OBVIOUS
<1>8. L!Call(writes, asked, FALSE) /\ leds' = leds
  BY <1>1, <1>2, <1>4, <1>5, <1>7 DEF L!iLedRgbSetDimmer, L!iSetDimmer, DIM
<1> QED BY <1>1, <1>3, <1>4, <1>6, <1>7, <1>8, SharedStep

LEMMA BlinkerStep ==
  ASSUME LedInv, NEW k \in DOMAIN leds, NEW period, NEW dcycle, L!iLedRgbSetBlinker(leds[k], period, dcycle)
  PROVE  LedInv'
<1>1. PICK led : led = leds[k] /\ \A i \in 1 .. 3 : led[i][1] \in L!Ctrl
  BY LedFacts
<1>2. PICK cs : cs = L!Controllers(led)
  OBVIOUS
<1>3. OfLed(cs, led)
  BY <1>2, ControllersFacts
<1>4. PICK first : first = [x \in {DIM, FREQ} |-> IF x = DIM THEN L!Byte(dcycle) ELSE L!Freq(period)]
  OBVIOUS
<1>5. PICK writes : writes = L!ForEach(cs, <<first, L!Only(L!DMBLNK, 1)>>)
  OBVIOUS
<1>6. TwoEach(writes, cs, first, L!Only(L!DMBLNK, 1))
  BY <1>3, <1>5, ForEachFacts DEF OfLed
<1>7. PICK asked : asked = L!AsksShared(led, L!Byte(dcycle), L!Freq(period))
  OBVIOUS
<1>8. L!Call(writes, asked, FALSE) /\ leds' = leds
  BY <1>1, <1>2, <1>4, <1>5, <1>7 DEF L!iLedRgbSetBlinker, L!iSetBlinker, DIM, FREQ
<1>9. DOMAIN first = {DIM, FREQ} /\ first[DIM] = L!Byte(dcycle) /\ first[FREQ] = L!Freq(period)
  BY <1>4, CellFacts
<1> QED BY <1>1, <1>3, <1>6, <1>7, <1>8, <1>9, SharedStep

LEMMA ClearErrorStep ==
  ASSUME LedInv, L!iLedRgbClearError
  PROVE  LedInv'
<1>1. LedTypeInv /\ Len(setup) \in Nat \ {0} /\ L!Ctrl = 1 .. Len(setup)
  BY SetupFacts DEF LedInv
<1>2. PICK cs : cs = [c \in L!Ctrl |-> c]
  OBVIOUS
<1>3. Len(cs) \in Nat \ {0} /\ \A j \in 1 .. Len(cs) : cs[j] \in L!Ctrl
  BY <1>1, <1>2
<1>4. PICK writes : writes = L!ForEach(cs, <<L!Only(L!EFCLR, 1), L!Only(L!EFCLR, 0)>>)
  OBVIOUS
<1>5. TwoEach(writes, cs, L!Only(L!EFCLR, 1), L!Only(L!EFCLR, 0))
  BY <1>3, <1>4, ForEachFacts
<1>6. L!Call(writes, <<>>, FALSE) /\ leds' = leds
  BY <1>2, <1>4 DEF L!iLedRgbClearError, L!iClrError
<1>7. Proper(writes, <<>>)
  BY <1>5, EmptyFacts DEF Proper, TwoEach
<1>8. ASSUME NEW k \in DOMAIN writes
      PROVE  Right(writes[k])' /\ ~ Blinks(writes[k])' /\ writes[k].set # L!Only(L!DMBLNK, 1)
  <2>1. PICK j \in 1 .. Len(cs), v \in {0, 1} : writes[k] = [ctrl |-> cs[j], set |-> L!Only(L!EFCLR, v)]
    BY <1>5 DEF TwoEach
  <2>2. writes[k].ctrl \in L!Ctrl /\ writes[k].set = L!Only(L!EFCLR, v) /\ DOMAIN writes[k].set = {L!EFCLR}
    BY <1>3, <2>1 DEF L!Only
  <2>3. L!Ctrl' = L!Ctrl
    BY <1>6 DEF L!Call, L!Ctrl
  <2>4. Right(writes[k])'
    BY <2>2, <2>3 DEF Right
  <2>5. L!EFCLR \notin {DIM, FREQ, L!DMBLNK}
    BY CellFacts
  <2>6. ~ Blinks(writes[k])'
    BY <2>2, <2>5 DEF Blinks
  <2>7. writes[k].set # L!Only(L!DMBLNK, 1)
    BY <2>2, <2>5 DEF L!Only
  <2> QED BY <2>4, <2>6, <2>7
<1>9. Orderly(writes)'
  BY <1>8 DEF Orderly
<1>10. leds' \in Seq({l \in Led : \A i \in 1 .. 3 : l[i] \in L!Ctrl \X Out})
  BY <1>1, <1>6 DEF LedTypeInv
<1> QED BY <1>6, <1>7, <1>9, <1>10, CallStep

-----------------------------------------------------------------------------
(* Opening and closing *)

LEMMA ResetFacts ==
  /\ IsRegs(L!Reset) /\ L!Reset[L!DMBLNK] = 0
  /\ \A i \in L!Item : L!Shown(L!Reset)[i] = IF i = Blink THEN -1 ELSE L!Reset[CellOf(i)]
<1>1. L!Reset[L!DMBLNK] = 0
  BY CellFacts DEF L!Reset, L!DMBLNK, L!OSC, L!GRPPWM, L!MODE1, L!MODE2
<1>2. IsRegs(L!Reset)
  BY DEF L!Reset, IsRegs
<1>3. ASSUME NEW i \in L!Item PROVE L!Shown(L!Reset)[i] = IF i = Blink THEN -1 ELSE L!Reset[CellOf(i)]
  <2>1. \/ \E o \in Out : i = <<"mode", o>>
        \/ \E o \in Out : i = <<"pwm", o>>
        \/ i = <<"dim", 0>> \/ i = Blink
    BY DEF L!Item, Blink
  <2> HIDE DEF L!Reset
  <2> QED BY <1>1, <2>1 DEF L!Shown, CellOf, Blink, DIM
<1> QED BY <1>1, <1>2, <1>3

(* Nothing is under way when the device is not open. *)
LEMMA NotOpen ==
  ASSUME LedInv, phase' # "open", todo' = <<>>, ledCall' = L!NoCall, LedTypeInv', OpeningInv'
  PROVE  LedInv'
<1>1. TodoInv'
  BY EmptyFacts DEF TodoInv, IsSeqOf
<1>2. AsksInv'
  BY EmptyFacts DEF AsksInv, L!NoCall
<1>3. OpenInv'
  BY DEF OpenInv
<1> QED BY <1>1, <1>2, <1>3 DEF LedInv

LEMMA StoppedType ==
  ASSUME NEW chips, \A c \in L!Ctrl : IsRegs(chips[c]), NEW n, NEW stopped \in L!Stopped(chips, n)
  PROVE  stopped = [c \in L!Ctrl |-> stopped[c]] /\ \A c \in L!Ctrl : IsRegs(stopped[c])
<1>1. PICK Elems \in SUBSET (1 .. n) :
        stopped = [c \in L!Ctrl |-> IF c \in Elems THEN [chips[c] EXCEPT ![L!OSC] = 1] ELSE chips[c]]
  BY DEF L!Stopped
<1>2. ASSUME NEW c \in L!Ctrl PROVE IsRegs([chips[c] EXCEPT ![L!OSC] = 1])
  <2>1. chips[c] = [x \in L!Cells |-> chips[c][x]]
    BY DEF IsRegs
  <2>2. PICK f : f = [chips[c] EXCEPT ![L!OSC] = 1]
    OBVIOUS
  <2>3. DOMAIN f = L!Cells /\ f = [x \in DOMAIN f |-> f[x]]
    BY <2>1, <2>2
  <2> QED BY <2>2, <2>3 DEF IsRegs
<1>3. \A c \in L!Ctrl : IsRegs(stopped[c])
  BY <1>1, <1>2
<1> QED BY <1>1, <1>3

LEMMA CloseStep ==
  ASSUME LedInv, L!iClose \/ L!iOpenBegin \/ L!iOpenFails
  PROVE  LedInv'
<1>1. LedTypeInv /\ Len(setup) \in Nat \ {0} /\ L!Ctrl = 1 .. Len(setup) /\ setup' = setup
  BY SetupFacts DEF LedInv, L!iClose, L!iOpenBegin, L!iOpenFails
<1>2. L!Ctrl' = L!Ctrl
  BY <1>1 DEF L!Ctrl
<1>3. \A c \in L!Ctrl : IsRegs(L!iSwReset(nof_ctrl + 1)[c])
  BY <1>1, ResetFacts DEF L!iSwReset, LedTypeInv
<1>4. CASE L!iClose
  <2>1. chip' = [c \in L!Ctrl |-> chip'[c]] /\ \A c \in L!Ctrl : IsRegs(chip'[c])
    <3>1. chip' \in L!Stopped(chip, Len(setup))
      BY <1>4 DEF L!iClose
    <3> QED BY <1>1, <3>1, StoppedType DEF LedTypeInv
  <2>2. LedTypeInv' /\ OpeningInv'
    BY <1>1, <1>2, <1>4, <2>1 DEF LedTypeInv, OpeningInv, L!iClose, L!AtRest
  <2> QED BY <1>1, <1>4, <2>2, NotOpen DEF L!iClose, L!AtRest, LedTypeInv
<1>5. CASE L!iOpenBegin
  <2>1. LedTypeInv' /\ OpeningInv'
    BY <1>1, <1>2, <1>5, EmptyFacts DEF LedTypeInv, OpeningInv, L!iOpenBegin
  <2> QED BY <1>1, <1>5, <2>1, NotOpen DEF L!iOpenBegin, LedTypeInv
<1>6. CASE L!iOpenFails
  <2>1. chip' = [c \in L!Ctrl |-> chip'[c]] /\ \A c \in L!Ctrl : IsRegs(chip'[c])
    <3>1. CASE chip' \in {chip, L!iSwReset(nof_ctrl + 1)}
      BY <1>1, <1>3, <3>1 DEF LedTypeInv, L!iSwReset
    <3>2. CASE \E osc \in {0, 1} :
                 chip' \in L!Stopped([L!iSwReset(nof_ctrl + 1) EXCEPT ![nof_ctrl + 1][L!OSC] = osc], nof_ctrl)
      <4>1. PICK osc \in {0, 1} :
              chip' \in L!Stopped([L!iSwReset(nof_ctrl + 1) EXCEPT ![nof_ctrl + 1][L!OSC] = osc], nof_ctrl)
        BY <3>2
      <4> DEFINE chips == [L!iSwReset(nof_ctrl + 1) EXCEPT ![nof_ctrl + 1][L!OSC] = osc]
      <4>2. \A c \in L!Ctrl : IsRegs(chips[c])
        BY <1>3, <4>1 DEF L!iSwReset, IsRegs
      <4> HIDE DEF chips
      <4> QED BY <4>1, <4>2, StoppedType DEF chips
    <3> QED BY <1>6, <3>1, <3>2 DEF L!iOpenFails
  <2>2. LedTypeInv' /\ OpeningInv'
    BY <1>1, <1>2, <1>6, <2>1 DEF LedTypeInv, OpeningInv, L!iOpenFails
  <2> QED BY <1>1, <1>6, <2>2, NotOpen DEF L!iOpenFails, LedTypeInv
<1> QED BY <1>4, <1>5, <1>6

LEMMA OpenLoopStep ==
  ASSUME LedInv, L!iOpen
  PROVE  LedInv'
<1> DEFINE c == nof_ctrl + 1
           on == [L!Reset EXCEPT ![L!OSC] = 0]
           regs == [x \in L!Cells |-> IF x[1] = L!MODE1 THEN on[x] ELSE L!Reset[x]]
<1>1. LedTypeInv /\ Len(setup) \in Nat \ {0} /\ L!Ctrl = 1 .. Len(setup)
  BY SetupFacts DEF LedInv
<1>2. phase = "opening" /\ nof_ctrl \in Nat /\ nof_ctrl < Len(setup) /\ c \in L!Ctrl /\ todo = <<>> /\ ledCall = L!NoCall
  BY <1>1 DEF L!iOpen, LedInv, OpeningInv, LedTypeInv
<1>3. /\ nof_ctrl' = c /\ shadow' = [shadow EXCEPT ![c] = on]
      /\ phase' = IF c = Len(setup) THEN "open" ELSE "opening"
      /\ shows' = [d \in L!Ctrl |-> [i \in L!Item |-> {L!Shown(L!Reset)[i]}]]
      /\ UNCHANGED <<setup, leds, todo, ledCall, ledCalls>>
  BY DEF L!iOpen
<1>4. L!iSwReset(c)[c] = L!Reset
  BY <1>2 DEF L!iSwReset
<1>5. chip' = [L!iSwReset(c) EXCEPT ![c] = regs]
  BY <1>2, <1>4 DEF L!iOpen, L!Taken, L!iSwReset
<1>6. IsRegs(on) /\ on[L!OSC] = 0 /\ \A x \in L!Cells \ {L!OSC} : on[x] = L!Reset[x]
  <2>1. L!Reset = [x \in L!Cells |-> L!Reset[x]] /\ L!OSC \in L!Cells
    BY ResetFacts, CellFacts DEF IsRegs
  <2> HIDE DEF L!Reset
  <2>2. on = [x \in L!Cells |-> on[x]]
    BY <2>1
  <2>3. on[L!OSC] = 0 /\ \A x \in L!Cells \ {L!OSC} : on[x] = L!Reset[x]
    BY <2>1
  <2> HIDE DEF on
  <2> QED BY <2>2, <2>3 DEF IsRegs
<1>7. IsRegs(regs) /\ regs[L!OSC] = 0 /\ \A x \in L!Cells \ {L!OSC} : regs[x] = L!Reset[x]
  <2>1. L!OSC \in L!Cells /\ L!OSC[1] = L!MODE1
    BY CellFacts DEF L!OSC
  <2> HIDE DEF on
  <2>2. regs[L!OSC] = 0 /\ \A x \in L!Cells \ {L!OSC} : regs[x] = L!Reset[x]
    BY <1>6, <2>1
  <2> QED BY <2>2 DEF IsRegs
<1> HIDE DEF regs, on
<1>8. /\ chip'[c] = regs /\ shadow'[c] = on
      /\ \A d \in L!Ctrl \ {c} :
           /\ shadow'[d] = shadow[d]
           /\ chip'[d] = IF setup[d] = setup[c] THEN L!Reset ELSE chip[d]
  BY <1>1, <1>2, <1>3, <1>5 DEF L!iSwReset, LedTypeInv
<1>9. L!Ctrl' = L!Ctrl /\ \A d : Alone(d)' = Alone(d)
  BY <1>3 DEF L!Ctrl, Alone
<1>10. LedTypeInv'
  <2>1. chip' = [d \in L!Ctrl |-> chip'[d]] /\ shadow' = [d \in L!Ctrl |-> shadow'[d]]
    BY <1>1, <1>2, <1>3, <1>5 DEF L!iSwReset, LedTypeInv
  <2>2. \A d \in L!Ctrl : IsRegs(chip'[d]) /\ IsRegs(shadow'[d])
    BY <1>1, <1>6, <1>7, <1>8, ResetFacts DEF LedTypeInv
  <2>3. shows' = [d \in L!Ctrl |-> shows'[d]] /\ \A d \in L!Ctrl : DOMAIN shows'[d] = L!Item
    BY <1>3
  <2> QED BY <1>1, <1>2, <1>3, <1>9, <2>1, <2>2, <2>3 DEF LedTypeInv
<1>11. ASSUME NEW d \in 1 .. c
       PROVE  /\ \A x \in L!Cells \ {L!OSC} : chip'[d][x] = L!Reset[x] /\ shadow'[d][x] = L!Reset[x]
              /\ Alone(d) => chip'[d][L!OSC] = 0
              /\ shadow'[d][L!OSC] = 0
  <2>1. CASE d = c
    BY <1>6, <1>7, <1>8, <2>1
  <2>2. CASE d # c
    <3>1. d \in 1 .. nof_ctrl /\ d \in L!Ctrl
      BY <1>1, <1>2, <2>2
    <3>2. /\ \A x \in L!Cells \ {L!OSC} : chip[d][x] = L!Reset[x] /\ shadow[d][x] = L!Reset[x]
          /\ Alone(d) => chip[d][L!OSC] = 0
          /\ shadow[d][L!OSC] = 0
      BY <1>2, <3>1 DEF LedInv, OpeningInv, Started
    <3>3. Alone(d) => setup[d] # setup[c]
      BY <1>2, <2>2 DEF Alone
    <3> QED BY <1>8, <2>2, <3>1, <3>2, <3>3
  <2> QED BY <2>1, <2>2
<1>12. OpeningInv'
  BY <1>2, <1>3, <1>9, <1>11, <1>1 DEF OpeningInv, Started
<1>13. TodoInv'
  BY <1>2, <1>3, EmptyFacts DEF TodoInv, IsSeqOf
<1>14. AsksInv'
  BY <1>2, <1>3, EmptyFacts DEF AsksInv, L!NoCall
<1>15. OpenInv'
  <2> SUFFICES ASSUME phase' = "open", NEW d \in L!Ctrl
               PROVE  /\ \A i \in L!Item : Fits(i, chip'[d], shadow'[d], shows'[d][i] \cup LedAsked(d, i)')
                      /\ Alone(d) => chip'[d][L!OSC] = 0
                      /\ shadow'[d][L!OSC] = 0
    BY <1>9 DEF OpenInv, Fits
  <2>1. d \in 1 .. c
    BY <1>1, <1>2, <1>3
  <2>2. ASSUME NEW i \in L!Item PROVE Fits(i, chip'[d], shadow'[d], shows'[d][i] \cup LedAsked(d, i)')
    <3>1. shows'[d][i] = {L!Shown(L!Reset)[i]}
      BY <1>3
    <3>2. CASE i = Blink
      <4>1. L!DMBLNK \in L!Cells \ {L!OSC}
        BY CellFacts
      <4>2. chip'[d][L!DMBLNK] = 0 /\ shadow'[d][L!DMBLNK] = 0
        BY <1>11, <2>1, <4>1, ResetFacts
      <4> QED BY <3>1, <3>2, <4>2, ResetFacts DEF Fits
    <3>3. CASE i # Blink
      <4>1. CellOf(i) \in L!Cells \ {L!OSC}
        BY <3>3, CellFacts
      <4>2. chip'[d][CellOf(i)] = L!Reset[CellOf(i)] /\ shadow'[d][CellOf(i)] = L!Reset[CellOf(i)]
        BY <1>11, <2>1, <4>1
      <4> QED BY <3>1, <3>3, <4>2, ResetFacts DEF Fits
    <3> QED BY <3>2, <3>3
  <2> QED BY <1>11, <2>1, <2>2
<1> QED BY <1>10, <1>12, <1>13, <1>14, <1>15 DEF LedInv

-----------------------------------------------------------------------------
LEMMA InitLedInv == L!Init => LedInv
<1> SUFFICES ASSUME L!Init PROVE LedInv
  OBVIOUS
<1>1. LedTypeInv
  BY ResetFacts, EmptyFacts DEF L!Init, LedTypeInv
<1>2. TodoInv /\ AsksInv
  BY EmptyFacts DEF L!Init, TodoInv, AsksInv, IsSeqOf, L!NoCall
<1>3. OpeningInv /\ OpenInv
  BY DEF L!Init, OpeningInv, OpenInv
<1> QED BY <1>1, <1>2, <1>3 DEF LedInv

LEMMA LedInvStep == LedInv /\ [L!Next]_(L!vars) => LedInv'
<1> SUFFICES ASSUME LedInv, [L!Next]_(L!vars) PROVE LedInv'
  OBVIOUS
<1>1. CASE L!iOpenBegin \/ L!iOpenFails \/ L!iClose
  BY <1>1, CloseStep
<1>2. CASE L!iOpen
  BY <1>2, OpenLoopStep
<1>3. CASE \E l \in Led, m \in LedMode : L!iLedRgbAddLed(l, m)
  BY <1>3, AddLedStep
<1>4. CASE \E g \in L!Groups :
             \/ \E m \in LedMode : L!iLedRgbSetGrpMode(g, m)
             \/ \E color \in Color : L!iLedRgbSetGrpColor(g, color)
  BY <1>4, GrpModeStep, GrpColorStep
<1>5. CASE \E k \in DOMAIN leds, d \in Dimming : L!iLedRgbSetDimmer(leds[k], d)
  BY <1>5, DimmerStep
<1>6. CASE \E k \in DOMAIN leds, f \in Period, d \in Dimming : L!iLedRgbSetBlinker(leds[k], f, d)
  BY <1>6, BlinkerStep
<1>7. CASE L!iLedRgbClearError
  BY <1>7, ClearErrorStep
<1>8. CASE L!WriteOk
  BY <1>8, WriteOkStep
<1>9. CASE L!WriteFails
  BY <1>9, WriteFailsStep
<1>10. CASE UNCHANGED L!vars
  <2>1. L!Ctrl' = L!Ctrl /\ \A c : Alone(c)' = Alone(c)
    BY <1>10 DEF L!vars, L!Ctrl, Alone
  <2>2. \A u : Right(u)' = Right(u) /\ Blinks(u)' = Blinks(u)
    BY <1>10, <2>1 DEF L!vars, Right, Blinks, LedAsked
  <2>5. LedTypeInv'
    BY <1>10, <2>1 DEF L!vars, LedInv, LedTypeInv
  <2>6. OpeningInv'
    BY <1>10, <2>1 DEF L!vars, LedInv, OpeningInv, Started
  <2>7. \A c, i : LedAsked(c, i)' = LedAsked(c, i)
    BY <1>10 DEF L!vars, LedAsked
  <2>8. OpenInv'
    BY <1>10, <2>1, <2>7 DEF L!vars, LedInv, OpenInv, Fits
  <2>3. \A c : Fresh(c)' = Fresh(c)
    BY <1>10, <2>7 DEF L!vars, Fresh
  <2>4. TodoInv'
    <3>1. todo' = todo /\ TodoInv
      BY <1>10 DEF L!vars, LedInv
    <3>2. IsSeqOf(todo)'
      BY <3>1 DEF TodoInv, IsSeqOf
    <3>3. ASSUME NEW k \in DOMAIN todo'
          PROVE  /\ Right(todo[k])'
                 /\ (Blinks(todo[k]) => k + 1 \in DOMAIN todo
                      /\ todo[k + 1] = [ctrl |-> todo[k].ctrl, set |-> L!Only(L!DMBLNK, 1)])'
                 /\ (todo[k].set = L!Only(L!DMBLNK, 1) =>
                        IF k = 1 THEN Fresh(todo[k].ctrl)
                        ELSE Blinks(todo[k - 1]) /\ todo[k - 1].ctrl = todo[k].ctrl)'
      <4>1. k \in DOMAIN todo
        BY <3>1
      <4>2. Right(todo[k])'
        BY <3>1, <4>1, <2>2 DEF TodoInv
      <4>3. (Blinks(todo[k]) => k + 1 \in DOMAIN todo
               /\ todo[k + 1] = [ctrl |-> todo[k].ctrl, set |-> L!Only(L!DMBLNK, 1)])'
        BY <3>1, <4>1, <2>2 DEF TodoInv
      <4>4. (todo[k].set = L!Only(L!DMBLNK, 1) =>
               IF k = 1 THEN Fresh(todo[k].ctrl)
               ELSE Blinks(todo[k - 1]) /\ todo[k - 1].ctrl = todo[k].ctrl)'
        BY <3>1, <4>1, <2>2, <2>3 DEF TodoInv
      <4> QED BY <4>2, <4>3, <4>4
    <3> QED BY <3>2, <3>3 DEF TodoInv
  <2>9. AsksInv'
    BY <1>10, <2>1 DEF L!vars, LedInv, AsksInv, Fits, Sets
  <2> QED BY <2>4, <2>5, <2>6, <2>8, <2>9 DEF LedInv
<1> QED BY <1>1, <1>2, <1>3, <1>4, <1>5, <1>6, <1>7, <1>8, <1>9, <1>10 DEF L!Next

(* What an item shows fits. *)
LEMMA ShownFits ==
  ASSUME LedInv, L!AtRest
  PROVE  L!LedsAsAsked
<1> SUFFICES ASSUME NEW c \in L!Ctrl
             PROVE  /\ \A i \in DOMAIN shows[c] : L!Shown(chip[c])[i] \in shows[c][i]
                    /\ (\A d \in L!Ctrl \ {c} : setup[d] # setup[c]) => chip[c][L!OSC] = 0
  BY DEF L!LedsAsAsked
<1>1. phase = "open" /\ ledCall = L!NoCall /\ DOMAIN shows[c] = L!Item
  BY DEF L!AtRest, LedInv, LedTypeInv
<1>2. \A i : LedAsked(c, i) = {}
  BY <1>1, EmptyFacts DEF LedAsked, L!NoCall
<1>3. /\ \A i \in L!Item : Fits(i, chip[c], shadow[c], shows[c][i])
      /\ Alone(c) => chip[c][L!OSC] = 0
  <2>1. /\ \A i \in L!Item : Fits(i, chip[c], shadow[c], shows[c][i] \cup LedAsked(c, i))
        /\ Alone(c) => chip[c][L!OSC] = 0
    BY <1>1 DEF LedInv, OpenInv
  <2>2. \A i : shows[c][i] \cup LedAsked(c, i) = shows[c][i]
    BY <1>2
  <2> QED BY <2>1, <2>2
<1>4. ASSUME NEW i \in L!Item PROVE L!Shown(chip[c])[i] \in shows[c][i]
  <2>1. Fits(i, chip[c], shadow[c], shows[c][i])
    BY <1>3
  <2>2. \/ \E o \in Out : i = <<"mode", o>>
        \/ \E o \in Out : i = <<"pwm", o>>
        \/ i = <<"dim", 0>> \/ i = Blink
    BY DEF L!Item, Blink
  <2>3. L!Shown(chip[c])[i] = IF i = Blink THEN IF chip[c][L!DMBLNK] = 0 THEN -1 ELSE chip[c][FREQ] ELSE chip[c][CellOf(i)]
    BY <2>2 DEF L!Shown, CellOf, Blink, DIM, FREQ
  <2> QED BY <2>1, <2>3 DEF Fits
<1> QED BY <1>1, <1>3, <1>4 DEF Alone

(* Every output and every controller shows what was asked of it. *)
THEOREM LedsShowAsked == L!Spec => []LedsAsAsked
<1>1. LedInv => LedsAsAsked
  BY ShownFits DEF LedsAsAsked, L!LedsAsAsked
<1> QED BY <1>1, InitLedInv, LedInvStep, PTL DEF L!Spec

-----------------------------------------------------------------------------
(* The remote control: the frames are seven bytes (src/gpio/blyss.c). *)
BlyssFrame == [0 .. 6 -> B!Byte]

LEMMA Powers ==
  /\ B!Power[1] = 1 /\ B!Power[2] = 2 /\ B!Power[3] = 4 /\ B!Power[4] = 8 /\ B!Power[5] = 16 /\ B!Power[6] = 32
  /\ B!Power[7] = 64 /\ B!Power[8] = 128 /\ B!Power[9] = 256 /\ B!Power[13] = 4096
BY DEF B!Power

(* The nibbles of a byte. *)
LEMMA Nibbles ==
  \A v \in B!Byte : B!Low(v) \in B!Nibble /\ B!High(v) \in B!Nibble /\ v = 16 * B!High(v) + B!Low(v)
BY DEF B!Byte, B!Nibble, B!Low, B!High

LEMMA OfNibbles ==
  \A h, l \in B!Nibble :
    /\ 16 * h + l \in B!Byte /\ B!High(16 * h + l) = h /\ B!Low(16 * h + l) = l
    /\ l + 16 * h \in B!Byte /\ B!High(l + 16 * h) = h /\ B!Low(l + 16 * h) = l
BY DEF B!Byte, B!Nibble, B!Low, B!High

(* The bits of a byte. *)
BitsOf(v) ==
  (IF (v \div 128) % 2 = 1 THEN 128 ELSE 0) + (IF (v \div 64) % 2 = 1 THEN 64 ELSE 0)
   + (IF (v \div 32) % 2 = 1 THEN 32 ELSE 0) + (IF (v \div 16) % 2 = 1 THEN 16 ELSE 0)
   + (IF (v \div 8) % 2 = 1 THEN 8 ELSE 0) + (IF (v \div 4) % 2 = 1 THEN 4 ELSE 0)
   + (IF (v \div 2) % 2 = 1 THEN 2 ELSE 0) + (IF v % 2 = 1 THEN 1 ELSE 0)

LEMMA ByteOfBits == \A v \in B!Byte : BitsOf(v) = v
BY DEF B!Byte, BitsOf

LEMMA ByOne == \A v \in B!Byte : v \div 1 = v
BY DEF B!Byte

(* Each bit is a pause and a pulse, which is longer than the pause if it is 1. *)
LEMMA Pulse ==
  ASSUME NEW f \in BlyssFrame, NEW i \in 0 .. 51
  PROVE  B!iSendFrame(f)[2 * i + 3][2] > B!iSendFrame(f)[2 * i + 2][2] <=> B!Bit(f, i)
<1> DEFINE k == 2 * i + 3
           j == 2 * i + 2
<1>1. /\ k \in 2 .. 105 /\ j \in 2 .. 105 /\ 2 * B!BLYSS_NOF_BITS + 2 = 106
      /\ (k - 2) \div 2 = i /\ (j - 2) \div 2 = i /\ k % 2 = 1 /\ j % 2 = 0
  BY DEF B!BLYSS_NOF_BITS
<1> HIDE DEF k, j
<1>2. ASSUME NEW n \in 2 .. 105
      PROVE  B!iSendFrame(f)[n] = B!iSendBit(B!Bit(f, (n - 2) \div 2))[1 + (n % 2)]
  <2>1. n \in 1 .. 2 * B!BLYSS_NOF_BITS + 2 /\ n # 1 /\ n # 2 * B!BLYSS_NOF_BITS + 2
    BY DEF B!BLYSS_NOF_BITS
  <2> QED
    BY <2>1, Zenon DEF B!iSendFrame
<1>3. B!iSendBit(B!Bit(f, i))[2][2] > B!iSendBit(B!Bit(f, i))[1][2] <=> B!Bit(f, i)
  BY DEF B!iSendBit, B!T1, B!T2
<1>4. B!iSendFrame(f)[k] = B!iSendBit(B!Bit(f, i))[2] /\ B!iSendFrame(f)[j] = B!iSendBit(B!Bit(f, i))[1]
  BY <1>1, <1>2
<1> QED
  BY <1>3, <1>4 DEF k, j

(* What a receiver makes of the bit i. *)
Worth(f, i) ==
  IF i < B!BLYSS_NOF_BITS /\ B!iSendFrame(f)[2 * i + 3][2] > B!iSendFrame(f)[2 * i + 2][2]
    THEN B!Up(1, 7 - (i % 8)) ELSE 0

LEMMA WorthOf ==
  ASSUME NEW f \in BlyssFrame, NEW b \in 0 .. 6, NEW k \in 0 .. 7
  PROVE  Worth(f, 8 * b + k)
           = IF 8 * b + k < 52 /\ (f[b] \div B!Power[8 - k]) % 2 = 1 THEN B!Power[8 - k] ELSE 0
<1>1. PICK i \in Nat : i = 8 * b + k
  OBVIOUS
<1>2. i \div 8 = b /\ i % 8 = k /\ 7 - (i % 8) + 1 = 8 - k
  BY <1>1
<1>3. B!Up(1, 7 - (i % 8)) = B!Power[8 - k]
  <2>1. 8 - k \in {1, 2, 3, 4, 5, 6, 7, 8}
    OBVIOUS
  <2>2. B!Power[8 - k] \in Nat
    BY <2>1, Powers
  <2> QED
    BY <1>2, <2>2 DEF B!Up
<1>4. B!Bit(f, i) <=> (f[b] \div B!Power[8 - k]) % 2 = 1
  BY <1>2 DEF B!Bit, B!Shr
<1>5. CASE i < 52
  <2>1. i \in 0 .. 51 /\ i < B!BLYSS_NOF_BITS
    BY <1>5 DEF B!BLYSS_NOF_BITS
  <2>2. B!iSendFrame(f)[2 * i + 3][2] > B!iSendFrame(f)[2 * i + 2][2] <=> B!Bit(f, i)
    BY <2>1, Pulse
  <2> QED
    BY <1>1, <1>3, <1>4, <1>5, <2>1, <2>2 DEF Worth
<1>6. CASE ~ i < 52
  BY <1>1, <1>6 DEF Worth, B!BLYSS_NOF_BITS
<1> QED
  BY <1>5, <1>6

(* The receiver decodes what is sent, but the nibble that is not. *)
LEMMA DecodedIs ==
  ASSUME NEW f \in BlyssFrame
  PROVE  /\ B!Decoded(B!iSendFrame(f)) \in BlyssFrame
         /\ \A b \in 0 .. 5 : B!Decoded(B!iSendFrame(f))[b] = f[b]
         /\ B!Decoded(B!iSendFrame(f))[6] = 16 * B!High(f[6])
<1> DEFINE d == B!Decoded(B!iSendFrame(f))
           Sum(b) == Worth(f, 8 * b) + Worth(f, 8 * b + 1) + Worth(f, 8 * b + 2) + Worth(f, 8 * b + 3)
                      + Worth(f, 8 * b + 4) + Worth(f, 8 * b + 5) + Worth(f, 8 * b + 6) + Worth(f, 8 * b + 7)
<1>1. d = [b \in 0 .. 6 |-> Sum(b)]
  BY DEF B!Decoded, Worth
<1> HIDE DEF d
<1>2. \A b \in 0 .. 6 : f[b] \in B!Byte
  BY DEF BlyssFrame
<1>3. ASSUME NEW b \in 0 .. 6
      PROVE  /\ Worth(f, 8 * b) = IF 8 * b < 52 /\ (f[b] \div 128) % 2 = 1 THEN 128 ELSE 0
             /\ Worth(f, 8 * b + 1) = IF 8 * b + 1 < 52 /\ (f[b] \div 64) % 2 = 1 THEN 64 ELSE 0
             /\ Worth(f, 8 * b + 2) = IF 8 * b + 2 < 52 /\ (f[b] \div 32) % 2 = 1 THEN 32 ELSE 0
             /\ Worth(f, 8 * b + 3) = IF 8 * b + 3 < 52 /\ (f[b] \div 16) % 2 = 1 THEN 16 ELSE 0
             /\ Worth(f, 8 * b + 4) = IF 8 * b + 4 < 52 /\ (f[b] \div 8) % 2 = 1 THEN 8 ELSE 0
             /\ Worth(f, 8 * b + 5) = IF 8 * b + 5 < 52 /\ (f[b] \div 4) % 2 = 1 THEN 4 ELSE 0
             /\ Worth(f, 8 * b + 6) = IF 8 * b + 6 < 52 /\ (f[b] \div 2) % 2 = 1 THEN 2 ELSE 0
             /\ Worth(f, 8 * b + 7) = IF 8 * b + 7 < 52 /\ f[b] % 2 = 1 THEN 1 ELSE 0
  <2>1. \A k \in 0 .. 7 :
          Worth(f, 8 * b + k)
            = IF 8 * b + k < 52 /\ (f[b] \div B!Power[8 - k]) % 2 = 1 THEN B!Power[8 - k] ELSE 0
    BY WorthOf
  <2>2. f[b] \div 1 = f[b]
    BY <1>2, ByOne
  <2>3. 8 * b + 0 = 8 * b
    OBVIOUS
  <2> QED
    BY <2>1, <2>2, <2>3, Powers
<1>4. ASSUME NEW b \in 0 .. 5 PROVE d[b] = f[b]
  <2>1. Sum(b) = BitsOf(f[b])
    BY <1>3 DEF BitsOf
  <2> QED
    BY <1>1, <1>2, <2>1, ByteOfBits
<1>5. d[6] = 16 * B!High(f[6])
  <2>1. Sum(6) = (IF (f[6] \div 128) % 2 = 1 THEN 128 ELSE 0) + (IF (f[6] \div 64) % 2 = 1 THEN 64 ELSE 0)
                  + (IF (f[6] \div 32) % 2 = 1 THEN 32 ELSE 0) + (IF (f[6] \div 16) % 2 = 1 THEN 16 ELSE 0)
    BY <1>3
  <2>2. \A v \in B!Byte : 16 * B!High(v)
          = (IF (v \div 128) % 2 = 1 THEN 128 ELSE 0) + (IF (v \div 64) % 2 = 1 THEN 64 ELSE 0)
             + (IF (v \div 32) % 2 = 1 THEN 32 ELSE 0) + (IF (v \div 16) % 2 = 1 THEN 16 ELSE 0)
    BY DEF B!Byte, B!High
  <2> QED
    BY <1>1, <1>2, <2>1, <2>2
<1>6. d \in BlyssFrame
  <2>1. 16 * B!High(f[6]) \in B!Byte
    BY <1>2 DEF B!Byte, B!High
  <2>2. \A b \in 0 .. 6 : d[b] \in B!Byte
    BY <1>2, <1>4, <1>5, <2>1
  <2> QED
    BY <1>1, <2>2 DEF BlyssFrame
<1> QED
  BY <1>4, <1>5, <1>6 DEF d

LEMMA FrameHas ==
  ASSUME NEW f \in BlyssFrame
  PROVE  \A b \in 0 .. 6 : f[b] \in B!Byte /\ B!Low(f[b]) \in B!Nibble /\ B!High(f[b]) \in B!Nibble
<1>1. \A b \in 0 .. 6 : f[b] \in B!Byte
  BY DEF BlyssFrame
<1> QED
  BY <1>1, Nibbles

(* The getters, byte by byte. *)
LEMMA Getters ==
  ASSUME NEW f \in BlyssFrame
  PROVE  /\ B!usGetBits(f, 8, 4) = B!High(f[1])
         /\ B!usGetBits(f, 12, 16) = B!Low(f[1]) * 4096 + f[2] * 16 + B!High(f[3])
         /\ B!usGetBits(f, 28, 4) = B!Low(f[3])
         /\ B!usGetBits(f, 32, 4) = B!High(f[4])
         /\ B!usGetBits(f, 36, 8) = B!Low(f[4]) * 16 + B!High(f[5])
         /\ B!usGetBits(f, 44, 8) = B!Low(f[5]) * 16 + B!High(f[6])
<1>1. \A b \in 0 .. 6 : f[b] \in Nat /\ B!Low(f[b]) \in Nat /\ B!High(f[b]) \in Nat
  <2>1. \A v \in B!Byte : v \in Nat
    BY DEF B!Byte
  <2>2. \A v \in B!Nibble : v \in Nat
    BY DEF B!Nibble
  <2> QED
    BY <2>1, <2>2, FrameHas
<1>2. \A v \in Nat : B!Up(v, 0) = v /\ B!Up(v, 4) = v * 16 /\ B!Up(v, 12) = v * 4096
  BY Powers DEF B!Up
<1>3. B!usGetBits(f, 8, 4) = B!High(f[1])
  BY <1>1, <1>2 DEF B!usGetBits, B!InField
<1>4. B!usGetBits(f, 12, 16) = B!Low(f[1]) * 4096 + f[2] * 16 + B!High(f[3])
  BY <1>1, <1>2 DEF B!usGetBits, B!InField
<1>5. B!usGetBits(f, 28, 4) = B!Low(f[3])
  BY <1>1, <1>2 DEF B!usGetBits, B!InField
<1>6. B!usGetBits(f, 32, 4) = B!High(f[4])
  BY <1>1, <1>2 DEF B!usGetBits, B!InField
<1>7. B!usGetBits(f, 36, 8) = B!Low(f[4]) * 16 + B!High(f[5])
  BY <1>1, <1>2 DEF B!usGetBits, B!InField
<1>8. B!usGetBits(f, 44, 8) = B!Low(f[5]) * 16 + B!High(f[6])
  BY <1>1, <1>2 DEF B!usGetBits, B!InField
<1> QED
  BY <1>3, <1>4, <1>5, <1>6, <1>7, <1>8

(* The setters: the nibbles of a field, and no other. *)
LEMMA Shifts ==
  /\ \A v \in Nat : B!Shr(v, 0) = v /\ B!Shr(v, 4) = v \div 16 /\ B!Shr(v, 12) = v \div 4096
  /\ \A v \in Nat : B!Shl(v, 4) = (v * 16) % 256
BY Powers DEF B!Shr, B!Shl, B!Up

LEMMA ShiftedNibble == \A v \in B!Nibble : B!Shl(B!Shr(v, 0), 4) = 16 * v
<1> SUFFICES ASSUME NEW v \in B!Nibble PROVE B!Shl(B!Shr(v, 0), 4) = 16 * v
  OBVIOUS
<1>1. v \in Nat /\ (v * 16) % 256 = 16 * v
  BY DEF B!Nibble
<1>2. B!Shr(v, 0) = v
  BY <1>1, Powers DEF B!Shr
<1>3. B!Shl(v, 4) = (v * 16) % 256
  BY <1>1, Shifts
<1> QED
  BY <1>1, <1>2, <1>3

LEMMA ShiftedWord ==
  \A v \in B!Word : B!Shl(B!Shr(v, 0), 4) = 16 * (v % 16) /\ B!Shr(v, 4) = v \div 16 /\ B!Shr(v, 12) = v \div 4096
<1> SUFFICES ASSUME NEW v \in B!Word
             PROVE  B!Shl(B!Shr(v, 0), 4) = 16 * (v % 16) /\ B!Shr(v, 4) = v \div 16 /\ B!Shr(v, 12) = v \div 4096
  OBVIOUS
<1>1. v \in Nat /\ (v * 16) % 256 = 16 * (v % 16)
  BY DEF B!Word
<1>2. B!Shr(v, 0) = v /\ B!Shr(v, 4) = v \div 16 /\ B!Shr(v, 12) = v \div 4096
  BY <1>1, Shifts
<1>3. B!Shl(v, 4) = (v * 16) % 256
  BY <1>1, Shifts
<1> QED
  BY <1>1, <1>2, <1>3

LEMMA ByteOf ==
  ASSUME NEW f \in BlyssFrame
  PROVE  DOMAIN f = 0 .. 6 /\ \A b \in 0 .. 6 : f[b] \in B!Byte
BY DEF BlyssFrame

(* What vSetBits puts in a byte: a byte of the value, its last nibble or   *)
(* its first one.                                                          *)
LEMMA SetsByte ==
  ASSUME NEW f \in BlyssFrame, NEW index \in Nat, NEW len \in {4, 8, 16}, NEW v, NEW g, g = B!vSetBits(f, index, len, v),
         NEW b \in 0 .. 6
  PROVE  /\ index <= 8 * b /\ 8 * b + 8 <= index + len => g[b] = B!Shr(v, 8 * b - index) % 256
         /\ index <= 8 * b /\ index + len = 8 * b + 4 => g[b] = B!Low(f[b]) + B!Shl(B!Shr(v, 0), 4)
         /\ index = 8 * b + 4 => g[b] = 16 * B!High(f[b]) + B!Shr(v, len - 4)
         /\ index > 8 * b + 4 \/ index + len <= 8 * b => g[b] = f[b]
<1> DEFINE end == index + len
<1>1. g = [i \in 0 .. 6 |->
        IF B!InField(8 * i, index, len)
          THEN IF end - 8 * i >= 8 THEN B!Shr(v, 8 * i - index) % 256
               ELSE B!Low(f[i]) + B!Shl(B!Shr(v, end - 8 * i - 4), 4)
        ELSE IF B!InField(8 * i + 4, index, len) THEN 16 * B!High(f[i]) + B!Shr(v, end - (8 * i + 4) - 4)
        ELSE f[i]]
  BY ByteOf DEF B!vSetBits
<1>2. g[b] = IF B!InField(8 * b, index, len)
          THEN IF end - 8 * b >= 8 THEN B!Shr(v, 8 * b - index) % 256
               ELSE B!Low(f[b]) + B!Shl(B!Shr(v, end - 8 * b - 4), 4)
        ELSE IF B!InField(8 * b + 4, index, len) THEN 16 * B!High(f[b]) + B!Shr(v, end - (8 * b + 4) - 4)
        ELSE f[b]
  BY <1>1
<1>3. ASSUME index <= 8 * b, 8 * b + 8 <= index + len PROVE g[b] = B!Shr(v, 8 * b - index) % 256
  <2>1. B!InField(8 * b, index, len) /\ end - 8 * b >= 8
    BY <1>3 DEF B!InField
  <2> QED
    BY <1>2, <2>1
<1>4. ASSUME index <= 8 * b, index + len = 8 * b + 4 PROVE g[b] = B!Low(f[b]) + B!Shl(B!Shr(v, 0), 4)
  <2>1. B!InField(8 * b, index, len) /\ ~ end - 8 * b >= 8 /\ end - 8 * b - 4 = 0
    BY <1>4 DEF B!InField
  <2> QED
    BY <1>2, <2>1
<1>5. ASSUME index = 8 * b + 4 PROVE g[b] = 16 * B!High(f[b]) + B!Shr(v, len - 4)
  <2>1. ~ B!InField(8 * b, index, len) /\ B!InField(8 * b + 4, index, len) /\ end - (8 * b + 4) - 4 = len - 4
    BY <1>5 DEF B!InField
  <2> QED
    BY <1>2, <2>1
<1>6. ASSUME index > 8 * b + 4 \/ index + len <= 8 * b PROVE g[b] = f[b]
  <2>1. ~ B!InField(8 * b, index, len) /\ ~ B!InField(8 * b + 4, index, len)
    BY <1>6 DEF B!InField
  <2> QED
    BY <1>2, <2>1
<1> QED
  BY <1>3, <1>4, <1>5, <1>6

LEMMA SetsDomain ==
  ASSUME NEW f \in BlyssFrame, NEW index, NEW len, NEW v
  PROVE  /\ B!vSetBits(f, index, len, v) = [b \in 0 .. 6 |-> B!vSetBits(f, index, len, v)[b]]
BY ByteOf DEF B!vSetBits

LEMMA FrameIs ==
  ASSUME NEW g, g = [b \in 0 .. 6 |-> g[b]],
         g[0] \in B!Byte, g[1] \in B!Byte, g[2] \in B!Byte, g[3] \in B!Byte, g[4] \in B!Byte, g[5] \in B!Byte, g[6] \in B!Byte
  PROVE  g \in BlyssFrame
<1>1. \A b \in 0 .. 6 : g[b] \in B!Byte
  OBVIOUS
<1> QED
  BY <1>1 DEF BlyssFrame

LEMMA WordParts ==
  \A v \in B!Word :
    /\ v \div 4096 \in B!Nibble /\ (v \div 16) % 256 \in B!Byte /\ v % 16 \in B!Nibble
    /\ v = (v \div 4096) * 4096 + ((v \div 16) % 256) * 16 + (v % 16)
<1> SUFFICES ASSUME NEW v \in B!Word
             PROVE  /\ v \div 4096 \in B!Nibble /\ (v \div 16) % 256 \in B!Byte /\ v % 16 \in B!Nibble
                    /\ v = (v \div 4096) * 4096 + ((v \div 16) % 256) * 16 + (v % 16)
  OBVIOUS
<1>1. v \div 4096 \in B!Nibble
  <2>1. v \in Nat /\ v < 65536
    BY DEF B!Word
  <2>2. PICK q \in Nat : q = v \div 4096
    BY <2>1, SMTT(30)
  <2>3. 4096 * q <= v
    BY <2>1, <2>2, SMTT(30)
  <2>4. q \in 0 .. 15
    BY <2>1, <2>3
  <2> QED
    BY <2>2, <2>4 DEF B!Nibble
<1>2. (v \div 16) % 256 \in B!Byte
  BY DEF B!Word, B!Byte
<1>3. v % 16 \in B!Nibble
  BY DEF B!Word, B!Nibble
<1>4. v = (v \div 4096) * 4096 + ((v \div 16) % 256) * 16 + (v % 16)
  <2>1. v \in Nat
    BY DEF B!Word
  <2>2. PICK q \in Nat : q = v \div 16
    BY <2>1
  <2>3. v = q * 16 + (v % 16) /\ v % 16 \in Nat
    BY <2>1, <2>2
  <2>4. q = (q \div 256) * 256 + (q % 256)
    OBVIOUS
  <2>5. v \div 4096 = q \div 256
    BY <2>1, <2>2
  <2> QED
    BY <2>2, <2>3, <2>4, <2>5
<1> QED
  BY <1>1, <1>2, <1>3, <1>4

LEMMA ByteParts ==
  \A v \in B!Byte : v \div 16 \in B!Nibble /\ v % 16 \in B!Nibble /\ v = (v \div 16) * 16 + (v % 16)
<1> SUFFICES ASSUME NEW v \in B!Byte
             PROVE  v \div 16 \in B!Nibble /\ v % 16 \in B!Nibble /\ v = (v \div 16) * 16 + (v % 16)
  OBVIOUS
<1>1. v \in Nat /\ v <= 255
  BY DEF B!Byte
<1>2. v \div 16 \in B!Nibble /\ v % 16 \in B!Nibble
  BY <1>1 DEF B!Nibble
<1>3. v = (v \div 16) * 16 + (v % 16)
  BY <1>1
<1> QED
  BY <1>2, <1>3

(* Each setter changes the nibbles of its field, and no other. *)
LEMMA SetsFlag ==
  ASSUME NEW f \in BlyssFrame, NEW g, g = B!SetFlag(f)
  PROVE  g \in BlyssFrame /\ g[0] = 254 /\ \A b \in 1 .. 6 : g[b] = f[b]
<1>1. g = B!vSetBits(f, 0, 8, 254)
  BY DEF B!SetFlag, B!BLYSS_FLAG
<1>2. g = [b \in 0 .. 6 |-> g[b]]
  BY <1>1, SetsDomain
<1>3. g[0] = B!Shr(254, 0) % 256
  BY <1>1, SetsByte
<1>4. \A b \in 1 .. 6 : g[b] = f[b]
  BY <1>1, SetsByte
<1>5. g[0] = 254 /\ 254 \in B!Byte
  BY <1>3, Shifts DEF B!Byte
<1> QED
  BY <1>2, <1>4, <1>5, FrameHas, FrameIs

LEMMA SetsGlobal ==
  ASSUME NEW f \in BlyssFrame, NEW v \in B!Nibble, NEW g, g = B!SetGlobalChannel(f, v)
  PROVE  /\ g \in BlyssFrame /\ \A b \in 0 .. 6 : b # 1 => g[b] = f[b]
         /\ B!High(g[1]) = v /\ B!Low(g[1]) = B!Low(f[1])
<1>1. g = B!vSetBits(f, 8, 4, v)
  BY DEF B!SetGlobalChannel
<1>2. g = [b \in 0 .. 6 |-> g[b]]
  BY <1>1, SetsDomain
<1>3. g[1] = B!Low(f[1]) + B!Shl(B!Shr(v, 0), 4)
  BY <1>1, SetsByte
<1>4. \A b \in 0 .. 6 : b # 1 => g[b] = f[b]
  BY <1>1, SetsByte
<1>5. B!Low(f[1]) \in B!Nibble
  BY FrameHas
<1>6. g[1] = B!Low(f[1]) + 16 * v
  BY <1>3, ShiftedNibble
<1>7. g[1] \in B!Byte /\ B!High(g[1]) = v /\ B!Low(g[1]) = B!Low(f[1])
  BY <1>5, <1>6, OfNibbles
<1>8. g \in BlyssFrame
  BY <1>2, <1>4, <1>7, FrameHas, FrameIs
<1> QED
  BY <1>4, <1>7, <1>8

LEMMA SetsAddress ==
  ASSUME NEW f \in BlyssFrame, NEW v \in B!Word, NEW g, g = B!SetAddress(f, v)
  PROVE  /\ g \in BlyssFrame /\ \A b \in {0, 4, 5, 6} : g[b] = f[b]
         /\ B!High(g[1]) = B!High(f[1]) /\ B!Low(g[1]) = v \div 4096 /\ g[2] = (v \div 16) % 256
         /\ B!High(g[3]) = v % 16 /\ B!Low(g[3]) = B!Low(f[3])
<1>1. g = B!vSetBits(f, 12, 16, v)
  BY DEF B!SetAddress
<1>2. g = [b \in 0 .. 6 |-> g[b]]
  BY <1>1, SetsDomain
<1>3. g[1] = 16 * B!High(f[1]) + B!Shr(v, 12)
  BY <1>1, SetsByte
<1>4. g[2] = B!Shr(v, 4) % 256
  BY <1>1, SetsByte
<1>5. g[3] = B!Low(f[3]) + B!Shl(B!Shr(v, 0), 4)
  BY <1>1, SetsByte
<1>6. g[0] = f[0] /\ g[4] = f[4] /\ g[5] = f[5] /\ g[6] = f[6]
  BY <1>1, SetsByte
<1>7. v \div 4096 \in B!Nibble /\ (v \div 16) % 256 \in B!Byte /\ v % 16 \in B!Nibble
  BY WordParts
<1>8. B!High(f[1]) \in B!Nibble /\ B!Low(f[3]) \in B!Nibble
  BY FrameHas
<1>9. g[1] = 16 * B!High(f[1]) + (v \div 4096) /\ g[2] = (v \div 16) % 256 /\ g[3] = B!Low(f[3]) + 16 * (v % 16)
  BY <1>3, <1>4, <1>5, ShiftedWord
<1>10. g[1] \in B!Byte /\ B!High(g[1]) = B!High(f[1]) /\ B!Low(g[1]) = v \div 4096
  BY <1>7, <1>8, <1>9, OfNibbles
<1>11. g[3] \in B!Byte /\ B!High(g[3]) = v % 16 /\ B!Low(g[3]) = B!Low(f[3])
  BY <1>7, <1>8, <1>9, OfNibbles
<1>12. g \in BlyssFrame
  BY <1>2, <1>6, <1>7, <1>9, <1>10, <1>11, FrameHas, FrameIs
<1> QED
  BY <1>6, <1>9, <1>10, <1>11, <1>12

LEMMA SetsChannel ==
  ASSUME NEW f \in BlyssFrame, NEW c \in 0 .. 7, NEW g, g = B!SetChannel(f, c)
  PROVE  /\ g \in BlyssFrame /\ \A b \in 0 .. 6 : b # 3 => g[b] = f[b]
         /\ B!High(g[3]) = B!High(f[3]) /\ B!Low(g[3]) = B!channels[c + 1]
<1> DEFINE v == B!channels[c + 1]
<1>1. v \in B!Nibble /\ c < Len(B!channels) - 1
  BY DEF B!channels, B!Nibble
<1>2. g = B!vSetBits(f, 28, 4, v)
  BY <1>1 DEF B!SetChannel
<1> HIDE DEF v
<1>3. g = [b \in 0 .. 6 |-> g[b]]
  BY <1>2, SetsDomain
<1>4. g[3] = 16 * B!High(f[3]) + B!Shr(v, 0)
  BY <1>2, SetsByte
<1>5. \A b \in 0 .. 6 : b # 3 => g[b] = f[b]
  BY <1>2, SetsByte
<1>6. B!Shr(v, 0) = v
  BY <1>1, Shifts DEF B!Nibble
<1>7. g[3] \in B!Byte /\ B!High(g[3]) = B!High(f[3]) /\ B!Low(g[3]) = v
  BY <1>1, <1>4, <1>6, OfNibbles, FrameHas
<1>8. g \in BlyssFrame
  BY <1>3, <1>5, <1>7, FrameHas, FrameIs
<1> QED
  BY <1>5, <1>7, <1>8 DEF v

LEMMA SetsState ==
  ASSUME NEW f \in BlyssFrame, NEW on \in BOOLEAN, NEW g, g = B!SetState(f, on)
  PROVE  /\ g \in BlyssFrame /\ \A b \in 0 .. 6 : b # 4 => g[b] = f[b]
         /\ B!High(g[4]) = (IF on THEN 0 ELSE 1) /\ B!Low(g[4]) = B!Low(f[4])
<1> DEFINE v == IF on THEN 0 ELSE 1
<1>1. g = B!vSetBits(f, 32, 4, v) /\ v \in B!Nibble
  BY DEF B!SetState, B!Nibble
<1> HIDE DEF v
<1>2. g = [b \in 0 .. 6 |-> g[b]]
  BY <1>1, SetsDomain
<1>3. g[4] = B!Low(f[4]) + B!Shl(B!Shr(v, 0), 4)
  BY <1>1, SetsByte
<1>4. \A b \in 0 .. 6 : b # 4 => g[b] = f[b]
  BY <1>1, SetsByte
<1>5. g[4] = B!Low(f[4]) + 16 * v
  BY <1>1, <1>3, ShiftedNibble
<1>6. g[4] \in B!Byte /\ B!High(g[4]) = v /\ B!Low(g[4]) = B!Low(f[4])
  BY <1>1, <1>5, OfNibbles, FrameHas
<1>7. g \in BlyssFrame
  BY <1>2, <1>4, <1>6, FrameHas, FrameIs
<1> QED
  BY <1>4, <1>6, <1>7 DEF v

(* A byte that begins at pos, in the middle of b, and ends in the middle  *)
(* of the next one.                                                        *)
Middle(pos, b) == b \in 0 .. 5 /\ pos = 8 * b + 4

LEMMA SetsAcross ==
  ASSUME NEW f \in BlyssFrame, NEW pos, NEW b, Middle(pos, b), NEW v \in B!Byte, NEW g, g = B!vSetBits(f, pos, 8, v)
  PROVE  /\ g \in BlyssFrame /\ \A i \in 0 .. 6 : i # b /\ i # b + 1 => g[i] = f[i]
         /\ B!High(g[b]) = B!High(f[b]) /\ B!Low(g[b]) = v \div 16
         /\ B!High(g[b + 1]) = v % 16 /\ B!Low(g[b + 1]) = B!Low(f[b + 1])
<1> DEFINE n == b + 1
<1>1. g = [i \in 0 .. 6 |-> g[i]]
  BY SetsDomain
<1>2. b \in 0 .. 5 /\ pos = 8 * b + 4 /\ pos \in Nat /\ b \in 0 .. 6 /\ n \in 0 .. 6 /\ pos <= 8 * n /\ pos + 8 = 8 * n + 4
  BY DEF Middle
<1>3. v \in B!Word
  BY DEF B!Byte, B!Word
<1>4. g[b] = 16 * B!High(f[b]) + B!Shr(v, 4)
  BY <1>2, SetsByte
<1>5. g[n] = B!Low(f[n]) + B!Shl(B!Shr(v, 0), 4)
  BY <1>2, SetsByte
<1>6. ASSUME NEW i \in 0 .. 6, i # b, i # b + 1 PROVE g[i] = f[i]
  <2>1. pos > 8 * i + 4 \/ pos + 8 <= 8 * i
    BY <1>2, <1>6
  <2> QED
    BY <1>2, <2>1, SetsByte
<1>7. g[b] = 16 * B!High(f[b]) + (v \div 16) /\ g[n] = B!Low(f[n]) + 16 * (v % 16)
  BY <1>3, <1>4, <1>5, ShiftedWord
<1>8. B!High(f[b]) \in B!Nibble /\ B!Low(f[n]) \in B!Nibble /\ v \div 16 \in B!Nibble /\ v % 16 \in B!Nibble
  BY <1>2, FrameHas, ByteParts
<1>9. g[b] \in B!Byte /\ B!High(g[b]) = B!High(f[b]) /\ B!Low(g[b]) = v \div 16
  BY <1>7, <1>8, OfNibbles
<1>10. g[n] \in B!Byte /\ B!High(g[n]) = v % 16 /\ B!Low(g[n]) = B!Low(f[n])
  BY <1>7, <1>8, OfNibbles
<1>11. \A i \in 0 .. 6 : g[i] \in B!Byte
  BY <1>6, <1>9, <1>10, FrameHas
<1> QED
  BY <1>1, <1>6, <1>9, <1>10, <1>11 DEF BlyssFrame

-----------------------------------------------------------------------------
(* The invariant of the remote control. *)
BlyssType ==
  /\ raw \in BlyssFrame /\ roll_idx \in 0 .. 4 /\ last_token \in B!Byte
  /\ fields \in [global : B!Nibble, address : B!Word, channel : 0 .. 7, on : BOOLEAN]

(* The frame holds what the application asked. *)
Holds(f, sought) ==
  /\ f[0] = B!BLYSS_FLAG
  /\ B!High(f[1]) = sought.global
  /\ B!Low(f[1]) * 4096 + f[2] * 16 + B!High(f[3]) = sought.address
  /\ B!Low(f[3]) = B!channels[sought.channel + 1]
  /\ B!High(f[4]) = IF sought.on THEN 0 ELSE 1

(* What was heard, with the token that was sent. *)
Sent(f) ==
  /\ f \in BlyssFrame /\ Holds(f, sendAsked)
  /\ \E k \in 1 .. 5 : B!Low(f[4]) * 16 + B!High(f[5]) = B!barrel[k]
  /\ (B!Low(f[5]) * 16 + B!High(f[6]) + 10) % 256 = last_token

BlyssInv ==
  /\ BlyssType /\ Holds(raw, fields)
  /\ sendAsked \in [global : B!Nibble, address : B!Word, channel : 0 .. 7, on : BOOLEAN]
  /\ \A f \in heard : Sent(f) /\ \A g \in earlier : B!ucToken(f) # B!ucToken(g)

(* What Sent says is what a receiver reads. *)
LEMMA Decodes ==
  ASSUME NEW c \in 0 .. 7
  PROVE  B!ucDecodeChannel(B!channels[c + 1]) = c
<1>1. Len(B!channels) = 9 /\ \A i, j \in 1 .. 9 : B!channels[i] = B!channels[j] => i = j
  BY DEF B!channels
<1>2. c + 1 \in 1 .. Len(B!channels)
  BY <1>1
<1> DEFINE i == CHOOSE i \in 1 .. Len(B!channels) : B!channels[i] = B!channels[c + 1]
<1>3. i \in 1 .. Len(B!channels) /\ B!channels[i] = B!channels[c + 1]
  BY <1>2
<1>4. B!ucDecodeChannel(B!channels[c + 1]) = i - 1
  BY <1>2 DEF B!ucDecodeChannel
<1> HIDE DEF i
<1>5. i = c + 1
  BY <1>1, <1>2, <1>3
<1> QED
  BY <1>4, <1>5

LEMMA SentIsValid ==
  ASSUME BlyssInv, NEW f \in heard
  PROVE  B!bBlyssFrameIsValid(f) /\ B!Fields(f) = sendAsked
<1>1. f \in BlyssFrame /\ Holds(f, sendAsked) /\ \E k \in 1 .. 5 : B!Low(f[4]) * 16 + B!High(f[5]) = B!barrel[k]
  BY DEF BlyssInv, Sent
<1>2. sendAsked \in [global : B!Nibble, address : B!Word, channel : 0 .. 7, on : BOOLEAN]
  BY DEF BlyssInv
<1>3. B!bBlyssFrameIsValid(f)
  <2>1. Len(B!barrel) = 5
    BY DEF B!barrel
  <2>2. B!usGetBits(f, 36, 8) = B!Low(f[4]) * 16 + B!High(f[5])
    BY <1>1, Getters
  <2> QED
    BY <1>1, <2>1, <2>2 DEF B!bBlyssFrameIsValid, Holds
<1>4. B!Fields(f) = [global |-> sendAsked.global, address |-> sendAsked.address, channel |-> sendAsked.channel, on |-> sendAsked.on]
  <2>1. B!usGetBits(f, 8, 4) = sendAsked.global /\ B!usGetBits(f, 12, 16) = sendAsked.address
        /\ B!usGetBits(f, 28, 4) = B!channels[sendAsked.channel + 1]
        /\ B!usGetBits(f, 32, 4) = IF sendAsked.on THEN 0 ELSE 1
    BY <1>1, Getters DEF Holds
  <2>2. sendAsked.on \in BOOLEAN /\ (B!usGetBits(f, 32, 4) = 0) = sendAsked.on
    BY <1>2, <2>1
  <2>3. B!ucDecodeChannel(B!usGetBits(f, 28, 4)) = sendAsked.channel
    BY <1>2, <2>1, Decodes
  <2> QED
    BY <2>1, <2>2, <2>3 DEF B!Fields
<1> QED
  BY <1>2, <1>3, <1>4

(* The setters put what they are given where it is read. *)
LEMMA TxIdHolds ==
  ASSUME NEW f \in BlyssFrame, NEW sought, Holds(f, sought), NEW a \in B!Nibble, NEW d \in B!Word,
         NEW g, g = B!SetAddress(B!SetGlobalChannel(f, a), d)
  PROVE  /\ g \in BlyssFrame
         /\ \A new : new.global = a /\ new.address = d /\ new.channel = sought.channel /\ new.on = sought.on
              => Holds(g, new)
<1>1. PICK h : h = B!SetGlobalChannel(f, a)
  OBVIOUS
<1>2. /\ h \in BlyssFrame /\ \A b \in 0 .. 6 : b # 1 => h[b] = f[b]
      /\ B!High(h[1]) = a
  BY <1>1, SetsGlobal
<1>3. /\ g \in BlyssFrame /\ \A b \in {0, 4, 5, 6} : g[b] = h[b]
      /\ B!High(g[1]) = B!High(h[1]) /\ B!Low(g[1]) = d \div 4096 /\ g[2] = (d \div 16) % 256
      /\ B!High(g[3]) = d % 16 /\ B!Low(g[3]) = B!Low(h[3])
  BY <1>1, <1>2, SetsAddress
<1>4. (d \div 4096) * 4096 + ((d \div 16) % 256) * 16 + (d % 16) = d
  BY WordParts
<1>5. B!Low(g[1]) * 4096 + g[2] * 16 + B!High(g[3]) = d
  BY <1>3, <1>4
<1>6. g[0] = f[0] /\ g[4] = f[4] /\ B!Low(g[3]) = B!Low(f[3]) /\ B!High(g[1]) = a
  BY <1>2, <1>3
<1> QED
  BY <1>3, <1>5, <1>6 DEF Holds

LEMMA ChannelHolds ==
  ASSUME NEW f \in BlyssFrame, NEW sought, Holds(f, sought), NEW c \in 0 .. 7, NEW g, g = B!SetChannel(f, c)
  PROVE  /\ g \in BlyssFrame
         /\ \A new : new.global = sought.global /\ new.address = sought.address /\ new.channel = c /\ new.on = sought.on
              => Holds(g, new)
<1>1. /\ g \in BlyssFrame /\ \A b \in 0 .. 6 : b # 3 => g[b] = f[b]
      /\ B!High(g[3]) = B!High(f[3]) /\ B!Low(g[3]) = B!channels[c + 1]
  BY SetsChannel
<1>2. g[0] = f[0] /\ g[1] = f[1] /\ g[2] = f[2] /\ g[4] = f[4]
  BY <1>1
<1> QED
  BY <1>1, <1>2 DEF Holds

LEMMA StateHolds ==
  ASSUME NEW f \in BlyssFrame, NEW sought, Holds(f, sought), NEW on \in BOOLEAN, NEW g, g = B!SetState(f, on)
  PROVE  /\ g \in BlyssFrame
         /\ \A new : new.global = sought.global /\ new.address = sought.address /\ new.channel = sought.channel /\ new.on = on
              => Holds(g, new)
<1>1. /\ g \in BlyssFrame /\ \A b \in 0 .. 6 : b # 4 => g[b] = f[b]
      /\ B!High(g[4]) = IF on THEN 0 ELSE 1
  BY SetsState
<1>2. g[0] = f[0] /\ g[1] = f[1] /\ g[2] = f[2] /\ g[3] = f[3]
  BY <1>1
<1> QED
  BY <1>1, <1>2 DEF Holds

(* The frame that is sent: the rolling code and the token beside the       *)
(* fields.                                                                 *)
LEMMA SentHolds ==
  ASSUME NEW f \in BlyssFrame, NEW sought, Holds(f, sought), NEW code \in B!Byte, NEW t \in B!Byte,
         NEW g, g = B!SetToken(B!SetRollingCode(f, code), t)
  PROVE  /\ g \in BlyssFrame /\ Holds(g, sought)
         /\ B!Low(g[4]) * 16 + B!High(g[5]) = code /\ B!Low(g[5]) * 16 + B!High(g[6]) = t
<1>1. PICK h : h = B!SetRollingCode(f, code)
  OBVIOUS
<1>2. h = B!vSetBits(f, 36, 8, code)
  BY <1>1 DEF B!SetRollingCode
<1>3. /\ h \in BlyssFrame /\ \A i \in 0 .. 6 : i # 4 /\ i # 5 => h[i] = f[i]
      /\ B!High(h[4]) = B!High(f[4]) /\ B!Low(h[4]) = code \div 16
      /\ B!High(h[5]) = code % 16
  <2>1. PICK b : b = 4 /\ Middle(36, b)
    BY DEF Middle
  <2>3. /\ h \in BlyssFrame /\ \A i \in 0 .. 6 : i # b /\ i # b + 1 => h[i] = f[i]
        /\ B!High(h[b]) = B!High(f[b]) /\ B!Low(h[b]) = code \div 16
        /\ B!High(h[b + 1]) = code % 16
    BY <1>2, <2>1, SetsAcross
  <2> QED
    BY <2>1, <2>3
<1>4. g = B!vSetBits(h, 44, 8, t)
  BY <1>1 DEF B!SetToken
<1>5. /\ g \in BlyssFrame /\ \A i \in 0 .. 6 : i # 5 /\ i # 6 => g[i] = h[i]
      /\ B!High(g[5]) = B!High(h[5]) /\ B!Low(g[5]) = t \div 16
      /\ B!High(g[6]) = t % 16
  <2>1. PICK b : b = 5 /\ Middle(44, b)
    BY DEF Middle
  <2>3. /\ g \in BlyssFrame /\ \A i \in 0 .. 6 : i # b /\ i # b + 1 => g[i] = h[i]
        /\ B!High(g[b]) = B!High(h[b]) /\ B!Low(g[b]) = t \div 16
        /\ B!High(g[b + 1]) = t % 16
    BY <1>3, <1>4, <2>1, SetsAcross
  <2> QED
    BY <2>1, <2>3
<1>6. (code \div 16) * 16 + (code % 16) = code /\ (t \div 16) * 16 + (t % 16) = t
  BY ByteParts
<1>7. g[0] = f[0] /\ g[1] = f[1] /\ g[2] = f[2] /\ g[3] = f[3] /\ g[4] = h[4]
  BY <1>3, <1>5
<1>8. B!Low(g[4]) * 16 + B!High(g[5]) = code /\ B!Low(g[5]) * 16 + B!High(g[6]) = t
  BY <1>3, <1>5, <1>6, <1>7
<1> QED
  BY <1>3, <1>5, <1>7, <1>8 DEF Holds

(* What is decoded holds the same. *)
LEMMA DecodedHolds ==
  ASSUME NEW f \in BlyssFrame, NEW sought, Holds(f, sought), NEW d, d = B!Decoded(B!iSendFrame(f))
  PROVE  /\ d \in BlyssFrame /\ Holds(d, sought) /\ d[4] = f[4] /\ d[5] = f[5] /\ B!High(d[6]) = B!High(f[6])
<1>1. d \in BlyssFrame /\ (\A b \in 0 .. 5 : d[b] = f[b]) /\ d[6] = 16 * B!High(f[6])
  BY DecodedIs
<1>2. d[0] = f[0] /\ d[1] = f[1] /\ d[2] = f[2] /\ d[3] = f[3] /\ d[4] = f[4] /\ d[5] = f[5]
  BY <1>1
<1>3. B!High(d[6]) = B!High(f[6])
  <2>1. B!High(f[6]) \in B!Nibble /\ 0 \in B!Nibble
    BY FrameHas DEF B!Nibble
  <2>2. d[6] = 16 * B!High(f[6]) + 0
    BY <1>1, <2>1 DEF B!Nibble
  <2> QED
    BY <2>1, <2>2, OfNibbles
<1> QED
  BY <1>1, <1>2, <1>3 DEF Holds

LEMMA WhatIsAsked ==
  /\ \A a \in GlobalChannels : a \in B!Nibble
  /\ \A d \in Addresses : d \in B!Word
  /\ \A c \in Channels : c \in 0 .. 7
  /\ \A t \in Seeds : t \in B!Byte
BY Assumptions DEF B!BlyssAssumption, B!Channel

LEMMA BlyssInit == B!Init => BlyssInv
<1> SUFFICES ASSUME B!Init PROVE BlyssInv
  OBVIOUS
<1>1. PICK a \in GlobalChannels, d \in Addresses :
        /\ raw = B!SetAddress(B!SetGlobalChannel(B!SetFlag([b \in 0 .. 6 |-> 0]), a), d)
        /\ fields = [global |-> a, address |-> d, channel |-> 0, on |-> TRUE]
        /\ roll_idx = 0 /\ last_token \in Seeds
        /\ heard = {} /\ sendAsked = fields
  BY DEF B!Init
<1>2. a \in B!Nibble /\ d \in B!Word /\ last_token \in B!Byte
  BY <1>1, WhatIsAsked
<1>3. PICK z : z = [b \in 0 .. 6 |-> 0]
  OBVIOUS
<1>4. z \in BlyssFrame /\ \A b \in 0 .. 6 : z[b] = 0
  BY <1>3 DEF BlyssFrame, B!Byte
<1>5. PICK f : f = B!SetFlag(z)
  OBVIOUS
<1>6. f \in BlyssFrame /\ f[0] = 254 /\ f[1] = 0 /\ f[2] = 0 /\ f[3] = 0 /\ f[4] = 0
  BY <1>4, <1>5, SetsFlag
<1>7. B!High(0) = 0 /\ B!Low(0) = 0
  BY DEF B!High, B!Low
<1>8. PICK sought : sought = [global |-> 0, address |-> 0, channel |-> 0, on |-> TRUE]
  OBVIOUS
<1>9. Holds(f, sought)
  BY <1>6, <1>7, <1>8 DEF Holds, B!channels, B!BLYSS_FLAG
<1>10. raw = B!SetAddress(B!SetGlobalChannel(f, a), d)
  BY <1>1, <1>3, <1>5
<1>11. raw \in BlyssFrame
  BY <1>2, <1>6, <1>9, <1>10, TxIdHolds
<1>12. fields.global = a /\ fields.address = d /\ fields.channel = sought.channel /\ fields.on = sought.on
  BY <1>1, <1>8
<1>13. Holds(raw, fields)
  BY <1>2, <1>6, <1>9, <1>10, <1>12, TxIdHolds
<1>14. fields \in [global : B!Nibble, address : B!Word, channel : 0 .. 7, on : BOOLEAN]
  BY <1>1, <1>2
<1> QED
  BY <1>1, <1>2, <1>11, <1>13, <1>14 DEF BlyssInv, BlyssType

LEMMA SettingKeeps ==
  ASSUME BlyssInv, NEW f \in BlyssFrame, NEW sought \in [global : B!Nibble, address : B!Word, channel : 0 .. 7, on : BOOLEAN],
         Holds(f, sought), B!Set(f, sought)
  PROVE  BlyssInv'
<1>1. raw' = f /\ fields' = sought /\ UNCHANGED <<roll_idx, last_token, heard, sendAsked, earlier>>
  BY DEF B!Set
<1> QED
  BY <1>1 DEF BlyssInv, BlyssType, Sent

LEMMA SendKeeps ==
  ASSUME BlyssInv, NEW repeat \in {0, 1, 2}, B!iBlyssSend(repeat)
  PROVE  BlyssInv'
<1>1. PICK code : code = B!barrel[roll_idx + 1]
  OBVIOUS
<1>2. code \in B!Byte /\ \E k \in 1 .. 5 : code = B!barrel[k]
  <2>1. \A k \in 1 .. 5 : B!barrel[k] \in B!Byte
    BY DEF B!barrel, B!Byte
  <2>2. roll_idx + 1 \in 1 .. 5
    BY DEF BlyssInv, BlyssType
  <2> QED
    BY <1>1, <2>1, <2>2
<1>3. /\ raw' = B!SetToken(B!SetRollingCode(raw, code), last_token)
      /\ roll_idx' = (roll_idx + 1) % Len(B!barrel) /\ last_token' = (last_token + 10) % 256
      /\ heard' = (IF repeat = 0 THEN {} ELSE {B!Decoded(B!iSendFrame(raw'))})
      /\ sendAsked' = fields /\ earlier' = heard /\ UNCHANGED fields
  BY <1>1 DEF B!iBlyssSend
<1>4. /\ raw \in BlyssFrame /\ Holds(raw, fields) /\ last_token \in B!Byte /\ roll_idx \in 0 .. 4
      /\ fields \in [global : B!Nibble, address : B!Word, channel : 0 .. 7, on : BOOLEAN]
  BY DEF BlyssInv, BlyssType
<1>5. PICK g : g = raw'
  OBVIOUS
<1>6. /\ g \in BlyssFrame /\ Holds(g, fields)
      /\ B!Low(g[4]) * 16 + B!High(g[5]) = code /\ B!Low(g[5]) * 16 + B!High(g[6]) = last_token
  BY <1>2, <1>3, <1>4, <1>5, SentHolds
<1>7. roll_idx' \in 0 .. 4 /\ last_token' \in B!Byte /\ last_token' # last_token
  <2>1. Len(B!barrel) = 5
    BY DEF B!barrel
  <2> QED
    BY <1>3, <1>4, <2>1 DEF B!Byte
<1>8. BlyssType' /\ Holds(raw', fields')
  BY <1>3, <1>4, <1>5, <1>6, <1>7 DEF BlyssType
<1>9. ASSUME NEW d, d \in heard'
      PROVE  Sent(d)' /\ \A h \in heard : B!ucToken(d) # B!ucToken(h)
  <2>1. d = B!Decoded(B!iSendFrame(g))
    BY <1>3, <1>5, <1>9
  <2>2. d \in BlyssFrame /\ Holds(d, fields) /\ d[4] = g[4] /\ d[5] = g[5] /\ B!High(d[6]) = B!High(g[6])
    BY <1>6, <2>1, DecodedHolds
  <2>3. B!Low(d[4]) * 16 + B!High(d[5]) = code /\ B!Low(d[5]) * 16 + B!High(d[6]) = last_token
    BY <1>6, <2>2
  <2>4. Sent(d)'
    BY <1>2, <1>3, <2>2, <2>3 DEF Sent
  <2>5. ASSUME NEW h \in heard PROVE B!ucToken(d) # B!ucToken(h)
    <3>1. Sent(h)
      BY DEF BlyssInv
    <3>2. B!ucToken(d) = last_token
      BY <2>2, <2>3, Getters DEF B!ucToken
    <3>3. B!ucToken(h) = B!Low(h[5]) * 16 + B!High(h[6]) /\ (B!ucToken(h) + 10) % 256 = last_token
      BY <3>1, Getters DEF B!ucToken, Sent
    <3> QED
      BY <1>3, <1>7, <3>2, <3>3
  <2> QED
    BY <2>4, <2>5
<1> QED
  BY <1>3, <1>4, <1>8, <1>9 DEF BlyssInv

LEMMA BlyssStep == BlyssInv /\ [B!Next]_(B!vars) => BlyssInv'
<1> SUFFICES ASSUME BlyssInv, [B!Next]_(B!vars) PROVE BlyssInv'
  OBVIOUS
<1>1. /\ raw \in BlyssFrame /\ Holds(raw, fields)
      /\ fields \in [global : B!Nibble, address : B!Word, channel : 0 .. 7, on : BOOLEAN]
  BY DEF BlyssInv, BlyssType
<1>2. ASSUME NEW a \in GlobalChannels, NEW d \in Addresses, B!vBlyssFrameSetTxId(a, d) PROVE BlyssInv'
  <2>1. a \in B!Nibble /\ d \in B!Word
    BY WhatIsAsked
  <2>2. PICK f, sought : f = B!SetAddress(B!SetGlobalChannel(raw, a), d) /\ sought = [fields EXCEPT !.global = a, !.address = d]
    OBVIOUS
  <2>3. /\ sought \in [global : B!Nibble, address : B!Word, channel : 0 .. 7, on : BOOLEAN]
        /\ sought.global = a /\ sought.address = d /\ sought.channel = fields.channel /\ sought.on = fields.on
    BY <1>1, <2>1, <2>2
  <2>4. f \in BlyssFrame /\ Holds(f, sought)
    BY <1>1, <2>1, <2>2, <2>3, TxIdHolds
  <2> QED
    BY <1>2, <2>2, <2>3, <2>4, SettingKeeps DEF B!vBlyssFrameSetTxId
<1>3. ASSUME NEW c \in Channels, B!vBlyssFrameSetChannel(c) PROVE BlyssInv'
  <2>1. c \in 0 .. 7
    BY WhatIsAsked
  <2>2. PICK f, sought : f = B!SetChannel(raw, c) /\ sought = [fields EXCEPT !.channel = c]
    OBVIOUS
  <2>3. /\ sought \in [global : B!Nibble, address : B!Word, channel : 0 .. 7, on : BOOLEAN]
        /\ sought.global = fields.global /\ sought.address = fields.address /\ sought.channel = c /\ sought.on = fields.on
    BY <1>1, <2>1, <2>2
  <2>4. f \in BlyssFrame /\ Holds(f, sought)
    BY <1>1, <2>1, <2>2, <2>3, ChannelHolds
  <2> QED
    BY <1>3, <2>2, <2>3, <2>4, SettingKeeps DEF B!vBlyssFrameSetChannel
<1>4. ASSUME NEW on \in BOOLEAN, B!vBlyssFrameSetState(on) PROVE BlyssInv'
  <2>2. PICK f, sought : f = B!SetState(raw, on) /\ sought = [fields EXCEPT !.on = on]
    OBVIOUS
  <2>3. /\ sought \in [global : B!Nibble, address : B!Word, channel : 0 .. 7, on : BOOLEAN]
        /\ sought.global = fields.global /\ sought.address = fields.address /\ sought.channel = fields.channel /\ sought.on = on
    BY <1>1, <2>2
  <2>4. f \in BlyssFrame /\ Holds(f, sought)
    BY <1>1, <2>2, <2>3, StateHolds
  <2> QED
    BY <1>4, <2>2, <2>3, <2>4, SettingKeeps DEF B!vBlyssFrameSetState
<1>5. ASSUME NEW repeat \in {0, 1, 2}, B!iBlyssSend(repeat) PROVE BlyssInv'
  BY <1>5, SendKeeps
<1>6. CASE UNCHANGED B!vars
  BY <1>6 DEF B!vars, BlyssInv, BlyssType, Sent
<1> QED
  BY <1>2, <1>3, <1>4, <1>5, <1>6 DEF B!Next

(* What a receiver hears is a valid frame that holds all that was asked,   *)
(* in whatever order the setters of src/gpio/blyss.c were called, and its  *)
(* token is not the one of the sending before.                             *)
THEOREM WhatIsHeardWasAsked == B!Spec => []HeardIsAsked
<1>1. BlyssInv => HeardIsAsked
  BY SentIsValid DEF BlyssInv, HeardIsAsked, B!HeardIsAsked
<1> QED
  BY <1>1, BlyssInit, BlyssStep, PTL DEF B!Spec

-----------------------------------------------------------------------------
(* The pin of the system files: who has the file "value", and what its     *)
(* steps may be.                                                           *)
PinType ==
  /\ pending \in BOOLEAN /\ valueFd \in BOOLEAN /\ run \in BOOLEAN /\ unseen \in BOOLEAN
  /\ isopen \in BOOLEAN /\ useSysFs \in BOOLEAN
  /\ irq \in {"none", "test", "poll", "isr", "return", "ended", "crashed"}
  /\ irqFd \in {"none", "value", "closed"}
  /\ caller \in {"idle", "close", "disable", "attach", "start", "join", "first", "wait"}

(* A thread that runs has the file of the pin as long as the pin has it;   *)
(* calls that clear its event come when no thread runs, or have just       *)
(* closed it.                                                              *)
WaitInv ==
  /\ irqFd = "value" /\ irq # "none" => valueFd
  /\ run => irq \in {"test", "poll", "isr", "return", "crashed"}
  /\ caller \in {"attach", "start", "first", "wait"} => irq = "none"
  /\ caller \in {"close", "disable"} => ~ valueFd
  /\ caller = "first" => ~ unseen

(* A change that somebody waits for and that nobody has read is still in   *)
(* the file "value", where poll finds it.                                  *)
ChangeKept == unseen /\ P!Watched => pending

PinInv == PinType /\ WaitInv /\ ChangeKept

LEMMA PinStep == PinInv /\ [P!Next]_(P!vars) => PinInv'
<1> SUFFICES ASSUME PinInv, [P!Next]_(P!vars) PROVE PinInv'
  OBVIOUS
<1> USE DEF PinInv, PinType, WaitInv, ChangeKept, P!Watched, P!vars, P!kernelVars, P!pinVars, P!threadVars,
            P!EnableSysFs, P!Prepare, P!sysFsClose, P!Idle, P!ThreadStep
<1>1. CASE P!Change
  <2>1. CASE valueFd /\ (fileEdge = "both" \/ (fileEdge = "rising" /\ ~ signal))
    BY <1>1, <2>1 DEF P!Change
  <2>2. CASE ~ (valueFd /\ (fileEdge = "both" \/ (fileEdge = "rising" /\ ~ signal)))
    BY <1>1, <2>2 DEF P!Change
  <2> QED
    BY <2>1, <2>2
<1>2. CASE P!irqThread
  <2>1. CASE P!WhileRun
    BY <2>1 DEF P!WhileRun
  <2>2. CASE P!PollReady
    BY <2>2 DEF P!PollReady
  <2>3. CASE P!PollTimeout
    BY <2>3 DEF P!PollTimeout
  <2>4. CASE P!IsrRead
    BY <2>4 DEF P!IsrRead
  <2>5. CASE P!IsrReturns
    BY <2>5 DEF P!IsrReturns
  <2> QED
    BY <1>2, <2>1, <2>2, <2>3, <2>4, <2>5 DEF P!irqThread
<1>3. CASE P!CallNext
  <2>1. CASE P!Unexport
    BY <2>1 DEF P!Unexport
  <2>2. CASE P!ClearPending
    BY <2>2 DEF P!ClearPending
  <2>3. CASE P!StartThread
    BY <2>3 DEF P!StartThread
  <2>4. CASE P!Join
    BY <2>4 DEF P!Join
  <2>5. CASE P!FirstPolling
    BY <2>5 DEF P!FirstPolling
  <2>6. CASE P!WaitReturns
    BY <2>6 DEF P!WaitReturns
  <2> QED
    BY <1>3, <2>1, <2>2, <2>3, <2>4, <2>5, <2>6 DEF P!CallNext
<1>4. CASE P!WaitTimeout
  BY <1>4 DEF P!WaitTimeout
<1>5. CASE P!open
  BY <1>5 DEF P!open
<1>0. ASSUME NEW to \in {"close", "disable"}, P!Disable(to) PROVE PinInv'
  <2>1. PinType'
    BY <1>0 DEF P!Disable
  <2>2. WaitInv'
    BY <1>0 DEF P!Disable
  <2>3. ~ P!Watched'
    BY <1>0 DEF P!Disable
  <2> QED
    BY <2>1, <2>2, <2>3
<1>6. CASE P!close
  <2>1. CASE P!Disable("close")
    BY <1>0, <2>1
  <2>2. CASE /\ P!Idle /\ isopen /\ ~ useSysFs /\ isopen' = FALSE
             /\ UNCHANGED <<P!kernelVars, useSysFs, valueFd, firstPolling, edge, run, P!threadVars, caller, unseen>>
    BY <2>2
  <2> QED
    BY <1>6, <2>1, <2>2 DEF P!close
<1>7. CASE P!read
  BY <1>7 DEF P!read
<1>8. CASE P!detachInterrupt
  BY <1>8 DEF P!detachInterrupt
<1>9. ASSUME NEW enable \in BOOLEAN, P!forceUseSysFs(enable) PROVE PinInv'
  <2>1. CASE P!Disable("disable")
    BY <1>0, <2>1
  <2>2. CASE P!Idle /\ P!EnableSysFs(edge) /\ UNCHANGED <<signal, isopen, firstPolling, run, P!threadVars, caller, unseen>>
    BY <2>2
  <2>3. CASE /\ useSysFs' = enable /\ UNCHANGED <<valueFd, pending, edge, fileEdge>>
             /\ UNCHANGED <<signal, isopen, firstPolling, run, P!threadVars, caller, unseen>>
    BY <2>3
  <2> QED
    BY <1>9, <2>1, <2>2, <2>3 DEF P!forceUseSysFs
<1>10. ASSUME NEW e \in Edges, P!setEdge(e) PROVE PinInv'
  BY <1>10 DEF P!setEdge
<1>11. ASSUME NEW e \in Edges, P!attachInterrupt(e) PROVE PinInv'
  BY <1>11 DEF P!attachInterrupt
<1>12. ASSUME NEW e \in Edges, P!waitForInterrupt(e) PROVE PinInv'
  BY <1>12 DEF P!waitForInterrupt
<1>13. CASE UNCHANGED P!vars
  BY <1>13
<1> QED
  BY <1>1, <1>2, <1>3, <1>4, <1>5, <1>6, <1>7, <1>8, <1>9, <1>10, <1>11, <1>12, <1>13 DEF P!Next

(* No change is lost while a routine is attached or waitForInterrupt       *)
(* waits (src/gpio/gpiopin.cpp): opening, closing, the layers of access,   *)
(* the setting of edges and the clearing of old events take none away that *)
(* was not read.                                                           *)
THEOREM ChangeIsKept == P!Spec => []ChangeKept
<1>1. P!Init => PinInv
  BY DEF P!Init, PinInv, PinType, WaitInv, ChangeKept, P!Watched
<1>2. PinInv => ChangeKept
  BY DEF PinInv
<1> QED
  BY <1>1, <1>2, PinStep, PTL DEF P!Spec
=============================================================================
