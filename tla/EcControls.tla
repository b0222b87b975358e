---------------------------- MODULE EcControls ----------------------------
(***************************************************************************)
(* The settings of msi-wmi-platform.c that are one EC register each: the   *)
(* charge threshold, the camera, the power limits and the LEDs.  Stores    *)
(* and reads of the first three go straight to the EC.  A LED belongs to   *)
(* the LED core, which keeps its brightness, hands it to the driver from a *)
(* work item, and turns it off and on again around sleeps.                 *)
(*                                                                         *)
(* A call of the register helpers is one step (see WmiAccess).  External:  *)
(* the LED core, its triggers and what firmware does in a sleep.           *)
(***************************************************************************)
EXTENDS Integers

CONSTANTS
  BitLeds,    \* LEDs that are one bit of their register
  ByteLeds,   \* LEDs whose register is their brightness
  Triggered,  \* LEDs that a kernel trigger may set at any time
  Brightness, \* what LEDs are set to
  Requests,   \* what is stored: values by setting
  PlMin,      \* model->pl_min
  PlMax,      \* model->pl1_max and model->pl2_max, by limit
  Firmware,   \* what firmware may leave in the registers of the settings
  None        \* nothing

Limits   == {"PL1", "PL2"}
Settings == {"charge", "camera"} \union Limits
Leds     == BitLeds \union ByteLeds
Byte     == 0 .. 255

ASSUME ControlsAssumption ==
  /\ BitLeds \intersect ByteLeds = {} /\ Triggered \subseteq Leds
  /\ Brightness \subseteq Nat
  /\ Requests \in [Settings -> SUBSET Int]
  /\ PlMin \in Nat
  /\ PlMax \in [Limits -> Byte]
  /\ Firmware # {} /\ Firmware \subseteq [Settings -> Byte]
  /\ None \notin Int

VARIABLES
  phase,      \* "unbound", "up", "unbinding", "suspending", "asleep", "waking"
  reg,        \* the registers of the settings
  asked,      \* (history) what was stored last, None if that is not known
  ec,         \* the registers of the LEDs
  cache,      \* cdev->brightness of each LED
  due,        \* what its work item will pass to the driver, or None
  passed,     \* what the driver is setting, or None
  known       \* (history) the LED was set, and no call has failed since

ledVars  == <<ec, cache, due, passed, known>>
settings == <<reg, asked>>
vars == <<phase, settings, ledVars>>

MaxBrightness(l) == IF l \in BitLeds THEN 1 ELSE 255

\* msi_led_brightness_set: the bit, or the whole register.
Lit(l, brightness) ==
  IF l \in ByteLeds THEN brightness ELSE IF brightness # 0 THEN 1 ELSE 0

Init ==
  /\ phase = "unbound"
  /\ reg \in Firmware /\ asked = [s \in Settings |-> None]
  /\ ec \in [Leds -> {0, 1}]
  /\ cache = [l \in Leds |-> 0]
  /\ due = [l \in Leds |-> None] /\ passed = [l \in Leds |-> None]
  /\ known = [l \in Leds |-> FALSE]

-----------------------------------------------------------------------------
(* The settings.                                                           *)

\* One call of the firmware.  A failing one may have had its effect.
Writes(s, r, v) ==
  /\ phase = "up"
  /\ \/ reg' = [reg EXCEPT ![s] = r] /\ asked' = [asked EXCEPT ![s] = v]
     \/ reg' \in {reg, [reg EXCEPT ![s] = r]} /\ asked' = [asked EXCEPT ![s] = None]
  /\ UNCHANGED <<phase, ledVars>>

\* Mutant: the bit that enables the threshold is added.
ThresholdSum(v) == 128 + v

\* The low byte of v | BIT(7).
Threshold(v) == 128 + (v % 128)

\* There is no lower bound.
StoreThreshold ==
  \E v \in Requests["charge"] : v <= 100 /\ Writes("charge", Threshold(v), v)

ShownThreshold(r) == r % 128

\* A read fails if it finds more than 100.
Readable(s, r) == s = "charge" => ShownThreshold(r) <= 100

ShownCamera(r) == (r \div 2) % 2

\* The other bits of the register stay.
StoreCamera ==
  \E on \in Requests["camera"] :
    /\ on \in {0, 1}
    /\ Writes("camera", reg["camera"] + 2 * (on - ShownCamera(reg["camera"])), on)

\* Mutant: only the upper bound is kept.
LimitTakenBelow(l, v) == v <= PlMax[l]

LimitTaken(l, v) == PlMin <= v /\ v <= PlMax[l]

\* A limit is sent as four bytes, of which the upper three are 0.
StoreLimit(l) ==
  \E v \in Requests[l] : LimitTaken(l, v) /\ Writes(l, v % 256, v)

ShownLimit(r) == r

Shown(s, r) ==
  CASE s = "charge" -> ShownThreshold(r)
    [] s = "camera" -> ShownCamera(r)
    [] OTHER        -> ShownLimit(r)

-----------------------------------------------------------------------------
(* The LEDs.                                                               *)

Clipped(l, v) == IF v < MaxBrightness(l) THEN v ELSE MaxBrightness(l)

\* A user or a trigger sets it: a suspended LED only remembers.
SetLed(l) ==
  /\ phase = "up" \/ (l \in Triggered /\ phase \in {"suspending", "asleep", "waking"})
  /\ \E v \in Brightness :
       /\ cache' = [cache EXCEPT ![l] = Clipped(l, v)]
       /\ due' = IF phase = "up" THEN [due EXCEPT ![l] = Clipped(l, v)] ELSE due
  /\ UNCHANGED <<phase, settings, ec, passed, known>>

StartWork(l) ==
  /\ due[l] # None /\ passed[l] = None
  /\ passed' = [passed EXCEPT ![l] = due[l]]
  /\ due' = [due EXCEPT ![l] = None]
  /\ UNCHANGED <<phase, settings, ec, cache, known>>

DoneWith(l) == passed' = [passed EXCEPT ![l] = None]

BrightnessSet(l) ==
  /\ passed[l] # None
  /\ ec' = [ec EXCEPT ![l] = Lit(l, passed[l])]
  /\ known' = [known EXCEPT ![l] = TRUE]
  /\ DoneWith(l)
  /\ UNCHANGED <<phase, settings, cache, due>>

BrightnessFails(l) ==
  /\ passed[l] # None
  /\ ec' \in {ec, [ec EXCEPT ![l] = Lit(l, passed[l])]}
  /\ known' = [known EXCEPT ![l] = FALSE]
  /\ DoneWith(l)
  /\ UNCHANGED <<phase, settings, cache, due>>

\* flush_work has nothing to wait for.
Flushed == \A l \in Leds : due[l] = None /\ passed[l] = None

TurnOff == due' = [l \in Leds |-> 0]

-----------------------------------------------------------------------------
(* Binding and sleeping.                                                   *)

\* The LEDs are registered dark, whatever the EC has: there is no brightness_get.
Bind ==
  /\ phase = "unbound"
  /\ phase' = "up"
  /\ cache' = [l \in Leds |-> 0]
  /\ known' = [l \in Leds |-> FALSE]
  /\ asked' = [s \in Settings |-> None]
  /\ UNCHANGED <<reg, ec, due, passed>>

\* devres unregisters the LEDs, and the core turns them off.
Unbind ==
  /\ phase = "up"
  /\ phase' = "unbinding"
  /\ cache' = [l \in Leds |-> 0]
  /\ TurnOff
  /\ UNCHANGED <<settings, ec, passed, known>>

Unbound ==
  /\ phase = "unbinding" /\ Flushed
  /\ phase' = "unbound"
  /\ UNCHANGED <<settings, ledVars>>

Suspend ==
  /\ phase = "up"
  /\ phase' = "suspending"
  /\ TurnOff
  /\ UNCHANGED <<settings, ec, cache, passed, known>>

Suspended ==
  /\ phase = "suspending" /\ Flushed
  /\ phase' = "asleep"
  /\ UNCHANGED <<settings, ledVars>>

WakeWithoutFirmware ==
  /\ phase = "asleep"
  /\ phase' = "waking"
  /\ UNCHANGED <<settings, ledVars>>

\* The driver puts none of these registers back, the LED core the LEDs.
WakeFromFirmware ==
  /\ phase = "asleep"
  /\ phase' = "waking"
  /\ reg' \in Firmware /\ asked' = [s \in Settings |-> None]
  /\ ec' \in [Leds -> {0, 1}] /\ known' = [l \in Leds |-> FALSE]
  /\ UNCHANGED <<cache, due, passed>>

\* Mutant: the LEDs are not resumed.
ResumeUnlit ==
  /\ phase = "waking"
  /\ phase' = "up"
  /\ UNCHANGED <<settings, ledVars>>

\* LED_CORE_SUSPENDRESUME.
Resume ==
  /\ phase = "waking"
  /\ phase' = "up"
  /\ due' = cache
  /\ UNCHANGED <<settings, ec, cache, passed, known>>

Next ==
  \/ StoreThreshold
  \/ StoreCamera
  \/ \E l \in Limits : StoreLimit(l)
  \/ \E l \in Leds : SetLed(l) \/ StartWork(l) \/ BrightnessSet(l) \/ BrightnessFails(l)
  \/ Bind
  \/ Unbind
  \/ Unbound
  \/ Suspend
  \/ Suspended
  \/ WakeWithoutFirmware
  \/ WakeFromFirmware
  \/ Resume

Spec == Init /\ [][Next]_vars

-----------------------------------------------------------------------------
(* Properties.                                                             *)

TypeOK ==
  /\ phase \in {"unbound", "up", "unbinding", "suspending", "asleep", "waking"}
  /\ reg \in [Settings -> Byte]
  /\ asked \in [Settings -> Int \union {None}]
  /\ ec \in [Leds -> Byte]
  /\ cache \in [Leds -> Byte]
  /\ due \in [Leds -> Byte \union {None}]
  /\ passed \in [Leds -> Byte \union {None}]
  /\ known \in [Leds -> BOOLEAN]

\* What was stored is what a read shows, and it is within the limits, until a
\* call fails or firmware has had the register: of values that are none below
\* zero, which charge_control_end_threshold takes and shows as others.
SettingsShowAsStored ==
  \A s \in Settings :
    asked[s] # None /\ asked[s] >= 0 =>
      /\ Readable(s, reg[s])
      /\ Shown(s, reg[s]) = asked[s]
      /\ s \in Limits => PlMin <= reg[s] /\ reg[s] <= PlMax[s]

\* What the LED core wants a LED to be.
Wanted(l) == IF phase = "up" THEN cache[l] ELSE 0

\* With no work left to do a LED is as the core wants it: lit as set while the
\* machine is up, dark while it sleeps and after an unbind, and lit again after
\* a sleep, whoever sets it meanwhile.  (Not one that was never set, and not
\* after a failing call, which nobody repeats.)
LedsSettle ==
  \A l \in Leds :
    known[l] /\ due[l] = None /\ passed[l] = None => ec[l] = Lit(l, Wanted(l))
=============================================================================
