------------------------------ MODULE Binding ------------------------------
(***************************************************************************)
(* How msi-wmi-platform.c binds to a machine and lets go of it: the        *)
(* capability probe, the feature descriptors with their detect, setup and  *)
(* remove hooks, and the devres stack that undoes the rest in reverse      *)
(* order, while user tasks run handlers of the interfaces that exist.      *)
(***************************************************************************)
EXTENDS Naturals, FiniteSets, SequencesExt

CONSTANTS
  Machines,   \* what DMI and firmware report
  Params,     \* module parameters: [force, disable_control : BOOLEAN]
  Users,      \* tasks that use the interfaces
  None        \* no machine model, or no interface

\* model_default, model_gen1/2, model_16v5; the denied one is a possible entry.
Plain    == [force_control |-> FALSE, deny_control |-> FALSE, limits |-> {}]
Handheld == [Plain EXCEPT !.force_control = TRUE, !.limits = {"PL1", "PL2"}]
Denied   == [Plain EXCEPT !.deny_control = TRUE]
Models   == {Plain, Handheld, Denied}

Machine == [msi : BOOLEAN, laptop : BOOLEAN, major : 1 .. 3, tigerlake : BOOLEAN,
            webcam : BOOLEAN, dmi : Models, ec : Models \union {None}]
ASSUME MachinesAssumption ==
  /\ Machines \subseteq Machine
  /\ Params \subseteq [force : BOOLEAN, disable_control : BOOLEAN]

LedNames == <<"micmute", "mute", "kbd_backlight", "usb_backlight">>
Leds     == ToSet(LedNames)

\* msi_features, in the order of msi_feature_id.
Order    == <<"hwmon", "profile", "charge", "fan_curves", "leds", "camera">>
Features == ToSet(Order)
Required == {"hwmon"}

\* The interfaces of the features that msi_control_supported guards.
Controls   == {"profile", "charge", "pwm"} \union Leds
Interfaces == Controls \union {"hwmon", "camera", "debugfs", "PL1", "PL2"}
ASSUME NoneAssumption == None \notin Interfaces

\* Entries of the devres stack: memory, or something registered.
Memory(n)     == [kind |-> "memory", of |-> n]
Registered(n) == [kind |-> "registered", of |-> n]
Owned(stack)  == ToSet(stack)

VARIABLES
  machine,    \* the machine the module runs on
  params,     \* the parameters it was loaded with
  pc,         \* how far probe or removal has come
  model,      \* data->model
  caps,       \* data->caps: which of the capabilities were read as present
  features,   \* data->features
  next,       \* the feature whose setup is due
  led,        \* the LED whose registration is due
  devres,     \* what devres will release, last entry first
  open,       \* the interfaces user tasks can reach
  busy        \* the interface whose handler a task runs, or None

driverVars == <<model, caps, features, next, led>>
vars == <<machine, params, pc, driverVars, devres, open, busy>>

Init ==
  /\ machine \in Machines
  /\ params \in Params
  /\ pc = "unloaded"
  /\ model = Plain
  /\ caps = {}
  /\ features = {}
  /\ next = 1
  /\ led = 1
  /\ devres = <<>>
  /\ open = {}
  /\ busy = [u \in Users |-> None]

-----------------------------------------------------------------------------
(* Loading the module and the capability probe.                            *)

Load ==
  /\ pc = "unloaded"
  /\ params' \in Params
  /\ machine.msi \/ params'.force
  /\ pc' = "unbound"
  /\ UNCHANGED <<machine, driverVars, devres, open, busy>>

Unload ==
  /\ pc = "unbound"
  /\ pc' = "unloaded"
  /\ UNCHANGED <<machine, params, driverVars, devres, open, busy>>

Bind ==
  /\ pc = "unbound"
  /\ model' = machine.dmi
  /\ caps' = {}
  /\ features' = {}
  /\ next' = 1
  /\ led' = 1
  /\ devres' = <<Memory("data")>>
  /\ pc' = "wmi"
  /\ UNCHANGED <<machine, params, open, busy>>

\* GET_WMI of msi_wmi_platform_init.
ReadInterface ==
  /\ pc = "wmi"
  /\ machine.major = 2 \/ params.force
  /\ caps' = IF machine.major >= 2 THEN {"modern"} ELSE {}
  /\ pc' = "ecid"
  /\ UNCHANGED <<machine, params, model, features, next, led, devres, open, busy>>

\* msi_wmi_platform_match_ec_id: without an answer the DMI match stays.
MatchEc ==
  /\ pc = "ecid"
  /\ model' \in IF machine.ec = None THEN {model} ELSE {model, machine.ec}
  /\ pc' = "ec"
  /\ UNCHANGED <<machine, params, caps, features, next, led, devres, open, busy>>

\* What the presence bitmap lets the driver know: nothing if it is not answered.
Presence == {{}, IF machine.webcam THEN {"webcam"} ELSE {}}

\* GET_EC of msi_wmi_platform_ec_init, then the presence bitmap.
ReadEc ==
  /\ pc = "ec"
  /\ machine.tigerlake \/ params.force
  /\ \E has \in Presence :
       caps' = caps \union has \union IF machine.tigerlake THEN {"tigerlake"} ELSE {}
  /\ pc' = "fwattrs"
  /\ UNCHANGED <<machine, params, model, features, next, led, devres, open, busy>>

-----------------------------------------------------------------------------
(* Firmware attributes and debugfs.                                        *)

\* The device, the attributes directory, and under it a group for each limit
\* the model has, each with memory of its own.
FirmwareAttrs ==
  /\ pc = "fwattrs"
  /\ LET todo == {"fwdev", "attributes"} \ {e.of : e \in Owned(devres)}
         left == model.limits \ open
     IN  CASE "fwdev" \in todo ->
                /\ devres' = Append(devres, Registered("fwdev"))
                /\ UNCHANGED <<pc, open>>
           [] todo = {"attributes"} ->
                /\ devres' = Append(devres, Registered("attributes"))
                /\ UNCHANGED <<pc, open>>
           [] todo = {} /\ left # {} ->
                LET l == IF "PL1" \in left THEN "PL1" ELSE "PL2"
                IN  /\ devres' = Append(devres, Memory(l))
                    /\ open' = open \union {l}
                    /\ UNCHANGED pc
           [] OTHER -> pc' = "debugfs" /\ UNCHANGED <<devres, open>>
  /\ UNCHANGED <<machine, params, driverVars, busy>>

\* Its directory is entered in devres before the files' memory is.
Debugfs ==
  /\ pc = "debugfs"
  /\ \/ /\ devres' = devres \o <<Registered("debugfs"), Memory("debugfs")>>
        /\ open' = open \union {"debugfs"}
     \/ UNCHANGED <<devres, open>>
  /\ pc' = "detect"
  /\ UNCHANGED <<machine, params, driverVars, busy>>

-----------------------------------------------------------------------------
(* The feature descriptors.                                                *)

\* Mutant: the module parameter is forgotten.
ControlHeedsModel ==
  /\ ~model.deny_control
  /\ model.force_control \/ (machine.laptop /\ {"modern", "tigerlake"} \subseteq caps)

ControlSupported ==
  /\ ~params.disable_control
  /\ ~model.deny_control
  /\ model.force_control \/ (machine.laptop /\ {"modern", "tigerlake"} \subseteq caps)

\* The features whose detect hook asks for them.
Detected ==
  {"hwmon"}
    \union (IF ControlSupported THEN {"profile", "charge", "fan_curves", "leds"} ELSE {})
    \union (IF "webcam" \in caps THEN {"camera"} ELSE {})

Detect ==
  /\ pc = "detect"
  /\ features' = Detected
  /\ pc' = "setup"
  /\ UNCHANGED <<machine, params, model, caps, next, led, devres, open, busy>>

Due == IF next <= Len(Order) THEN Order[next] ELSE None

\* The setup of the feature that is due has succeeded.
SetupDone ==
  /\ next' = next + 1
  /\ UNCHANGED <<machine, params, pc, model, caps, features, led, busy>>

SkipFeature ==
  /\ pc = "setup"
  /\ Due \notin features
  /\ next' = next + 1
  /\ pc' = IF next = Len(Order) THEN "bound" ELSE pc
  /\ UNCHANGED <<machine, params, model, caps, features, led, devres, open, busy>>

\* is_visible: pwm_enable and the curve attributes exist only with fan curves.
Visible == {"hwmon"} \union IF "fan_curves" \in features THEN {"pwm"} ELSE {}

SetupHwmon ==
  /\ pc = "setup" /\ Due = "hwmon" /\ Due \in features
  /\ devres' = Append(devres, Registered("hwmon"))
  /\ open' = open \union Visible
  /\ SetupDone

SetupProfile ==
  /\ pc = "setup" /\ Due = "profile" /\ Due \in features
  /\ devres' = Append(devres, Registered("profile"))
  /\ open' = open \union {"profile"}
  /\ SetupDone

\* battery_hook_register: devres does not know of it.
SetupCharge ==
  /\ pc = "setup" /\ Due = "charge" /\ Due \in features
  /\ open' = open \union {"charge"}
  /\ SetupDone
  /\ UNCHANGED devres

\* Mutant: the failing snapshot is reported.
SetupFanCurvesStrict ==
  /\ pc = "setup" /\ Due = "fan_curves" /\ Due \in features
  /\ features' \in {features, features \ {Due}}
  /\ next' = next + 1
  /\ UNCHANGED <<machine, params, pc, model, caps, led, devres, open, busy>>

\* The snapshot (see FanControl) may fail, the setup does not.
SetupFanCurves ==
  /\ pc = "setup" /\ Due = "fan_curves" /\ Due \in features
  /\ SetupDone
  /\ UNCHANGED <<devres, open>>

\* Mutant: the loop is not over with the last LED.
SetupLedPastEnd ==
  /\ pc = "setup" /\ Due = "leds" /\ Due \in features
  /\ LET l == LedNames[led]
     IN  /\ devres' = devres \o <<Memory(l), Registered(l)>>
         /\ open' = open \union {l}
  /\ IF led <= Len(LedNames)
       THEN led' = led + 1 /\ UNCHANGED next
       ELSE next' = next + 1 /\ UNCHANGED led
  /\ UNCHANGED <<machine, params, pc, model, caps, features, busy>>

\* Mutant: the LED is registered before its memory is allocated.
SetupLedFirst ==
  /\ pc = "setup" /\ Due = "leds" /\ Due \in features
  /\ LET l == LedNames[led]
     IN  /\ devres' = devres \o <<Registered(l), Memory(l)>>
         /\ open' = open \union {l}
  /\ IF led < Len(LedNames)
       THEN led' = led + 1 /\ UNCHANGED next
       ELSE next' = next + 1 /\ UNCHANGED led
  /\ UNCHANGED <<machine, params, pc, model, caps, features, busy>>

\* One turn of the loop of msi_feat_leds_setup.
SetupLed ==
  /\ pc = "setup" /\ Due = "leds" /\ Due \in features
  /\ LET l == LedNames[led]
     IN  /\ devres' = devres \o <<Memory(l), Registered(l)>>
         /\ open' = open \union {l}
  /\ IF led < Len(LedNames)
       THEN led' = led + 1 /\ UNCHANGED next
       ELSE next' = next + 1 /\ UNCHANGED led
  /\ UNCHANGED <<machine, params, pc, model, caps, features, busy>>

SetupCamera ==
  /\ pc = "setup" /\ Due = "camera" /\ Due \in features
  /\ devres' = Append(devres, Registered("camera"))
  /\ open' = open \union {"camera"}
  /\ pc' = "bound"
  /\ next' = next + 1
  /\ UNCHANGED <<machine, params, model, caps, features, led, busy>>

\* A setup that registers something may fail: the bit is cleared, and none of
\* these features has a remove hook.
SetupFails ==
  /\ pc = "setup"
  /\ Due \in features \ (Required \union {"charge", "fan_curves"})
  /\ features' = features \ {Due}
  /\ UNCHANGED <<machine, params, pc, model, caps, next, led, devres, open, busy>>

\* What is fatal: a failing call of the capability probe, an interface that is
\* refused, a failing firmware attribute or a failing required feature.
ProbeFails ==
  /\ pc \in {"wmi", "ec", "fwattrs"} \/ (pc = "setup" /\ Due \in Required)
  /\ pc' = "unwind"
  /\ UNCHANGED <<machine, params, driverVars, devres, open, busy>>

-----------------------------------------------------------------------------
(* Letting go.                                                             *)

\* Mutant: the charge feature has no remove hook.
RemoveNothing ==
  /\ pc = "bound"
  /\ pc' = "unwind"
  /\ UNCHANGED <<machine, params, driverVars, devres, open, busy>>

\* remove(): the hooks of the enabled features; devres follows.
RemoveDriver ==
  /\ pc = "bound"
  /\ pc' = IF "charge" \in features THEN "unhook" ELSE "unwind"
  /\ UNCHANGED <<machine, params, driverVars, devres, open, busy>>

\* What stops being reachable with an entry.
Behind(e) ==
  CASE e.kind = "memory"    -> {}
    [] e.of = "attributes"  -> {"PL1", "PL2"}
    [] e.of = "hwmon"       -> {"hwmon", "pwm"}
    [] OTHER                -> {e.of}

Quiet(names) == \A u \in Users : busy[u] \notin names

\* Mutant: it waits for the handlers of an extension that stays reachable.
UnhookInPlace ==
  /\ pc = "unhook"
  /\ Quiet({"charge"})
  /\ pc' = "unwind"
  /\ UNCHANGED <<machine, params, driverVars, devres, open, busy>>

\* battery_hook_unregister hides the extension, then waits for its handlers.
Unhook ==
  /\ pc = "unhook"
  /\ open' = open \ {"charge"}
  /\ pc' = IF "charge" \in open \/ ~Quiet({"charge"}) THEN pc ELSE "unwind"
  /\ UNCHANGED <<machine, params, driverVars, devres, busy>>

\* So does the release of everything devres has registered.
Hide ==
  /\ pc = "unwind" /\ devres # <<>>
  /\ Behind(Last(devres)) \intersect open # {}
  /\ open' = open \ Behind(Last(devres))
  /\ UNCHANGED <<machine, params, pc, driverVars, devres, busy>>

Release ==
  /\ pc = "unwind" /\ devres # <<>>
  /\ Behind(Last(devres)) \intersect open = {}
  /\ Quiet(Behind(Last(devres)))
  /\ devres' = Front(devres)
  /\ UNCHANGED <<machine, params, pc, driverVars, open, busy>>

Unbound ==
  /\ pc = "unwind" /\ devres = <<>>
  /\ pc' = "unbound"
  /\ UNCHANGED <<machine, params, driverVars, devres, open, busy>>

-----------------------------------------------------------------------------
(* A user task enters and leaves a handler.                                *)

Enter(u) ==
  /\ busy[u] = None
  /\ \E i \in open : busy' = [busy EXCEPT ![u] = i]
  /\ UNCHANGED <<machine, params, pc, driverVars, devres, open>>

Leave(u) ==
  /\ busy[u] # None
  /\ busy' = [busy EXCEPT ![u] = None]
  /\ UNCHANGED <<machine, params, pc, driverVars, devres, open>>

DriverStep ==
  \/ ReadInterface
  \/ MatchEc
  \/ ReadEc
  \/ FirmwareAttrs
  \/ Debugfs
  \/ Detect
  \/ SkipFeature
  \/ SetupHwmon
  \/ SetupProfile
  \/ SetupCharge
  \/ SetupFanCurves
  \/ SetupLed
  \/ SetupCamera
  \/ SetupFails
  \/ ProbeFails
  \/ Unhook
  \/ Hide
  \/ Release
  \/ Unbound

Next ==
  \/ Load
  \/ Unload
  \/ Bind
  \/ RemoveDriver
  \/ DriverStep
  \/ \E u \in Users : Enter(u) \/ Leave(u)

Spec == Init /\ [][Next]_vars

\* A handler returns (FanControl!WritesComplete), and the driver goes on unless
\* it waits for one.
FairSpec ==
  /\ Spec
  /\ WF_vars(DriverStep)
  /\ \A u \in Users : WF_vars(Leave(u))

-----------------------------------------------------------------------------
(* Properties.                                                             *)

TypeOK ==
  /\ machine \in Machines
  /\ params \in Params
  /\ pc \in {"unloaded", "unbound", "wmi", "ecid", "ec", "fwattrs", "debugfs",
             "detect", "setup", "bound", "unhook", "unwind"}
  /\ model \in Models
  /\ caps \subseteq {"modern", "tigerlake", "webcam"}
  /\ features \subseteq Features
  /\ next \in 1 .. Len(Order) + 1
  /\ led \in 1 .. Len(LedNames)
  /\ open \subseteq Interfaces
  /\ busy \in [Users -> Interfaces \union {None}]

\* The memory a handler works on: the driver data with its mutex, and that of
\* its own attribute or LED.
Needs(i) == {Memory("data")} \union IF i \in Leds THEN {Memory(i)} ELSE {}

\* No handler runs, and none can be entered, without the memory it works on:
\* setup allocates before it registers, and removal waits for the handlers
\* (firmware attributes and debugfs apart, whose own memory devres frees first).
HandlersHaveMemory ==
  \A i \in open \union {busy[u] : u \in Users} : i # None => Needs(i) \subseteq Owned(devres)

\* Nothing survives an unbind or a probe that failed half-way: no interface,
\* the battery hook included, and nothing devres would still release.
NothingIsLeft ==
  pc \in {"unloaded", "unbound"} => open = {} /\ devres = <<>> /\ Quiet(Interfaces)

\* Control is exposed only where msi_control_supported holds, whatever of the
\* capability probe failed: never against disable_control or a model that
\* denies it, else on a forced model or a modern MSI laptop.
ControlIsGated ==
  open \intersect Controls # {} =>
    /\ ~params.disable_control
    /\ ~model.deny_control
    /\ \/ model.force_control
       \/ machine.laptop /\ machine.tigerlake /\ machine.major >= 2

\* The curve attributes never outlive the feature whose snapshot they restore:
\* msi_features[MSI_FEAT_FAN_CURVES].setup always keeps the feature.
PwmHasFanCurves == "pwm" \in open => "fan_curves" \in features

\* A removal or a failed probe comes to its end whatever the users do.
UnbindCompletes == pc \in {"unhook", "unwind"} ~> pc = "unbound"
=============================================================================
