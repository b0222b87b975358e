# TLA+ models of msi-wmi-platform-dkms

This directory specifies the parts of the repository that keep state and meet
concurrency, failures or arithmetic: the kernel driver
`src/msi-wmi-platform/msi-wmi-platform.c` (called F below), the boot script
`src/fan-curve/msi-fan-curve`, the keyboard tool `src/keyboard-rgb/msi-klc`, and the
OpenRGB plugin `src/keyboard-rgb/openrgb-plugin` (whose main file is called O below).
TLC model-checks small instances; TLAPS proves their safety properties and both
refinements for every value of the constants.

`PROJECT.json` maps every definition to the source lines it translates, and lists
the runs, the hazards they are aimed at, and the theorems.

## 1. The system

One embedded controller (EC) runs the laptop's fans, performance profile, battery
threshold, LEDs and power limits. Everything the driver does to it goes through a
single ACPI method that is not thread-safe, under the mutex `wmi_lock`.

| part | state | operations | hard because |
|---|---|---|---|
| WMI access (F:440-520, 1445-1560) | `wmi_lock`; a buffer and a `buffer_lock` per debugfs file | query, `ec_get`, `ec_set`, `ec_update_bit`, debugfs read and write | one input for all callers; a read-modify-write of two calls; two locks; error paths |
| binding (F:1560-1730, 1830-2130) | `caps`, `features`, the devres stack, the battery hook | probe, detect/setup/remove hooks, `remove()` | steps that fail half-way; interfaces users enter while they appear and vanish; release order |
| fan curves (F:520-900, 1740-1830) | four tables and the mode in the EC; `factory_curves`, `curves_saved`; the copy kept over sleep | store a point, write the mode, snapshot, restore, suspend, resume | multi-call loops; sleeps that keep, reset or re-image memory; calls that fail |
| platform profile (F:940-1050, 1700-1730) | the shift register, `cur_profile` | get, set, seed at setup, re-apply on resume | cache and register part when a call fails or a set meets the seed |
| charge threshold, LEDs, camera, power limits (F:1055-1440, 1836-1975) | one EC register each; the LED core's brightness and work item | show and store, set | register bits, ranges; sets, sleeps and unbinding that meet in the work item |
| hwmon sensors | none | read | none |
| fan curve script | configuration, the place it has come to | check, find the driver, store 24 values, engage | may stop anywhere; others touch the EC meanwhile; two conversions that round |
| msi-klc commands and daemon | `state.json`, the controller's staged colors, the uleds LED | `all`, `key`, ..., `brightness`, `daemon` | processes sharing a file and a controller without a lock; kills |
| msi-klc effects | a program of sixteen sections | `effect` | signed-byte deltas, widths, limits, rounding |
| msi-klc frames, layouts, models, device | none | byte layouts, table lookups, ioctls | unit tests cover it |
| OpenRGB plugin (O:78-258) | the controllers it tracks; their objects and OpenRGB's list, shared with OpenRGB | load, unload, detection callback | two threads; OpenRGB frees without telling and reuses addresses; keyboards that come and go |

The interactions: the hwmon, profile, LED, firmware-attribute, battery and debugfs
interfaces all reach the EC through the register helpers; the script reaches it
through hwmon; resume re-applies what suspend kept; binding decides which of the
interfaces exist. `msi-klc` is a world of its own: its processes meet at the state
file, the HID controller and the LED, whose value the desktop and the daemon both
write. The plugin lives inside OpenRGB: it shares the ownership of its controllers with
it, is called on two of its threads, and opens the same keyboards.

What makes each part correct: requests are atomic and return (WMI access); what is
exposed has its memory, is allowed, and is gone after an unbind (binding); no store
is lost, only full snapshots come back, a sleep keeps the curve (fan curves); the
cached profile is the EC's (profile); a setting shows as it was stored, a LED ends as
it was set (controls); an undisturbed run engages exactly the
configured curve, an early end engages nothing (script); a run that nobody runs
beside lights and stores exactly its frame (msi-klc); the light is at each keyframe
when its section begins (effects); nothing freed is used, each keyboard has one
controller, and none is left after an unload (plugin).

## 2. Modules

A component `X` has the specification `X.tla`, the constants of its runs in
`XMC.tla`, and its proofs in `XProofs.tla`; those of `Profile` and `EcControls`, which
both are about settings of the EC, are in `EcSettingsProofs.tla`. History variables are marked
(history): they record something for a property and no guard of the code reads
them.

**EcFan, FanControl.** `FanControl` has the user tasks that write
`pwmN_auto_pointM_*` (`ReadTable`, `WriteTable`) and `pwm1_enable` (`ReadMode`,
`WriteMode`, `LoadFactory`), and the driver's task that takes the snapshot,
restores it in `remove()`, and keeps and re-applies the tables over s2idle, S3 and
hibernation. One WMI call is one step and may fail, with or without its effect on the EC
(`LoadFails`, `StoreFails`, `ModeFails`): the driver looks at the answer only when the
method has been evaluated (F:408-451). What happens between two calls
of a handler may interleave with everything that does not need `wmi_lock`. The
driver's memory of a hibernation image is a variable of its own (`image`), since the
thaw that writes the image goes on running before power is lost. `EcFan` is the
abstract specification, with no tasks, lock or calls: a store changes one point, the
factory curves are those of one instant, and a table is replaced only by what is
remembered of it, by the copy kept over a sleep, or by a loss of power.

**Binding.** `probe()` step by step: the capability queries, the model table (three
kinds of entry), firmware attributes, debugfs, the feature descriptors with their
detect and setup hooks, and the devres stack as a sequence of entries `Memory(n)`
and `Registered(n)` that `Release` pops from its end. Releasing something registered
first hides the interface (`Hide`) and waits for its handlers (`Quiet`). The battery
hook is not on the stack. Users enter any open interface and stay as long as they
like; what a handler does is in the other modules.

**Profile.** The shift register and `data->cur_profile`. `profile_set` is two steps,
the EC and then the cache, and so is the seed of F:1725, which runs after the
interface is registered. `doubt` (history) records what excuses a disagreement: a
call that reported an error and may have had its effect, or a set that met the seed.

**EcControls.** The threshold, the camera and the power limits, each a register with
the conversion of its store and its read (bit 7 of the threshold, bit 1 of the camera),
and the LEDs: `SetLed` leaves a brightness for the LED core's work item
(`StartWork`), which hands it to `msi_led_brightness_set` (`BrightnessSet`,
`BrightnessFails`). `Suspend`, `Resume` and `Unbind` go through the same work item, and
a suspended LED only remembers what a trigger sets. `asked` and `known` (history) say
for which registers it is known what they should hold. The LED core is external.

**EcRegisters, WmiAccess.** `WmiAccess` goes down to the single evaluation of the
ACPI method: the input is placed where the firmware keeps it (one place for all
callers), then the method works on it. The register helpers and both debugfs files
are paths through these steps. `EcRegisters` is the abstract specification: every
request is called, takes effect at once, and returns. The refinement shows a debugfs
buffer as what it was until its request has had its effect (`Shown`, from the history
variable `was`).

**FanCurveScript.** The script under `set -e`: `Start`, the check of each
curve (`Check`), the search for the hwmon device (`Find`), the stores in the order of
`apply_curve` (`Echo`), and the switch to manual mode (`Engage`).
Between two stores the script may be stopped; any of them may fail, without its
effect (`Abort`) or after it (`EchoFails`, `EngageFails`). Meanwhile the machine may
sleep, the module be reloaded, or a user write the mode; each of these that touches the EC
sets `disturbed` (history). The conversions (`Pct2Pwm` of the script, `StoredSpeed`,
`ShownSpeed` and `StoredTemp` of the driver) are the code's integer arithmetic.

**KlcState.** A process loads the state file (missing, truncated or whole), works
on it, sends a report for each part of the frame, commits, truncates the file,
writes it, and mirrors the brightness to the LED. The daemon does the same for the
brightness it reads from uleds. Any step may fail or be the last one before a kill.
The keyboard is reduced to `NParts` parts: a commit shows whatever anybody has
staged.

**KlcEffect.** From a command to the `LightingEffect`, its sections one by one
(`SectionInfo`), the program with its sixteen slots, and the keyboard playing it
section by section, for one color channel. What the keyboard does with a program
is external and as `src/keyboard-rgb/KLC-PROTOCOL.md` has it.

**KlcPlugin.** `Load` and `Unload` on one thread, `DetectionEnd` on the other, both of
which may be in `Enumerate`: `Reconcile` and `hid_enumerate` in its first step, then an
entry a step (`SkipEntry`, `OpenFails`, `AddController`). The heap is a function from
addresses to the objects that have not been freed; OpenRGB frees all it lists in
`Rescan`, and any address that is free may be given next to a controller of the plugin's or
of another device (`DetectOther`). A keyboard that is plugged in has a node, `PlugIn` gives it any
that no other keyboard has, and `PlugOut` makes the handles that drive it drive nothing: a controller
has both the path it was opened by, which tracking compares, and the keyboard it drives. That hidraw
gives no node away that a handle holds open, and libusb does, are two of the behaviours this
allows. The two interfaces of a keyboard share a node, so that they come and go together.

`due` (history) are the keyboards that must show up. `raced` (history) is set when an
`Unload` meets a detection and its `Reconcile`, which goes through OpenRGB's list by reference
(O:163-184), a change of that list: it may then keep any of what is tracked, or lose any of it. What
an unlocked read of a vector that moves can do has no end, so the properties claim nothing
of what follows. The other calls of `Reconcile` race nothing: in `Load` there is nothing to look
for, and the callback runs on the thread that changes the list.

The vector of tracked controllers is a set of addresses: its order means nothing, and that no address
is in it twice follows from `NobodyUsesFreed`, since what is added is newly allocated. `doomed`
is the controller between its unregistering and its deletion in the loop of `Unload`. The null
checks of `resource_manager` have no part: OpenRGB unloads only what it has loaded.
Two things are assumed of OpenRGB: it asks for a rescan on the thread that loads
plugins, and while no detection runs; and unregistering a callback waits until it has
returned. The plugin has no lock of its own, so nothing it does would hold without them.

## 3. Runs

| run | shows | bounds |
|---|---|---|
| `fan_contend` | two users and an unbinding driver, any call failing: `StoreSeesCurrentTable`, `HalfRestoredOnlyInAuto`, `UnloadRestoresSnapshot`, the refinement of `EcFan`, `WritesComplete`, `UnbindCompletes` | 2 tables of 2 points with 2 values: two stores to different points of one table, and a loop with a middle |
| `fan_sleep` | two users, all three sleeps in any sequence: `ResumeUsesFullSnapshot`, `WakeKeepsFanTables` | 3 tables, 2 of them fan tables: a copy may be half-taken, and a temperature table is not kept |
| `fan_partial` | finding: `RestoreOnlyFullSnapshot` fails | as `fan_contend`, one user |
| `binding_safe` | two users, each of four parameter settings: `HandlersHaveMemory`, `NothingIsLeft`, `ControlIsGated`, `PwmHasFanCurves`, `UnbindCompletes` | seven machines: each condition of the gate false in one of them |
| `profile_safe` | two tasks, failing calls, sleeps, rebinds: `CacheFollowsEc` | three settable profiles, `custom`, and a register value that is none |
| `controls_safe` | stores, LED sets by users and a trigger, failing calls, sleeps, rebinds: `SettingsShowAsStored`, `LedsSettle` | a bit LED with a trigger and a byte LED, for which a brightness may be too large; every limit, its edges and what lies beyond them |
| `wmi_safe` | two tasks, every helper, both files: `ImplementsEcRegisters`, `CallsReturn` | one register of two bits: an update and a write of the same register contend |
| `script_safe` | valid, extreme and malformed configurations: `AppliedIsWhole`, `SpeedsAreClose`, `AbortsInAuto` | two points for each fan |
| `klc_safe` | a command and the daemon: `SoloRunsApply`, `OsdInSync`, `LastFrameIsKept` | two parts, two frames (all parts, one part), two brightnesses and a slider of three positions |
| `effect_safe` | programs that fit: `LightFollowsKeyframes`, `DeltasFit`, `LoopTakesItsTime` | up to three colors of {0, 1, 255} at any positions of {0, 40, 100}, and 7 to 15 colors; the slowest, a middle and the fastest speed |
| `effect_long` | finding: `StaysInProgram` fails | the same |
| `plugin_safe` | loads, unloads, rescans and plugging without end: `NobodyUsesFreed`, `OneControllerPerKeyboard`, `NothingLeftAfterUnload`, `KeyboardComesBack` | two keyboards and two nodes: each comes back under its old node, a new one, or that of the other; with and without reported usages; four addresses, so that each may be given to either party; one other device (`MaxOthers`); nothing beyond the end of an unload that raced (`UntilRaced`) |

The bounds suffice for what the properties are about: two tasks for every race (no
handler waits for a third), loops with a first and a later element, and values that
can be told apart. Nothing is counted to a limit: the state spaces are finite because every
counter of the code is. One run has a constraint, `UntilRaced` of `plugin_safe`: it leaves out
only states of which the properties say nothing (`raced`, and no keyboard due), and makes some
345 000 states of what would be millions. The theorems of section 5 hold for all sizes, and
without it.

Deadlock is checked everywhere but in the runs of `KlcEffect`: a command that is
refused ends, and a program whose last section leads to a section that does not
exist has no next step that is known.

Not every property is what one might wish for. `AppliedIsWhole` and `AbortsInAuto`
speak of undisturbed runs of the script, `CacheFollowsEc` of profile sets that did
not meet the seed, `SoloRunsApply` and `LastFrameIsKept` of runs without company,
`LoopTakesItsTime` of loops whose length fits the field that announces it, those of
`KlcPlugin` of what comes before an unload that raced OpenRGB's list: section 6
says what happens otherwise. And `OneControllerPerKeyboard` is about live ones: a keyboard
may have a second controller beside one whose handle is dead.

## 4. Fairness

- `FanControl!Fairness`: weak for each step of the driver's task and of a user inside
  a handler, since a thread that waits for nothing is scheduled; strong for taking
  `wmi_lock`, since a kernel mutex hands itself over to its first waiter. Nobody is
  obliged to open an attribute, to probe, to unbind or to sleep.
- `Binding!FairSpec`: weak for the driver's steps (driver core and devres run to their
  end) and for a handler's return, which `FanControl!WritesComplete` and
  `WmiAccess!CallsReturn` justify. Users are not obliged to leave an
  interface alone: they may enter it again until it is hidden.
- `WmiAccess!FairSpec`: weak for a caller's steps, strong for the two locks.

- `KlcPlugin!FairSpec`: weak for the steps of a load or an unload that has begun, and for
  those of a detection: both are loops over lists that end. Nobody is obliged to load,
  to rescan or to plug anything in, and any device may fail to open.

The other modules state no liveness. The script, the commands and the daemon may be
stopped for good at any point, so nothing about them must happen.

## 5. Proofs

TLAPS proves, for every value of the constants that satisfies the assumptions named
in the modules, every safety property that a passing run checks, and the two
refinements:

- **FanControl**: type correctness, the five safety invariants, and `FanControl`
  implements `EcFan`. The inductive invariant `IInv` adds `LockInv` (the holder of
  `wmi_lock` is the task in a critical section), `LoopInv` (the tables a loop has
  passed are alike in the EC and in the driver), `FrozenInv` (users are frozen while
  the driver sleeps) and `SleepInv` (what the kept copy is worth at each stage of a
  sleep). Without `LoopInv` a snapshot could not be shown to be that of one instant,
  without `SleepInv` nothing is known of a copy that comes back from an image.
  `LockComesBack` bounds how long the lock is held: `CallsLeft` is at most one read,
  one write and a call for each table, and only falls.
- **Binding**: type correctness, `HandlersHaveMemory`, `NothingIsLeft`, `ControlIsGated` and
  `PwmHasFanCurves`, for any machines, parameters and users. `StackInv` says what lies
  below each entry of the devres stack (the driver data at the bottom, a LED's memory
  under the LED), and `ReachInv` that whatever users can enter or are in is behind an
  entry that is still there; the battery extension, which no entry stands for, is tied
  to the place that probe and removal have come to. `GateInv` follows the gate from the
  capabilities over the features to the interfaces. The one assumption, besides the
  shape of the machines, is that `None` names no interface.
- **Profile** (in `EcSettingsProofs`): type correctness and `CacheFollowsEc`, from
  `SetterInv` (setters are exclusive and never run in a sleep), `SeedInv` (what the seed
  read is still there, or a set raced it) and `CacheInv` (the two part only between the
  two writes of a set and between a reset and its repair).
- **EcControls** (in `EcSettingsProofs`): type correctness, `SettingsShowAsStored` and
  `LedsSettle`, for all requests, limits and LEDs. `QueueInv` is what the second rests on:
  what the work item is to pass on is what the LED core wants now, not what it wanted
  when it was queued.
- **WmiAccess**: type correctness and the refinement of `EcRegisters`. `InputInv`
  is the core: the firmware's input is that of the holder of `wmi_lock`, and what
  `ec_update_bit` has read is still in the register when it writes. `BufferInv` does
  the same for the debugfs buffers. Two consequences: a bit changes only to what somebody
  asks for (`NoLostBit`), and a task that waits is at most two locks away from one that
  runs (`NoDeadlock`), because `buffer_lock` is always taken before `wmi_lock`.
- **FanCurveScript**: for every percentage the two conversions lose at most one
  percent and only 0 becomes 0 (`SpeedLosesAtMostOne`), reading a speed back and
  writing it again likewise (`ShowThenStore`), every integer written is stored as a
  percentage (`StoredSpeedIsPercent`); type correctness, `AppliedIsWhole`,
  `SpeedsAreClose` and `AbortsInAuto` for curves of any length. `StoredInv`, that
  what a run has stored is still there, is what makes them inductive; `WholeAtEngage` draws
  from it that the curves are whole when they are engaged, whether or not that is reported to
  have failed.
- **KlcState**: type correctness, `SoloRunsApply`, `LastFrameIsKept` and, if the slider has at least as
  many steps as there are brightnesses, `OsdInSync`, for any number of processes.
  `AloneInv` and `SoloInv` follow a lone run through its steps; `SyncInv` says of
  each stage whether slider and file agree or the daemon has a change to read, and
  `LastInv` where the last frame is while a run has truncated the file.
- **KlcEffect**: type correctness, `DeltasFit`, `LightFollowsKeyframes` and
  `LoopTakesItsTime` for all colors, positions, brightnesses and speeds. The invariant
  ties each section to the keyframes it connects; the arithmetic is in lemmas about
  `Quot`, `ScaledUint8` and `SectionInfo`, nonlinear steps being reduced to facts about
  products. The time of a loop is a sum over its sections, and a sum defined by recursion
  would need induction over data: `ClockInv` says instead that there is a clock, a
  function from the sections to the ticks before them, which each `AddSection` extends and
  `Play` reads. `ShortProgramsStay` is the other side of the finding of `effect_long`: an
  effect of at most sixteen sections never leads out of its program.
- **KlcPlugin**: type correctness, `NobodyUsesFreed`, `OneControllerPerKeyboard` and
  `NothingLeftAfterUnload`, for any keyboards, addresses and number of other controllers.
  `ThreadsInv` says which steps of the two threads exclude each other, `ListInv` what an
  enumeration has still ahead, `PlugInv` that no two keyboards have one node, `HeapInv` the
  types of heap and lists, `ObjectsInv` that a live controller is at its keyboard's node and
  no two of the plugin's objects have one location, and `TrackingInv` that the plugin tracks all its
  objects and, while its code runs, nothing that has been freed. The last two hold until an
  unload has raced OpenRGB's list. `NoLockIsNeeded`: the detecting thread runs plugin
  code only while the other runs none, which rests on what section 2 assumes of OpenRGB.
  `DueInv` follows each keyboard that must show up: it is shown, or ahead of an enumeration, or a
  detection is on whose end will call back. Hence `NoneIsLeftBehind`, by which only the
  fairness of the steps is left of `KeyboardComesBack`.

Only model-checked are the liveness properties (`WritesComplete`, `UnbindCompletes` of
`FanControl` and of `Binding`, `CallsReturn`, `KeyboardComesBack`): they need `ENABLED`
under fairness, which is out of this prover's reach. What is safety in them is proved:
`LockComesBack`, `NoDeadlock`, `NoneIsLeftBehind`. The proofs use nothing but the modules'
assumptions and the library's theorems on sequences.

`Profile` and `EcControls` share a module of proofs, so the initial state, the next-state
relation and the type invariant of `Profile` are called `ProfileInit`, `ProfileNext` and
`ProfileTypeOK`.

## 6. Known disagreements

Two have a run and a finding in `PROJECT.json`:
- `pwm1_enable=2` restores a snapshot that was never completed (F:895). The run shows it
  for a probe whose snapshot has failed; the same happens to a write of 2 between the exposure
  of the attributes and the snapshot.
- A breathe of more than sixteen sections does not fit its program
  (`src/keyboard-rgb/msi-klc/src/protocol.rs:724`): two sections for each color, and one more if
  the first position is above 0. With eight colors and such a position, which is what the run shows,
  there are seventeen: every color is shown, but the sixteenth section leads on to one that is not there
  instead of back to the first. From nine colors on that is so at any positions, and the later colors
  have no sections either.

The following were met while modelling and have no run; the models behave as the code does.

Driver:
- Auto mode "restores the factory curve" (`src/README.md:53`), but the snapshot is
  taken after the attributes are exposed (F:1767): a store before it is restored.
- Unloading "does the same" (`src/README.md:54`), but `remove()` (F:1772) does not
  leave manual mode.
- "The curve and manual mode survive every sleep mode" (`src/fan-curve/README.md:17`),
  but the temperatures are not kept (F:1799) and come back as the firmware's.
- `disable_control=1` "veto all control" (`src/README.md:56`), but the camera
  (F:1964) and the power limits stay writable.
- A feature whose setup fails is disabled, but LEDs registered before the failing one
  stay until the driver unbinds (F:1908).
- A profile set between the registration of the profile and the seed of the cache
  (F:1725) is undone by the next resume.
- The memory of a firmware attribute (F:1226) and of a debugfs file (F:1527) enters
  devres after the action that unregisters it (F:1328, F:1557), so it is freed first
  and a handler may still run on it. `HandlersHaveMemory` excepts these two.
- `charge_control_end_threshold` has no lower bound (F:1393): a negative value is taken
  and shows as another. `SettingsShowAsStored` excepts it.
- "LEDs restore last brightness" over a sleep (`src/docs/hw-test-protocol.md:118`), but
  a LED that firmware lit and nobody has set is dark afterwards: the driver has no
  `brightness_get` (F:1905).

Script:
- Run again in manual mode, it is half-written while the EC uses it
  (`src/fan-curve/msi-fan-curve:56` and `:58`): "Then switch to manual" holds for the
  first run only.
- A sleep, a reload or a write of the mode in the middle of a run leaves a mixture
  that line 64 engages.
- Where writing the mode (line 64) fails after its effect, the script ends with an error and the
  EC in manual mode; its curves are whole by then.
- 55 percent is stored as 54 (F:556): percent to pwm rounds, pwm to percent truncates.

msi-klc:
- "Last applied logical frame" (`src/keyboard-rgb/msi-klc/src/state.rs:63`), but
  `apply_brightness` loads the state, renders it for some 70 ms and saves all of it
  (`daemon.rs:162`, `daemon.rs:168`), as the commands do, without a lock: a frame stored
  in between is overwritten by the older one. Two commands lose a brightness likewise.
- SIGTERM between the daemon's check and its read is not seen until the LED changes
  (`src/keyboard-rgb/msi-klc/src/daemon.rs:138`).
- `brightness` after `all` and then `key` dims the key only: the state holds the last
  frame, not what is lit.
- `--max-steps` below 255 clips what is mirrored; the slider then shows less than is
  stored.
- A kill between truncating and writing the state file loses the state.
- Where a user may open the keyboard (the udev rule of the OpenRGB plugin), what they
  apply is stored in `$XDG_RUNTIME_DIR`, and not found again once root has stored
  anything in `/run/msi-klc`, which is looked at first (`state.rs:95`).
- The sum of the durations of a program keeps its low sixteen bits; positions in no
  order can exceed them.

OpenRGB plugin:
- "so we only tear down the ones we still own" (O:136-137), but a controller is told by
  its address (O:173): if OpenRGB has freed one in a rescan and given its address to a
  controller of another device, and the plugin is unloaded before the next rescan, it
  unregisters and deletes that one, which disappears from OpenRGB. Nothing is freed twice.
- Tracking compares nodes (O:226), not keyboards. A keyboard that is pulled out and plugged in
  again while a detection runs is enumerated at its end. Under another node, as hidraw gives
  it while the old handle is open, it gets a second controller beside the first, whose handle is dead;
  under the same node it is taken for tracked and gets none. In both cases the dead one stays in
  OpenRGB until the next rescan. The result of `hid_send_feature_report` is ignored
  (`MSIKLCController.cpp:170`), so nobody notices.
- `Reconcile` goes through OpenRGB's list by reference and without a lock (O:163-184). An
  `Unload` during a detection, when another thread adds controllers to that list, may find it moved: a
  controller may be left in OpenRGB without its code.

## 7. Not modelled

Byte layouts of reports and their checksums, lookups in embedded tables, ioctls and
device discovery (no state, covered by unit tests); hwmon reads (one query and a
division); the one-shot keyboard scripts and the offline conversion of the vendor's
data; `base.c` and the patch series (the driver before this repository's changes);
installation; the hardware test scripts; the systemd sleep configuration, of which
the three kinds of sleep remain. In `KlcState`: a second daemon, and the fallback directory of the state file
(`state.rs:81`), which a process comes to only if it may not write `/run/msi-klc`, while
"every subcommand needs `sudo`" (`src/keyboard-rgb/msi-klc/README.md:53`). In `KlcEffect`: direction, focal point and scale, which go
into the trailer unchanged. In `KlcPlugin`: what a controller draws (the colors,
dimmed, in one report for each update) and the tables of keys it is made from.

## 8. Plan

Done: fan curves over calls, sleeps and unbinding with their abstract specification;
WMI access, binding, profile and the settings of one register beneath and around them;
the script, msi-klc and the plugin on top; every safety property proved. What is left,
in order of weight:

1. `FanControl` on top of `EcRegisters`: that its atomic WMI calls are what
   `WmiAccess` provides.
2. For `KlcState`, what two commands at once can leave behind: after the last of the
   overlapping runs, file and keyboard are, part by part, those of one of them.
3. How far an unbind is from its end, for `FanControl` and `Binding`: a variant that
   every step of the driver and of a handler lowers, as `CallsLeft` is for the lock.
4. The fallback directory of the state file, for commands of a user who may open the
   keyboard but not write `/run`.
