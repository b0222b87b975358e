--------------------------- MODULE FanCurveScript ---------------------------
(***************************************************************************)
(* fan-curve/msi-fan-curve: the script, run at boot and again whenever its *)
(* service is restarted, that writes a configured curve point by point     *)
(* through the driver's hwmon attributes and engages it at the end.  A     *)
(* store is one step (see FanControl); what may come between two of them   *)
(* is the subject: an abort, a failing store, a sleep, a module reload or  *)
(* a user who writes pwm1_enable.                                          *)
(***************************************************************************)
EXTENDS Integers, Sequences

CONSTANTS
  NPoints,    \* points of a curve (six)
  Confs,      \* configurations: [temp, speed : what the file holds], one per fan
  Factory,    \* the tables an EC holds after it lost power
  Word        \* an entry that is no number

Fans   == {1, 2}
Points == 1 .. NPoints
Byte   == 0 .. 255
Entry  == Nat \union {Word}

ASSUME ScriptAssumption ==
  /\ NPoints \in Nat \ {0}
  /\ Word \notin Nat
  /\ Confs \subseteq [Fans -> [temp : Seq(Entry), speed : Seq(Entry)]]
  /\ Factory \in [Fans -> [Points -> [temp : Byte, speed : 0 .. 100]]]

-----------------------------------------------------------------------------
(* Units.  A speed is a percentage in the configuration and in the EC, and *)
(* a pwm value of 0 to 255 between the two.                                *)

Clamp(v, lo, hi) == IF v < lo THEN lo ELSE IF v > hi THEN hi ELSE v

\* Mutant: the script's conversion truncates.
Pct2PwmDown(s) == (s * 255) \div 100

\* pct2pwm of the script.
Pct2Pwm(s) == (s * 255 + 50) \div 100

\* fan_table_store and fan_table_show of the driver: fixp_linear_interpolate.
StoredSpeed(v) == (Clamp(v, 0, 255) * 100) \div 255
ShownSpeed(p)  == (p * 255) \div 100

\* Mutant: the temperature is not clamped to a byte.
StoredTempRaw(v) == v

\* temp_table_store.
StoredTemp(v) == Clamp(v, 0, 255)

\* check_curve of one fan.
Valid(c) ==
  /\ Len(c.temp) = NPoints /\ Len(c.speed) = NPoints
  /\ \A i \in Points : c.temp[i] \in Nat /\ c.speed[i] \in Nat
  /\ \A i \in Points : c.speed[i] <= 100

\* The table a valid curve becomes.
Table(c) == [i \in Points |-> [temp  |-> StoredTemp(c.temp[i]),
                               speed |-> StoredSpeed(Pct2Pwm(c.speed[i]))]]

-----------------------------------------------------------------------------

VARIABLES
  tables,     \* the EC's tables, temperatures and speeds together
  manual,     \* the EC runs them
  driver,     \* "absent", "exposed" (no snapshot yet) or "bound"
  snapshot,   \* the driver's copy of the factory curves
  pc,         \* of the script: "idle", "check", "find", "write", "applied"
  conf,       \* what it sourced
  fan, point, \* where it is in apply_curve
  field,      \* the attribute due there: "temp" or "speed", "engage" at last
  began,      \* (history) the EC's mode when the script began: "auto", "manual"
  disturbed   \* (history) something else has touched the EC since

ecVars     == <<tables, manual>>
driverVars == <<driver, snapshot>>
atVars     == <<fan, point, field>>
scriptVars == <<pc, conf, atVars, began>>
vars == <<ecVars, driverVars, scriptVars, disturbed>>

Init ==
  /\ tables = Factory
  /\ manual = FALSE
  /\ driver = "absent"
  /\ snapshot = Factory
  /\ pc = "idle"
  /\ conf \in Confs
  /\ fan = 1 /\ point = 1 /\ field = "temp"
  /\ began = "auto"
  /\ disturbed = FALSE

-----------------------------------------------------------------------------
(* The script.                                                             *)

Rewind == fan' = 1 /\ point' = 1 /\ field' = "temp"

\* It sources the configuration as it is now.
Start ==
  /\ pc \in {"idle", "applied"}
  /\ conf' \in Confs
  /\ pc' = "check"
  /\ began' = IF manual THEN "manual" ELSE "auto"
  /\ disturbed' = FALSE
  /\ UNCHANGED <<ecVars, driverVars, atVars>>

Check ==
  /\ pc = "check"
  /\ \A f \in Fans : Valid(conf[f])
  /\ pc' = "find"
  /\ UNCHANGED <<ecVars, driverVars, conf, atVars, began, disturbed>>

\* Mutant: manual mode is engaged before the curves are written.
FindEngaging ==
  /\ pc = "find"
  /\ driver # "absent"
  /\ pc' = "write"
  /\ manual' = TRUE
  /\ UNCHANGED <<tables, driverVars, conf, atVars, began, disturbed>>

\* The hwmon device with pwm1_enable is there.
Find ==
  /\ pc = "find"
  /\ driver # "absent"
  /\ pc' = "write"
  /\ UNCHANGED <<ecVars, driverVars, conf, atVars, began, disturbed>>

\* Mutant: the loop over the points ends one early.
NextStoreShort ==
  CASE field = "temp" /\ point < NPoints -> field' = "speed" /\ UNCHANGED <<fan, point>>
    [] field = "speed" /\ point < NPoints ->
         field' = "temp" /\ point' = point + 1 /\ UNCHANGED fan
    [] point = NPoints /\ fan = 1 -> field' = "temp" /\ point' = 1 /\ fan' = 2
    [] OTHER -> field' = "engage" /\ UNCHANGED <<fan, point>>

\* The order of the stores: for each point its temperature and its speed, for
\* the CPU and then for the GPU.
NextStore ==
  CASE field = "temp" -> field' = "speed" /\ UNCHANGED <<fan, point>>
    [] field = "speed" /\ point < NPoints ->
         field' = "temp" /\ point' = point + 1 /\ UNCHANGED fan
    [] field = "speed" /\ point = NPoints /\ fan = 1 ->
         field' = "temp" /\ point' = 1 /\ fan' = 2
    [] OTHER -> field' = "engage" /\ UNCHANGED <<fan, point>>

\* The tables after the store that is due.
Written == [tables EXCEPT ![fan][point][field] =
              IF field = "temp" THEN StoredTemp(conf[fan].temp[point])
                                ELSE StoredSpeed(Pct2Pwm(conf[fan].speed[point]))]

\* One echo of apply_curve.
Echo ==
  /\ pc = "write" /\ field \in {"temp", "speed"}
  /\ driver # "absent"
  /\ tables' = Written
  /\ NextStore
  /\ UNCHANGED <<manual, driverVars, pc, conf, began, disturbed>>

Engage ==
  /\ pc = "write" /\ field = "engage"
  /\ driver # "absent"
  /\ manual' = TRUE
  /\ pc' = "applied"
  /\ Rewind
  /\ UNCHANGED <<tables, driverVars, conf, began, disturbed>>

\* A store or the engaging fails after it had its effect, which the driver may
\* report as well (see FanControl): set -e ends the script.
EchoFails ==
  /\ pc = "write" /\ field \in {"temp", "speed"}
  /\ driver # "absent"
  /\ tables' = Written
  /\ pc' = "idle"
  /\ Rewind
  /\ UNCHANGED <<manual, driverVars, conf, began, disturbed>>

EngageFails ==
  /\ pc = "write" /\ field = "engage"
  /\ driver # "absent"
  /\ manual' = TRUE
  /\ pc' = "idle"
  /\ Rewind
  /\ UNCHANGED <<tables, driverVars, conf, began, disturbed>>

\* It ends before it is done: an invalid configuration, no hwmon device within
\* its 30 tries, a store that fails without effect, or a stop of the service.
Abort ==
  /\ pc \in {"check", "find", "write"}
  /\ pc' = "idle"
  /\ Rewind
  /\ UNCHANGED <<ecVars, driverVars, conf, began, disturbed>>

-----------------------------------------------------------------------------
(* Meanwhile.                                                              *)

\* The driver exposes its attributes, then takes the snapshot.
Expose ==
  /\ driver = "absent"
  /\ driver' = "exposed"
  /\ UNCHANGED <<ecVars, snapshot, scriptVars, disturbed>>

Snapshot ==
  /\ driver = "exposed"
  /\ driver' = "bound"
  /\ snapshot' = tables
  /\ UNCHANGED <<ecVars, scriptVars, disturbed>>

\* Its removal writes the snapshot back and leaves the mode.
Remove ==
  /\ driver = "bound"
  /\ driver' = "absent"
  /\ tables' = snapshot
  /\ disturbed' = TRUE
  /\ UNCHANGED <<manual, snapshot, scriptVars>>

\* A user writes 1 or 2 to pwm1_enable; 2 writes the snapshot back.
WriteMode ==
  /\ driver = "bound"
  /\ \/ manual' = TRUE /\ UNCHANGED tables
     \/ manual' = FALSE /\ tables' = snapshot
  /\ disturbed' = TRUE
  /\ UNCHANGED <<driverVars, scriptVars>>

\* S3 or hibernation: everything is as the firmware sets it, but for the fan
\* tables and the mode that the driver keeps in manual mode.
Sleep ==
  /\ driver # "exposed"
  /\ IF manual /\ driver = "bound"
       THEN /\ tables' = [f \in Fans |-> [i \in Points |->
                           [Factory[f][i] EXCEPT !.speed = tables[f][i].speed]]]
            /\ UNCHANGED manual
       ELSE /\ tables' = Factory
            /\ manual' = FALSE
  /\ disturbed' = TRUE
  /\ UNCHANGED <<driverVars, scriptVars>>

Next ==
  \/ Start
  \/ Check
  \/ Find
  \/ Echo
  \/ Engage
  \/ EchoFails
  \/ EngageFails
  \/ Abort
  \/ Expose
  \/ Snapshot
  \/ Remove
  \/ WriteMode
  \/ Sleep

Spec == Init /\ [][Next]_vars

-----------------------------------------------------------------------------
(* Properties.                                                             *)

Tables == [Fans -> [Points -> [temp : Byte, speed : 0 .. 100]]]

TypeOK ==
  /\ tables \in Tables
  /\ manual \in BOOLEAN
  /\ driver \in {"absent", "exposed", "bound"}
  /\ snapshot \in Tables
  /\ pc \in {"idle", "check", "find", "write", "applied"}
  /\ conf \in Confs
  /\ fan \in Fans /\ point \in Points /\ field \in {"temp", "speed", "engage"}
  /\ began \in {"auto", "manual"}
  /\ disturbed \in BOOLEAN

\* A run that is through has engaged exactly what the file says, if nothing
\* else touched the EC meanwhile: every point of both fans, none of another
\* configuration, whatever earlier runs left behind.
AppliedIsWhole ==
  pc = "applied" /\ ~disturbed => manual /\ \A f \in Fans : tables[f] = Table(conf[f])

\* What a configured percentage becomes in the EC is at most one less, and
\* only 0 stops a fan.
SpeedsAreClose ==
  pc = "applied" /\ ~disturbed =>
    \A f \in Fans, i \in Points :
      /\ conf[f].speed[i] - tables[f][i].speed \in {0, 1}
      /\ tables[f][i].speed = 0 <=> conf[f].speed[i] = 0

\* A run that found the EC in auto mode leaves it there until its curves are
\* complete: wherever it ends, no half-written table is engaged.  Manual mode it
\* can leave only by an engaging that took effect and failed, over whole curves.
AbortsInAuto ==
  pc # "applied" /\ began = "auto" /\ ~disturbed /\ manual =>
    pc = "idle" /\ \A f \in Fans : tables[f] = Table(conf[f])
=============================================================================
