----------------------------- MODULE FanControl -----------------------------
(***************************************************************************)
(* The fan-curves feature of msi-wmi-platform.c: the pwm and auto_point    *)
(* attributes that user tasks write, the factory snapshot taken while the  *)
(* driver binds and restored while it unbinds, and the copy of the fan     *)
(* tables kept over suspend and hibernation.                               *)
(*                                                                         *)
(* Every WMI call is one atomic step that may fail, before or after it had *)
(* its effect; what happens between two calls of one handler may           *)
(* interleave with everything that does not need wmi_lock.  The EC, the    *)
(* power-management core and the registration of sysfs attributes are      *)
(* modelled as the driver meets them.                                      *)
(***************************************************************************)
EXTENDS Naturals, FiniteSets

CONSTANTS
  NTables,    \* number of curve tables: in the code cpu fan, gpu fan, cpu temp, gpu temp
  NFan,       \* how many of them are fan tables
  Points,     \* the auto_point entries of a table
  Values,     \* what one entry may hold
  Factory,    \* the tables an EC holds after it lost power
  Blank,      \* a table of zeroed memory
  Unread,     \* a zeroed factory_curves entry, subfeature byte included
  Users,      \* tasks that write the attributes
  Driver,     \* the task that runs probe, remove and the sleep callbacks
  Free,       \* nobody holds wmi_lock
  Requests,   \* the writes the users make
  Sleeps      \* the ways the machine sleeps

Tables    == 1 .. NTables
FanTables == 1 .. NFan
Curves    == [Points -> Values]
Tasks     == Users \union {Driver}

Stores == [kind : {"store"}, table : Tables, point : Points, value : Values]
Modes  == [kind : {"enable"}, val : Nat]

ASSUME SizesAssumption ==
  /\ NTables \in Nat \ {0}
  /\ NFan \in 1 .. NTables
ASSUME CurvesAssumption ==
  /\ Factory \in [Tables -> Curves]
  /\ Blank \in Curves
  /\ Unread \notin Curves
ASSUME TasksAssumption ==
  /\ Driver \notin Users
  /\ Free \notin Tasks
ASSUME RequestsAssumption ==
  /\ Requests \subseteq Stores \union Modes
  /\ Sleeps \subseteq {"s2idle", "S3", "hibernate"}

VARIABLES
  tables,     \* EC: the curve tables
  manual,     \* EC: MSI_PLATFORM_AP_ENABLE_FAN_TABLES
  lock,       \* wmi_lock: its holder, or Free
  pc,         \* where each task is
  idx,        \* the table a task's loop over the tables has come to
  req,        \* the write a user task is performing
  buf,        \* the table a store has read and will write back
  exposed,    \* the hwmon attributes can be opened
  factory,    \* data->factory_curves
  saved,      \* data->curves_saved
  kept,       \* data->fan_table_cpu, data->fan_table_gpu
  keptOk,     \* data->fan_tables_enabled
  sleep,      \* which sleep transition is under way, or "awake"
  image,      \* the driver memory a hibernation image holds
  before      \* history: the EC when the machine last went to sleep, and
              \* whether every call succeeded since

ecVars   == <<tables, manual>>
taskVars == <<lock, pc, idx, req, buf>>
dataVars == <<factory, saved, kept, keptOk>>
pmVars   == <<sleep, image, before>>
vars     == <<ecVars, taskVars, exposed, dataVars, pmVars>>

UserPcs   == {"idle", "wait", "get", "set", "load"}
BindPcs   == {"unbound", "setup", "saving", "bound",
              "remove", "restoring", "teardown", "hidden"}
SleepPcs  == {"suspending", "keeping", "asleep",
              "reapplying", "modeget", "modeset", "woken"}
DriverPcs == BindPcs \union SleepPcs

\* Where a task holds wmi_lock over several calls.
Critical == {"get", "set", "load", "saving", "restoring"}

NoRequest == [kind |-> "none"]
NoImage   == [kept |-> [t \in FanTables |-> Blank], keptOk |-> FALSE]
NotAsleep == [tables |-> Factory, manual |-> FALSE, clean |-> TRUE]

Init ==
  /\ tables = Factory
  /\ manual = FALSE
  /\ lock = Free
  /\ pc = [t \in Tasks |-> IF t = Driver THEN "unbound" ELSE "idle"]
  /\ idx = [t \in Tasks |-> 1]
  /\ req = [t \in Tasks |-> NoRequest]
  /\ buf = [t \in Tasks |-> Blank]
  /\ exposed = FALSE
  /\ factory = [t \in Tables |-> Unread]
  /\ saved = FALSE
  /\ kept = [t \in FanTables |-> Blank]
  /\ keptOk = FALSE
  /\ sleep = "awake"
  /\ image = NoImage
  /\ before = NotAsleep

-----------------------------------------------------------------------------
(* Steps every task makes.                                                 *)

GoTo(t, where) == pc' = [pc EXCEPT ![t] = where]

Acquire(t, from, to) ==
  /\ pc[t] = from
  /\ lock = Free
  /\ lock' = t
  /\ GoTo(t, to)
  /\ UNCHANGED <<ecVars, idx, req, buf, exposed, dataVars, pmVars>>

\* The handler returns: the guard drops wmi_lock, the stack frame is gone.
Return(t, where) ==
  /\ lock' = Free
  /\ idx' = [idx EXCEPT ![t] = 1]
  /\ req' = [req EXCEPT ![t] = NoRequest]
  /\ buf' = [buf EXCEPT ![t] = Blank]
  /\ GoTo(t, where)

\* Its loop over the tables goes on to the next one.
Advance(t) ==
  /\ idx' = [idx EXCEPT ![t] = @ + 1]
  /\ UNCHANGED <<lock, pc, req, buf>>

\* SET_FAN or SET_TEMPERATURE of an entry of factory_curves: an entry that was
\* never read names no table.
Loaded(t) ==
  IF factory[idx[t]] = Unread
    THEN tables
    ELSE [tables EXCEPT ![idx[t]] = factory[idx[t]]]

\* Mutant: the loop counts one table too many.
LoadOneMore(t, from, to) ==
  /\ pc[t] = from
  /\ tables' = Loaded(t)
  /\ IF idx[t] <= NTables THEN Advance(t) ELSE Return(t, to)
  /\ UNCHANGED <<manual, exposed, dataVars, pmVars>>

\* One call of curves_load.
LoadTable(t, from, to) ==
  /\ pc[t] = from
  /\ tables' = Loaded(t)
  /\ IF idx[t] < NTables THEN Advance(t) ELSE Return(t, to)
  /\ UNCHANGED <<manual, exposed, dataVars, pmVars>>

\* Mutant: an error return without a guard on the mutex.
FailLocked(t, from, to) ==
  /\ pc[t] = from
  /\ GoTo(t, to)
  /\ UNCHANGED <<lock, idx, req, buf, exposed, dataVars, pmVars>>

\* A call fails, and its handler returns.  The answer is looked at only when the
\* method has been evaluated, so a SET that fails may have been done: what becomes
\* of the EC is left to the callers.
CallFails(t, from, to) ==
  /\ pc[t] = from
  /\ Return(t, to)
  /\ UNCHANGED <<exposed, dataVars, pmVars>>

LoadFails(t, from, to) ==
  /\ CallFails(t, from, to)
  /\ tables' \in {tables, Loaded(t)}
  /\ UNCHANGED manual

-----------------------------------------------------------------------------
(* A user task writes an attribute: fan_table_store, temp_table_store or   *)
(* the hwmon write of pwm_enable.                                          *)

Open(u, r) ==
  /\ pc[u] = "idle"
  /\ exposed
  /\ sleep = "awake"
  /\ req' = [req EXCEPT ![u] = r]
  /\ GoTo(u, "wait")
  /\ UNCHANGED <<ecVars, lock, idx, buf, exposed, dataVars, pmVars>>

Lock(u) == Acquire(u, "wait", "get")
\* Mutant: the guard covers the read alone.
ReadUnlocked(u) ==
  /\ pc[u] = "get"
  /\ req[u].kind = "store"
  /\ buf' = [buf EXCEPT ![u] = tables[req[u].table]]
  /\ lock' = Free
  /\ GoTo(u, "set")
  /\ UNCHANGED <<ecVars, idx, req, exposed, dataVars, pmVars>>

ReadTable(u) ==
  /\ pc[u] = "get"
  /\ req[u].kind = "store"
  /\ buf' = [buf EXCEPT ![u] = tables[req[u].table]]
  /\ GoTo(u, "set")
  /\ UNCHANGED <<ecVars, lock, idx, req, exposed, dataVars, pmVars>>

\* SET_FAN or SET_TEMPERATURE of what was read but for one point.
Stored(u) ==
  [tables EXCEPT ![req[u].table] = [buf[u] EXCEPT ![req[u].point] = req[u].value]]

WriteTable(u) ==
  /\ pc[u] = "set"
  /\ req[u].kind = "store"
  /\ tables' = Stored(u)
  /\ Return(u, "idle")
  /\ UNCHANGED <<manual, exposed, dataVars, pmVars>>

\* GET_AP; a value other than 1 and 2 is refused only now.
ReadMode(u) ==
  /\ pc[u] = "get"
  /\ req[u].kind = "enable"
  /\ IF req[u].val \in {1, 2}
       THEN GoTo(u, "set") /\ UNCHANGED <<lock, idx, req, buf>>
       ELSE Return(u, "idle")
  /\ UNCHANGED <<ecVars, exposed, dataVars, pmVars>>

\* Mutant: the enable bit is never cleared.
WriteModeSticky(u) ==
  /\ pc[u] = "set"
  /\ req[u].kind = "enable"
  /\ manual' = (manual \/ req[u].val = 1)
  /\ IF req[u].val = 2
       THEN GoTo(u, "load") /\ UNCHANGED <<lock, idx, req, buf>>
       ELSE Return(u, "idle")
  /\ UNCHANGED <<tables, exposed, dataVars, pmVars>>

\* SET_AP; automatic mode goes on to curves_load with the lock held.
WriteMode(u) ==
  /\ pc[u] = "set"
  /\ req[u].kind = "enable"
  /\ manual' = (req[u].val = 1)
  /\ IF req[u].val = 2
       THEN GoTo(u, "load") /\ UNCHANGED <<lock, idx, req, buf>>
       ELSE Return(u, "idle")
  /\ UNCHANGED <<tables, exposed, dataVars, pmVars>>

LoadFactory(u) == LoadTable(u, "load", "idle")

ReadFails(u) == CallFails(u, "get", "idle") /\ UNCHANGED ecVars

StoreFails(u) ==
  /\ req[u].kind = "store"
  /\ CallFails(u, "set", "idle")
  /\ tables' \in {tables, Stored(u)}
  /\ UNCHANGED manual

ModeFails(u) ==
  /\ req[u].kind = "enable"
  /\ CallFails(u, "set", "idle")
  /\ manual' \in {manual, req[u].val = 1}
  /\ UNCHANGED tables

WriteFails(u) ==
  \/ ReadFails(u)
  \/ StoreFails(u)
  \/ ModeFails(u)
  \/ LoadFails(u, "load", "idle")

UserStep(u) ==
  \/ ReadTable(u)
  \/ WriteTable(u)
  \/ ReadMode(u)
  \/ WriteMode(u)
  \/ LoadFactory(u)
  \/ WriteFails(u)

-----------------------------------------------------------------------------
(* Binding and unbinding.                                                  *)

\* probe: the zeroed driver data, then msi_wmi_platform_hwmon_init.
Probe ==
  /\ pc[Driver] = "unbound"
  /\ factory' = [t \in Tables |-> Unread]
  /\ saved' = FALSE
  /\ kept' = [t \in FanTables |-> Blank]
  /\ keptOk' = FALSE
  /\ exposed' = TRUE
  /\ GoTo(Driver, "setup")
  /\ UNCHANGED <<ecVars, lock, idx, req, buf, pmVars>>

SetupLock == Acquire(Driver, "setup", "saving")

\* One call of curves_save.
SaveTable ==
  /\ pc[Driver] = "saving"
  /\ factory' = [factory EXCEPT ![idx[Driver]] = tables[idx[Driver]]]
  /\ IF idx[Driver] < NTables
       THEN Advance(Driver) /\ UNCHANGED saved
       ELSE Return(Driver, "bound") /\ saved' = TRUE
  /\ UNCHANGED <<ecVars, exposed, kept, keptOk, pmVars>>

\* Mutant: the result of curves_save is not looked at.
SaveFailsUnseen ==
  /\ pc[Driver] = "saving"
  /\ factory' = [factory EXCEPT ![idx[Driver]] = Blank]
  /\ saved' = TRUE
  /\ Return(Driver, "bound")
  /\ UNCHANGED <<ecVars, exposed, kept, keptOk, pmVars>>

\* The subfeature byte of the failing entry is already written.
SaveFails ==
  /\ pc[Driver] = "saving"
  /\ factory' = [factory EXCEPT ![idx[Driver]] = Blank]
  /\ Return(Driver, "bound")
  /\ UNCHANGED <<ecVars, exposed, saved, kept, keptOk, pmVars>>

Remove ==
  /\ pc[Driver] = "bound"
  /\ sleep = "awake"
  /\ GoTo(Driver, IF saved THEN "remove" ELSE "teardown")
  /\ UNCHANGED <<ecVars, lock, idx, req, buf, exposed, dataVars, pmVars>>
\* Mutant: remove() calls curves_load without wmi_lock.
RemoveNoLock ==
  /\ pc[Driver] = "remove"
  /\ GoTo(Driver, "restoring")
  /\ UNCHANGED <<ecVars, lock, idx, req, buf, exposed, dataVars, pmVars>>

RemoveLock == Acquire(Driver, "remove", "restoring")

RestoreFactory == LoadTable(Driver, "restoring", "teardown")

RestoreFails == LoadFails(Driver, "restoring", "teardown")

\* devres: no attribute is opened any more, then those open are waited for.
Hide ==
  /\ pc[Driver] = "teardown"
  /\ exposed' = FALSE
  /\ GoTo(Driver, "hidden")
  /\ UNCHANGED <<ecVars, lock, idx, req, buf, dataVars, pmVars>>

Drain ==
  /\ pc[Driver] = "hidden"
  /\ \A u \in Users : pc[u] = "idle"
  /\ GoTo(Driver, "unbound")
  /\ UNCHANGED <<ecVars, lock, idx, req, buf, exposed, dataVars, pmVars>>

-----------------------------------------------------------------------------
(* Sleeping.  User tasks are frozen outside the kernel and stay so until   *)
(* the driver has resumed.                                                 *)

\* A call of the sleep callbacks fails.
Unclean == before' = [before EXCEPT !.clean = FALSE]
\* Mutant: fan_tables_enabled is not reset first.
FallAsleepStale(how) ==
  /\ pc[Driver] = "bound"
  /\ sleep = "awake"
  /\ \A u \in Users : pc[u] = "idle"
  /\ sleep' = how
  /\ before' = [tables |-> tables, manual |-> manual, clean |-> TRUE]
  /\ GoTo(Driver, "suspending")
  /\ UNCHANGED <<ecVars, lock, idx, req, buf, exposed, dataVars, image>>

FallAsleep(how) ==
  /\ pc[Driver] = "bound"
  /\ sleep = "awake"
  /\ \A u \in Users : pc[u] = "idle"
  /\ sleep' = how
  /\ before' = [tables |-> tables, manual |-> manual, clean |-> TRUE]
  /\ keptOk' = FALSE
  /\ GoTo(Driver, "suspending")
  /\ UNCHANGED <<ecVars, lock, idx, req, buf, exposed, factory, saved, kept, image>>

\* GET_AP of msi_feat_fan_curves_suspend.
SuspendMode ==
  /\ pc[Driver] = "suspending"
  /\ \/ GoTo(Driver, IF manual THEN "keeping" ELSE "asleep") /\ UNCHANGED before
     \/ GoTo(Driver, "asleep") /\ Unclean
  /\ UNCHANGED <<ecVars, lock, idx, req, buf, exposed, dataVars, sleep, image>>

KeepTable ==
  /\ pc[Driver] = "keeping"
  /\ kept' = [kept EXCEPT ![idx[Driver]] = tables[idx[Driver]]]
  /\ IF idx[Driver] < NFan
       THEN Advance(Driver) /\ UNCHANGED keptOk
       ELSE Return(Driver, "asleep") /\ keptOk' = TRUE
  /\ UNCHANGED <<ecVars, exposed, factory, saved, pmVars>>

KeepFails ==
  /\ pc[Driver] = "keeping"
  /\ Return(Driver, "asleep")
  /\ Unclean
  /\ UNCHANGED <<ecVars, exposed, dataVars, sleep, image>>

\* Hibernation: the image is written, then the poweroff callback runs, which
\* is the suspend callback again.
PowerOff ==
  /\ pc[Driver] = "asleep"
  /\ sleep = "hibernate"
  /\ sleep' = "off"
  /\ image' = [kept |-> kept, keptOk |-> keptOk]
  /\ keptOk' = FALSE
  /\ GoTo(Driver, "suspending")
  /\ UNCHANGED <<ecVars, lock, idx, req, buf, exposed, factory, saved, kept, before>>

\* resume or thaw with pm_resume_via_firmware() false: s2idle, or a sleep or a
\* hibernation that was called off, whose image is of no more use.
WakeWithoutFirmware ==
  /\ pc[Driver] = "asleep"
  /\ image' = NoImage
  /\ GoTo(Driver, "woken")
  /\ UNCHANGED <<ecVars, lock, idx, req, buf, exposed, dataVars, sleep, before>>

\* Mutant: no restore callback, so hibernation re-applies nothing.
WakeNoRestore ==
  /\ pc[Driver] = "asleep"
  /\ sleep \in {"S3", "off"}
  /\ tables' = Factory
  /\ manual' = FALSE
  /\ kept' = IF sleep = "off" THEN image.kept ELSE kept
  /\ keptOk' = IF sleep = "off" THEN image.keptOk ELSE keptOk
  /\ image' = NoImage
  /\ GoTo(Driver, IF keptOk' /\ sleep = "S3" THEN "reapplying" ELSE "woken")
  /\ UNCHANGED <<lock, idx, req, buf, exposed, factory, saved, sleep, before>>

\* resume from S3 or restore from the image, and the entry of
\* msi_feat_fan_curves_resume.
WakeFromFirmware ==
  /\ pc[Driver] = "asleep"
  /\ sleep \in {"S3", "off"}
  /\ tables' = Factory
  /\ manual' = FALSE
  /\ kept' = IF sleep = "off" THEN image.kept ELSE kept
  /\ keptOk' = IF sleep = "off" THEN image.keptOk ELSE keptOk
  /\ image' = NoImage
  /\ GoTo(Driver, IF keptOk' THEN "reapplying" ELSE "woken")
  /\ UNCHANGED <<lock, idx, req, buf, exposed, factory, saved, sleep, before>>

\* SET_FAN of the kept tables; its result is ignored.
Reapplied == [tables EXCEPT ![idx[Driver]] = kept[idx[Driver]]]

ReapplyTable ==
  /\ pc[Driver] = "reapplying"
  /\ \/ tables' = Reapplied /\ UNCHANGED before
     \/ tables' \in {tables, Reapplied} /\ Unclean
  /\ IF idx[Driver] < NFan
       THEN Advance(Driver)
       ELSE Return(Driver, "modeget")
  /\ UNCHANGED <<manual, exposed, dataVars, sleep, image>>

ReapplyMode ==
  /\ \/ pc[Driver] = "modeget" /\ GoTo(Driver, "modeset") /\ UNCHANGED manual
     \/ pc[Driver] = "modeset" /\ GoTo(Driver, "woken") /\ manual' = TRUE
  /\ UNCHANGED <<tables, lock, idx, req, buf, exposed, dataVars, pmVars>>

ReapplyModeFails ==
  /\ \/ pc[Driver] = "modeget" /\ UNCHANGED manual
     \/ pc[Driver] = "modeset" /\ manual' \in {manual, TRUE}
  /\ GoTo(Driver, "woken")
  /\ Unclean
  /\ UNCHANGED <<tables, lock, idx, req, buf, exposed, dataVars, sleep, image>>

\* User tasks run again.
Thaw ==
  /\ pc[Driver] = "woken"
  /\ sleep' = "awake"
  /\ before' = NotAsleep
  /\ GoTo(Driver, "bound")
  /\ UNCHANGED <<ecVars, lock, idx, req, buf, exposed, dataVars, image>>

-----------------------------------------------------------------------------
DriverStep ==
  \/ SaveTable
  \/ SaveFails
  \/ RestoreFactory
  \/ RestoreFails
  \/ Hide
  \/ Drain
  \/ SuspendMode
  \/ KeepTable
  \/ KeepFails
  \/ ReapplyTable
  \/ ReapplyMode
  \/ ReapplyModeFails
  \/ Thaw

\* What the outside world decides: nothing obliges it to.
Environment ==
  \/ \E u \in Users, r \in Requests : Open(u, r)
  \/ Probe
  \/ Remove
  \/ \E how \in Sleeps : FallAsleep(how)
  \/ PowerOff
  \/ WakeWithoutFirmware
  \/ WakeFromFirmware

Next ==
  \/ Environment
  \/ DriverStep
  \/ SetupLock
  \/ RemoveLock
  \/ \E u \in Users : Lock(u) \/ UserStep(u)

Spec == Init /\ [][Next]_vars

\* A task that holds or needs no lock runs on; a mutex hands itself to the
\* task that has waited longest, so no task waits for ever.
Fairness ==
  /\ WF_vars(DriverStep)
  /\ SF_vars(SetupLock)
  /\ SF_vars(RemoveLock)
  /\ \A u \in Users : WF_vars(UserStep(u)) /\ SF_vars(Lock(u))

FairSpec == Spec /\ Fairness

-----------------------------------------------------------------------------
(* Properties.                                                             *)

\* The type of every variable.
TypeOK ==
  /\ tables \in [Tables -> Curves]
  /\ manual \in BOOLEAN
  /\ lock \in Tasks \union {Free}
  /\ pc \in [Tasks -> UserPcs \union DriverPcs]
  /\ pc[Driver] \in DriverPcs
  /\ \A u \in Users : pc[u] \in UserPcs
  /\ idx \in [Tasks -> Tables]
  /\ req \in [Tasks -> Requests \union {NoRequest}]
  /\ buf \in [Tasks -> Curves]
  /\ exposed \in BOOLEAN
  /\ factory \in [Tables -> Curves \union {Unread}]
  /\ saved \in BOOLEAN
  /\ kept \in [FanTables -> Curves]
  /\ keptOk \in BOOLEAN
  /\ sleep \in Sleeps \union {"awake", "off"}
  /\ image \in [kept : [FanTables -> Curves], keptOk : BOOLEAN]
  /\ before \in [tables : [Tables -> Curves], manual : BOOLEAN, clean : BOOLEAN]

\* No update is lost: when a store writes a table back, all its other points
\* still are what the EC holds, whatever other tasks stored meanwhile
\* (fan_table_store and temp_table_store hold wmi_lock over both calls).
StoreSeesCurrentTable ==
  \A u \in Users :
    pc[u] = "set" /\ req[u].kind = "store" => buf[u] = tables[req[u].table]

\* While curves_load replaces the tables one by one for a write of 2 to
\* pwm_enable, the EC does not run them: the mix of user and factory points
\* that a failing call leaves behind is never engaged by this write.
HalfRestoredOnlyInAuto == \A u \in Users : pc[u] = "load" => ~manual

\* remove() writes back nothing but a complete snapshot (curves_saved), and
\* no store slips in between its calls: what is restored so far stays so
\* until the last table is written.
UnloadRestoresSnapshot ==
  pc[Driver] = "restoring" =>
    /\ saved
    /\ \A t \in Tables : t < idx[Driver] => tables[t] = factory[t]

\* "resume must never enable fan tables that were snapshotted incompletely"
\* (msi_feat_fan_curves_suspend): a resume re-applies only tables that are all
\* those of the EC when this sleep began, not those of an earlier sleep, and
\* only if the EC ran them then.
ResumeUsesFullSnapshot ==
  pc[Driver] \in {"reapplying", "modeget", "modeset"} =>
    /\ before.manual
    /\ \A t \in FanTables : kept[t] = before.tables[t]

\* If every call since the sleep began succeeded, an EC that ran its tables
\* runs the same fan tables again before any user task does
\* (msi_feat_fan_curves_resume), however it slept.
WakeKeepsFanTables ==
  pc[Driver] = "woken" /\ before.clean /\ before.manual =>
    /\ manual
    /\ \A t \in FanTables : tables[t] = before.tables[t]

\* The lock, the tasks and the single calls implement the promise of EcFan.
AbstractFan == INSTANCE EcFan
ImplementsEcFan == AbstractFan!Spec

\* Every write of an attribute returns: wmi_lock is always given back.
WritesComplete == \A u \in Users : pc[u] = "wait" ~> pc[u] = "idle"

\* Unbinding comes to its end whatever the users do.
UnbindCompletes == pc[Driver] = "remove" ~> pc[Driver] = "unbound"

\* The inductive invariant behind the properties above, part by part.

\* wmi_lock is held by the task inside a critical section, and only by it.
LockInv == \A t \in Tasks : pc[t] \in Critical <=> lock = t

\* The loops of curves_save and curves_load: the tables passed so far are alike
\* in the EC and in the driver.
Loops == {"load", "saving", "restoring", "keeping", "reapplying"}

LoopInv ==
  /\ \A t \in Tasks : pc[t] \notin Loops => idx[t] = 1
  /\ pc[Driver] = "saving" =>
       \A t \in Tables : t < idx[Driver] => factory[t] = tables[t]
  /\ saved => factory \in [Tables -> Curves]
  /\ pc[Driver] = "remove" => saved
  /\ pc[Driver] \in {"setup", "saving"} => ~saved

\* User tasks are frozen while the driver sleeps, and only while it sleeps.
FrozenInv ==
  /\ pc[Driver] \in SleepPcs => \A u \in Users : pc[u] = "idle"
  /\ pc[Driver] \in SleepPcs <=> sleep # "awake"
  /\ pc[Driver] \in {"keeping", "reapplying"} => idx[Driver] \in FanTables

\* What a copy of the fan tables is worth: if complete, it is that of the EC
\* when this sleep began; if no call failed, it is complete.
Faithful(copy, ok) ==
  /\ ok => before.manual /\ \A t \in FanTables : copy[t] = before.tables[t]
  /\ before.clean /\ before.manual => ok

SleepInv ==
  /\ pc[Driver] \in {"suspending", "keeping", "asleep"} =>
       tables = before.tables /\ manual = before.manual
  /\ pc[Driver] = "keeping" =>
       /\ manual
       /\ \A t \in FanTables : t < idx[Driver] => kept[t] = tables[t]
  /\ pc[Driver] \in {"suspending", "keeping"} => ~keptOk
  /\ pc[Driver] = "asleep" => Faithful(kept, keptOk)
  /\ sleep = "off" /\ pc[Driver] \in {"suspending", "keeping", "asleep"} =>
       Faithful(image.kept, image.keptOk)
  /\ pc[Driver] \in {"reapplying", "modeget", "modeset"} => Faithful(kept, TRUE)
  /\ pc[Driver] = "reapplying" /\ before.clean =>
       \A t \in FanTables : t < idx[Driver] => tables[t] = before.tables[t]
  /\ pc[Driver] \in {"modeget", "modeset"} /\ before.clean =>
       \A t \in FanTables : tables[t] = before.tables[t]

IInv ==
  /\ TypeOK
  /\ LockInv
  /\ LoopInv
  /\ FrozenInv
  /\ SleepInv
  /\ StoreSeesCurrentTable
  /\ HalfRestoredOnlyInAuto
  /\ UnloadRestoresSnapshot
  /\ WakeKeepsFanTables

\* The comment of msi_feat_fan_curves_setup: a failing snapshot must not "leave
\* a partial snapshot behind: only mark it restorable once the full snapshot
\* succeeded".  So once the setup is over only a full snapshot is ever restored.
RestoreOnlyFullSnapshot ==
  \A u \in Users : pc[u] = "load" /\ pc[Driver] = "bound" => saved
=============================================================================
