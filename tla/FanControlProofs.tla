-------------------------- MODULE FanControlProofs --------------------------
(***************************************************************************)
(* Proofs about FanControl for every number of tables, points, values and  *)
(* user tasks.                                                             *)
(***************************************************************************)
EXTENDS FanControl, TLAPS

TasksTyped ==
  /\ lock \in Tasks \union {Free}
  /\ pc \in [Tasks -> UserPcs \union DriverPcs]
  /\ pc[Driver] \in DriverPcs
  /\ \A u \in Users : pc[u] \in UserPcs
  /\ idx \in [Tasks -> Tables]
  /\ req \in [Tasks -> Requests \union {NoRequest}]
  /\ buf \in [Tasks -> Curves]

Belongs(t, where) == IF t = Driver THEN where \in DriverPcs ELSE where \in UserPcs

\* A task that moves within its own code keeps the types of the tasks' state.
LEMMA Moved ==
  ASSUME TasksTyped, NEW t \in Tasks, NEW where, Belongs(t, where), GoTo(t, where),
         lock' \in Tasks \union {Free}, idx' \in [Tasks -> Tables],
         req' \in [Tasks -> Requests \union {NoRequest}], buf' \in [Tasks -> Curves]
  PROVE  TasksTyped'
BY TasksAssumption DEF TasksTyped, Belongs, GoTo, Tasks

\* So does a task whose handler returns.
LEMMA Returned ==
  ASSUME TasksTyped, NEW t \in Tasks, NEW where, Belongs(t, where), Return(t, where)
  PROVE  TasksTyped'
<1>1. lock' \in Tasks \union {Free} /\ GoTo(t, where)
  BY DEF Return
<1>2. idx' \in [Tasks -> Tables]
  BY SizesAssumption DEF Return, TasksTyped, Tables
<1>3. req' \in [Tasks -> Requests \union {NoRequest}]
  BY DEF Return, TasksTyped
<1>4. buf' \in [Tasks -> Curves]
  BY CurvesAssumption DEF Return, TasksTyped
<1> QED
  BY <1>1, <1>2, <1>3, <1>4, Moved

\* So does one whose loop over the tables goes on.
LEMMA Advanced ==
  ASSUME TasksTyped, NEW t \in Tasks, idx[t] < NTables, Advance(t)
  PROVE  TasksTyped'
BY SizesAssumption DEF TasksTyped, Advance, Tables

\* What curves_load, a store or a resume leaves in the EC are curves.
LEMMA LoadedTyped ==
  ASSUME TypeOK, NEW t \in Tasks
  PROVE  Loaded(t) \in [Tables -> Curves]
BY DEF Loaded, TypeOK

LEMMA StoredTyped ==
  ASSUME TypeOK, NEW u \in Users, req[u].kind = "store"
  PROVE  req[u] \in Stores /\ Stored(u) \in [Tables -> Curves]
<1>1. u \in Tasks
  BY DEF Tasks
<1>2. req[u] \in Stores
  BY <1>1, RequestsAssumption DEF TypeOK, NoRequest, Stores, Modes
<1>3. [buf[u] EXCEPT ![req[u].point] = req[u].value] \in Curves
  BY <1>1, <1>2 DEF TypeOK, Stores, Curves
<1> QED
  BY <1>2, <1>3 DEF Stored, TypeOK, Stores

LEMMA ReappliedTyped ==
  ASSUME TypeOK, idx[Driver] \in FanTables
  PROVE  Reapplied \in [Tables -> Curves]
BY DEF Reapplied, TypeOK

\* So does one call of curves_load, and the EC then holds curves.
LEMMA TableLoaded ==
  ASSUME TypeOK, NEW t \in Tasks, NEW from, NEW to, Belongs(t, to),
         LoadTable(t, from, to)
  PROVE  TasksTyped' /\ tables' \in [Tables -> Curves]
<1>0. TasksTyped
  BY DEF TypeOK, TasksTyped
<1>1. TasksTyped'
  <2>1. CASE idx[t] < NTables
    BY <1>0, <2>1, Advanced DEF LoadTable
  <2>2. CASE ~(idx[t] < NTables)
    BY <1>0, <2>2, Returned DEF LoadTable
  <2> QED
    BY <2>1, <2>2
<1>2. tables' \in [Tables -> Curves]
  BY LoadedTyped DEF LoadTable
<1> QED
  BY <1>1, <1>2

\* Every variable has its type at first.
LEMMA TypedInit == Init => TypeOK
<1> SUFFICES ASSUME Init PROVE TypeOK
  OBVIOUS
<1>1. tables \in [Tables -> Curves] /\ factory \in [Tables -> Curves \union {Unread}]
  BY CurvesAssumption DEF Init
<1>2. kept \in [FanTables -> Curves]
  BY CurvesAssumption DEF Init
<1>3. image \in [kept : [FanTables -> Curves], keptOk : BOOLEAN]
  BY CurvesAssumption DEF Init, NoImage
<1>4. before \in [tables : [Tables -> Curves], manual : BOOLEAN, clean : BOOLEAN]
  BY CurvesAssumption DEF Init, NotAsleep
<1>5. /\ pc \in [Tasks -> UserPcs \union DriverPcs]
      /\ pc[Driver] \in DriverPcs
      /\ \A u \in Users : pc[u] \in UserPcs
  BY TasksAssumption DEF Init, Tasks, UserPcs, DriverPcs, BindPcs
<1>6. idx \in [Tasks -> Tables]
  BY SizesAssumption DEF Init, Tables
<1>7. req \in [Tasks -> Requests \union {NoRequest}] /\ buf \in [Tasks -> Curves]
  BY CurvesAssumption DEF Init
<1> QED
  BY <1>1, <1>2, <1>3, <1>4, <1>5, <1>6, <1>7 DEF Init, TypeOK

\* Every step keeps the types.
LEMMA TypedStep ==
  ASSUME IInv, [Next]_vars
  PROVE  TypeOK'
<1>0. TasksTyped
  BY DEF TypeOK, TasksTyped, IInv
<1>i. TypeOK
  BY DEF IInv
<1> USE DEF ecVars, dataVars, pmVars, Belongs
<1>t. Driver \in Tasks /\ \A u \in Users : u \in Tasks /\ u # Driver
  BY TasksAssumption DEF Tasks
<1>p. /\ UserPcs = {"idle", "wait", "get", "set", "load"}
      /\ DriverPcs = {"unbound", "setup", "saving", "bound", "remove", "restoring",
                      "teardown", "hidden", "suspending", "keeping", "asleep",
                      "reapplying", "modeget", "modeset", "woken"}
  BY DEF UserPcs, DriverPcs, BindPcs, SleepPcs
<1>1. ASSUME NEW u \in Users, NEW r \in Requests, Open(u, r) PROVE TypeOK'
  <2>1. TasksTyped'
    BY <1>i, <1>0, <1>t, <1>p, <1>1, Moved DEF Open, TasksTyped
  <2> QED
    BY <1>i, <1>t, <1>1, <2>1 DEF TypeOK, TasksTyped, Open
<1>2. ASSUME NEW u \in Users, Lock(u) PROVE TypeOK'
  <2>1. TasksTyped'
    BY <1>i, <1>0, <1>t, <1>p, <1>2, Moved DEF Lock, Acquire, TasksTyped
  <2> QED
    BY <1>i, <1>t, <1>2, <2>1 DEF TypeOK, TasksTyped, Lock, Acquire
<1>3. ASSUME NEW u \in Users, ReadTable(u) PROVE TypeOK'
  <2>1. TasksTyped'
    BY <1>i, <1>0, <1>t, <1>p, <1>3, Moved, RequestsAssumption DEF ReadTable, TypeOK, TasksTyped, NoRequest, Stores, Modes
  <2> QED
    BY <1>i, <1>t, <1>3, <2>1 DEF TypeOK, TasksTyped, ReadTable
<1>4. ASSUME NEW u \in Users, WriteTable(u) PROVE TypeOK'
  <2>1. TasksTyped'
    BY <1>i, <1>0, <1>t, <1>p, <1>4, Returned DEF WriteTable
  <2>2. tables' \in [Tables -> Curves]
    BY <1>i, <1>4, StoredTyped DEF WriteTable
  <2> QED
    BY <1>i, <1>4, <2>1, <2>2 DEF TypeOK, TasksTyped, WriteTable
<1>5. ASSUME NEW u \in Users, ReadMode(u) PROVE TypeOK'
  <2>1. TasksTyped'
    <3>1. CASE req[u].val \in {1, 2}
      BY <1>i, <1>0, <1>t, <1>p, <1>5, <3>1, Moved DEF ReadMode, TasksTyped
    <3>2. CASE req[u].val \notin {1, 2}
      BY <1>i, <1>0, <1>t, <1>p, <1>5, <3>2, Returned DEF ReadMode
    <3> QED
      BY <3>1, <3>2
  <2> QED
    BY <1>i, <1>t, <1>5, <2>1 DEF TypeOK, TasksTyped, ReadMode
<1>6. ASSUME NEW u \in Users, WriteMode(u) PROVE TypeOK'
  <2>1. TasksTyped'
    <3>1. CASE req[u].val = 2
      BY <1>i, <1>0, <1>t, <1>p, <1>6, <3>1, Moved DEF WriteMode, TasksTyped
    <3>2. CASE req[u].val # 2
      BY <1>i, <1>0, <1>t, <1>p, <1>6, <3>2, Returned DEF WriteMode
    <3> QED
      BY <3>1, <3>2
  <2> QED
    BY <1>i, <1>t, <1>6, <2>1 DEF TypeOK, TasksTyped, WriteMode
<1>7. ASSUME NEW u \in Users, LoadFactory(u) PROVE TypeOK'
  <2>1. TasksTyped'
    BY <1>i, <1>0, <1>t, <1>p, <1>7, TableLoaded DEF LoadFactory
  <2> QED
    BY <1>i, <1>t, <1>7, <2>1, TableLoaded, <1>p DEF TypeOK, TasksTyped, LoadFactory, LoadTable
<1>8. ASSUME NEW u \in Users, WriteFails(u) PROVE TypeOK'
  <2>1. TasksTyped'
    BY <1>i, <1>0, <1>t, <1>p, <1>8, Returned DEF WriteFails, ReadFails, StoreFails, ModeFails, LoadFails, CallFails
  <2>2. tables' \in [Tables -> Curves]
    BY <1>i, <1>t, <1>8, LoadedTyped, StoredTyped
       DEF WriteFails, ReadFails, StoreFails, ModeFails, LoadFails, TypeOK
  <2>3. manual' \in BOOLEAN
    BY <1>i, <1>8 DEF WriteFails, ReadFails, StoreFails, ModeFails, LoadFails, TypeOK
  <2>4. UNCHANGED <<exposed, dataVars, pmVars>>
    BY <1>8 DEF WriteFails, ReadFails, StoreFails, ModeFails, LoadFails, CallFails
  <2> QED
    BY <1>i, <2>1, <2>2, <2>3, <2>4 DEF TypeOK, TasksTyped
<1>9. CASE SetupLock
  <2>1. TasksTyped'
    BY <1>i, <1>0, <1>t, <1>p, <1>9, Moved DEF SetupLock, Acquire, TasksTyped
  <2> QED
    BY <1>i, <1>t, <1>9, <2>1 DEF TypeOK, TasksTyped, SetupLock, Acquire
<1>10. CASE RemoveLock
  <2>1. TasksTyped'
    BY <1>i, <1>0, <1>t, <1>p, <1>10, Moved DEF RemoveLock, Acquire, TasksTyped
  <2> QED
    BY <1>i, <1>t, <1>10, <2>1 DEF TypeOK, TasksTyped, RemoveLock, Acquire
<1>11. CASE Probe
  <2>1. TasksTyped'
    BY <1>i, <1>0, <1>t, <1>p, <1>11, Moved DEF Probe, TasksTyped
  <2> QED
    BY <1>i, <1>t, <1>11, <2>1, CurvesAssumption DEF TypeOK, TasksTyped, Probe
<1>12. CASE SaveTable
  <2>1. TasksTyped'
    <3>1. CASE idx[Driver] < NTables
      BY <1>i, <1>0, <1>t, <1>p, <1>12, <3>1, Advanced DEF SaveTable
    <3>2. CASE ~(idx[Driver] < NTables)
      BY <1>i, <1>0, <1>t, <1>p, <1>12, <3>2, Returned DEF SaveTable
    <3> QED
      BY <3>1, <3>2
  <2> QED
    BY <1>i, <1>t, <1>12, <2>1 DEF TypeOK, TasksTyped, SaveTable
<1>13. CASE SaveFails
  <2>1. TasksTyped'
    BY <1>i, <1>0, <1>t, <1>p, <1>13, Returned DEF SaveFails
  <2> QED
    BY <1>i, <1>t, <1>13, <2>1, CurvesAssumption DEF TypeOK, TasksTyped, SaveFails
<1>14. CASE Remove
  <2>1. TasksTyped'
    BY <1>i, <1>0, <1>t, <1>p, <1>14, Moved DEF Remove, TasksTyped
  <2> QED
    BY <1>i, <1>t, <1>14, <2>1 DEF TypeOK, TasksTyped, Remove
<1>15. CASE RestoreFactory
  <2>1. TasksTyped'
    BY <1>i, <1>0, <1>t, <1>p, <1>15, TableLoaded DEF RestoreFactory
  <2> QED
    BY <1>i, <1>t, <1>15, <2>1, TableLoaded, <1>p DEF TypeOK, TasksTyped, RestoreFactory, LoadTable
<1>16. CASE RestoreFails
  <2>1. TasksTyped'
    BY <1>i, <1>0, <1>t, <1>p, <1>16, Returned DEF RestoreFails, LoadFails, CallFails
  <2>2. tables' \in [Tables -> Curves]
    BY <1>i, <1>t, <1>16, LoadedTyped DEF RestoreFails, LoadFails, TypeOK
  <2> QED
    BY <1>i, <1>t, <1>16, <2>1, <2>2 DEF TypeOK, TasksTyped, RestoreFails, LoadFails, CallFails
<1>17. CASE Hide
  <2>1. TasksTyped'
    BY <1>i, <1>0, <1>t, <1>p, <1>17, Moved DEF Hide, TasksTyped
  <2> QED
    BY <1>i, <1>t, <1>17, <2>1 DEF TypeOK, TasksTyped, Hide
<1>18. CASE Drain
  <2>1. TasksTyped'
    BY <1>i, <1>0, <1>t, <1>p, <1>18, Moved DEF Drain, TasksTyped
  <2> QED
    BY <1>i, <1>t, <1>18, <2>1 DEF TypeOK, TasksTyped, Drain
<1>19. ASSUME NEW how \in Sleeps, FallAsleep(how) PROVE TypeOK'
  <2>1. TasksTyped'
    BY <1>i, <1>0, <1>t, <1>p, <1>19, Moved DEF FallAsleep, TasksTyped
  <2> QED
    BY <1>i, <1>t, <1>19, <2>1 DEF TypeOK, TasksTyped, FallAsleep
<1>20. CASE SuspendMode
  <2>1. TasksTyped'
    BY <1>i, <1>0, <1>t, <1>p, <1>20, Moved DEF SuspendMode, TasksTyped
  <2> QED
    BY <1>i, <1>t, <1>20, <2>1 DEF TypeOK, TasksTyped, SuspendMode, Unclean
<1>21. CASE KeepTable
  <2>1. TasksTyped'
    <3>1. CASE idx[Driver] < NFan
      BY <1>i, <1>0, <1>t, <1>p, <1>21, <3>1, Advanced, SizesAssumption DEF KeepTable, TasksTyped, Tables
    <3>2. CASE ~(idx[Driver] < NFan)
      BY <1>i, <1>0, <1>t, <1>p, <1>21, <3>2, Returned DEF KeepTable
    <3> QED
      BY <3>1, <3>2
  <2> QED
    BY <1>i, <1>t, <1>21, <2>1, SizesAssumption DEF TypeOK, TasksTyped, KeepTable, Tables, FanTables
<1>22. CASE KeepFails
  <2>1. TasksTyped'
    BY <1>i, <1>0, <1>t, <1>p, <1>22, Returned DEF KeepFails
  <2> QED
    BY <1>i, <1>t, <1>22, <2>1 DEF TypeOK, TasksTyped, KeepFails, Unclean
<1>23. CASE PowerOff
  <2>1. TasksTyped'
    BY <1>i, <1>0, <1>t, <1>p, <1>23, Moved DEF PowerOff, TasksTyped
  <2> QED
    BY <1>i, <1>t, <1>23, <2>1 DEF TypeOK, TasksTyped, PowerOff
<1>24. CASE WakeWithoutFirmware
  <2>1. TasksTyped'
    BY <1>i, <1>0, <1>t, <1>p, <1>24, Moved DEF WakeWithoutFirmware, TasksTyped
  <2> QED
    BY <1>i, <1>t, <1>24, <2>1, CurvesAssumption DEF TypeOK, TasksTyped, WakeWithoutFirmware, NoImage
<1>25. CASE WakeFromFirmware
  <2>1. TasksTyped'
    BY <1>i, <1>0, <1>t, <1>p, <1>25, Moved DEF WakeFromFirmware, TasksTyped
  <2> QED
    BY <1>i, <1>t, <1>25, <2>1, CurvesAssumption DEF TypeOK, TasksTyped, WakeFromFirmware, NoImage
<1>26. CASE ReapplyTable
  <2>1. TasksTyped'
    <3>1. CASE idx[Driver] < NFan
      BY <1>i, <1>0, <1>t, <1>p, <1>26, <3>1, Advanced, SizesAssumption DEF ReapplyTable, TasksTyped, Tables
    <3>2. CASE ~(idx[Driver] < NFan)
      BY <1>i, <1>0, <1>t, <1>p, <1>26, <3>2, Returned DEF ReapplyTable
    <3> QED
      BY <3>1, <3>2
  <2>2. idx[Driver] \in FanTables /\ idx[Driver] \in Tables
    BY <1>i, <1>t, <1>26 DEF IInv, FrozenInv, TypeOK, ReapplyTable
  <2>4. tables' \in [Tables -> Curves]
    BY <1>i, <1>26, <2>2, ReappliedTyped DEF TypeOK, ReapplyTable
  <2>5. before' \in [tables : [Tables -> Curves], manual : BOOLEAN, clean : BOOLEAN]
    BY <1>i, <1>26 DEF TypeOK, ReapplyTable, Unclean
  <2> QED
    BY <1>i, <1>26, <2>1, <2>4, <2>5 DEF TypeOK, TasksTyped, ReapplyTable
<1>27. CASE ReapplyMode
  <2>1. TasksTyped'
    BY <1>i, <1>0, <1>t, <1>p, <1>27, Moved DEF ReapplyMode, TasksTyped
  <2> QED
    BY <1>i, <1>t, <1>27, <2>1 DEF TypeOK, TasksTyped, ReapplyMode
<1>28. CASE ReapplyModeFails
  <2>1. TasksTyped'
    BY <1>i, <1>0, <1>t, <1>p, <1>28, Moved DEF ReapplyModeFails, TasksTyped
  <2> QED
    BY <1>i, <1>t, <1>28, <2>1 DEF TypeOK, TasksTyped, ReapplyModeFails, Unclean
<1>29. CASE Thaw
  <2>1. TasksTyped'
    BY <1>i, <1>0, <1>t, <1>p, <1>29, Moved DEF Thaw, TasksTyped
  <2> QED
    BY <1>i, <1>t, <1>29, <2>1, CurvesAssumption DEF TypeOK, TasksTyped, Thaw, NotAsleep
<1>30. CASE UNCHANGED vars
  BY <1>i, <1>30 DEF vars, taskVars, TypeOK
<1> QED
  BY <1>1, <1>2, <1>3, <1>4, <1>5, <1>6, <1>7, <1>8, <1>9, <1>10, <1>11, <1>12, <1>13, <1>14, <1>15, <1>16, <1>17, <1>18, <1>19, <1>20, <1>21, <1>22, <1>23, <1>24, <1>25, <1>26, <1>27, <1>28, <1>29, <1>30
     DEF Next, Environment, DriverStep, UserStep

\* wmi_lock stays with the one task inside a critical section: every handler
\* that takes it gives it back on each of its ways out.
LEMMA LockStep ==
  ASSUME IInv, [Next]_vars
  PROVE  LockInv'
<1>t. Driver \in Tasks /\ Driver \notin Users /\ Free \notin Tasks /\ \A u \in Users : u \in Tasks
  BY TasksAssumption DEF Tasks
<1>i. TypeOK /\ LockInv /\ FrozenInv
  BY DEF IInv
<1>c. Critical = {"get", "set", "load", "saving", "restoring"}
  BY DEF Critical
<1> USE DEF ecVars, dataVars, pmVars, GoTo
<1>1. ASSUME NEW u \in Users, NEW r \in Requests, Open(u, r) PROVE LockInv'
  BY <1>t, <1>i, <1>c, <1>1 DEF TypeOK, LockInv, Open
<1>2. ASSUME NEW u \in Users, Lock(u) PROVE LockInv'
  BY <1>t, <1>i, <1>c, <1>2 DEF TypeOK, LockInv, Lock, Acquire
<1>3. ASSUME NEW u \in Users, ReadTable(u) PROVE LockInv'
  BY <1>t, <1>i, <1>c, <1>3 DEF TypeOK, LockInv, ReadTable
<1>4. ASSUME NEW u \in Users, WriteTable(u) PROVE LockInv'
  BY <1>t, <1>i, <1>c, <1>4 DEF TypeOK, LockInv, WriteTable, Return
<1>5. ASSUME NEW u \in Users, ReadMode(u) PROVE LockInv'
  BY <1>t, <1>i, <1>c, <1>5 DEF TypeOK, LockInv, ReadMode, Return
<1>6. ASSUME NEW u \in Users, WriteMode(u) PROVE LockInv'
  BY <1>t, <1>i, <1>c, <1>6 DEF TypeOK, LockInv, WriteMode, Return
<1>7. ASSUME NEW u \in Users, LoadFactory(u) PROVE LockInv'
  BY <1>t, <1>i, <1>c, <1>7 DEF TypeOK, LockInv, LoadFactory, LoadTable, Return, Advance
<1>8. ASSUME NEW u \in Users, WriteFails(u) PROVE LockInv'
  BY <1>t, <1>i, <1>c, <1>8 DEF TypeOK, LockInv, WriteFails, ReadFails, StoreFails, ModeFails, LoadFails, CallFails, Return
<1>9. CASE SetupLock
  BY <1>t, <1>i, <1>c, <1>9 DEF TypeOK, LockInv, SetupLock, Acquire
<1>10. CASE RemoveLock
  BY <1>t, <1>i, <1>c, <1>10 DEF TypeOK, LockInv, RemoveLock, Acquire
<1>11. CASE Probe
  BY <1>t, <1>i, <1>c, <1>11 DEF TypeOK, LockInv, Probe
<1>12. CASE SaveTable
  BY <1>t, <1>i, <1>c, <1>12 DEF TypeOK, LockInv, SaveTable, Return, Advance
<1>13. CASE SaveFails
  BY <1>t, <1>i, <1>c, <1>13 DEF TypeOK, LockInv, SaveFails, Return
<1>14. CASE Remove
  BY <1>t, <1>i, <1>c, <1>14 DEF TypeOK, LockInv, Remove
<1>15. CASE RestoreFactory
  BY <1>t, <1>i, <1>c, <1>15 DEF TypeOK, LockInv, RestoreFactory, LoadTable, Return, Advance
<1>16. CASE RestoreFails
  BY <1>t, <1>i, <1>c, <1>16 DEF TypeOK, LockInv, RestoreFails, LoadFails, CallFails, Return
<1>17. CASE Hide
  BY <1>t, <1>i, <1>c, <1>17 DEF TypeOK, LockInv, Hide
<1>18. CASE Drain
  BY <1>t, <1>i, <1>c, <1>18 DEF TypeOK, LockInv, Drain
<1>19. CASE SuspendMode
  BY <1>t, <1>i, <1>c, <1>19 DEF TypeOK, LockInv, SuspendMode, Unclean
<1>20. CASE KeepTable
  <2>1. lock = Free
    BY <1>t, <1>i, <1>c, <1>20 DEF TypeOK, LockInv, FrozenInv, SleepPcs, Tasks, KeepTable
  <2> QED
    BY <1>t, <1>i, <1>c, <2>1, <1>20 DEF TypeOK, LockInv, KeepTable, Return, Advance
<1>21. CASE KeepFails
  <2>1. lock = Free
    BY <1>t, <1>i, <1>c, <1>21 DEF TypeOK, LockInv, FrozenInv, SleepPcs, Tasks, KeepFails
  <2> QED
    BY <1>t, <1>i, <1>c, <2>1, <1>21 DEF TypeOK, LockInv, KeepFails, Return, Unclean
<1>22. CASE PowerOff
  BY <1>t, <1>i, <1>c, <1>22 DEF TypeOK, LockInv, PowerOff
<1>23. CASE WakeWithoutFirmware
  BY <1>t, <1>i, <1>c, <1>23 DEF TypeOK, LockInv, WakeWithoutFirmware
<1>24. CASE WakeFromFirmware
  BY <1>t, <1>i, <1>c, <1>24 DEF TypeOK, LockInv, WakeFromFirmware, NoImage
<1>25. CASE ReapplyTable
  <2>1. lock = Free
    BY <1>t, <1>i, <1>c, <1>25 DEF TypeOK, LockInv, FrozenInv, SleepPcs, Tasks, ReapplyTable
  <2> QED
    BY <1>t, <1>i, <1>c, <2>1, <1>25 DEF TypeOK, LockInv, ReapplyTable, Return, Advance, Unclean
<1>26. CASE ReapplyMode
  BY <1>t, <1>i, <1>c, <1>26 DEF TypeOK, LockInv, ReapplyMode
<1>27. CASE ReapplyModeFails
  BY <1>t, <1>i, <1>c, <1>27 DEF TypeOK, LockInv, ReapplyModeFails, Unclean
<1>28. CASE Thaw
  BY <1>t, <1>i, <1>c, <1>28 DEF TypeOK, LockInv, Thaw, NotAsleep
<1>29. ASSUME NEW how \in Sleeps, FallAsleep(how) PROVE LockInv'
  BY <1>t, <1>i, <1>c, <1>29 DEF TypeOK, LockInv, FallAsleep
<1>30. CASE UNCHANGED vars
  BY <1>t, <1>i, <1>c, <1>30 DEF TypeOK, LockInv, vars, taskVars
<1> QED
  BY <1>1, <1>2, <1>3, <1>4, <1>5, <1>6, <1>7, <1>8, <1>9, <1>10, <1>11, <1>12, <1>13, <1>14, <1>15, <1>16, <1>17, <1>18, <1>19, <1>20, <1>21, <1>22, <1>23, <1>24, <1>25, <1>26, <1>27, <1>28, <1>29, <1>30
     DEF Next, Environment, DriverStep, UserStep

\* The loops of curves_save and curves_load: what they passed stays alike in the
\* EC and in the driver, and only a complete snapshot is marked as one.
LEMMA LoopStep ==
  ASSUME IInv, [Next]_vars
  PROVE  LoopInv'
<1>t. Driver \in Tasks /\ Driver \notin Users /\ Free \notin Tasks /\ \A u \in Users : u \in Tasks
  BY TasksAssumption DEF Tasks
<1>i. TypeOK /\ LockInv /\ LoopInv
  BY DEF IInv
<1>n. NTables \in Nat \ {0} /\ NFan \in 1 .. NTables /\ Tables = 1 .. NTables
  BY SizesAssumption DEF Tables
<1>c. Loops = {"load", "saving", "restoring", "keeping", "reapplying"}
  BY DEF Loops
<1> USE DEF ecVars, dataVars, pmVars, GoTo
<1>1. ASSUME NEW u \in Users, NEW r \in Requests, Open(u, r) PROVE LoopInv'
  BY <1>t, <1>i, <1>n, <1>c, CurvesAssumption, <1>1 DEF TypeOK, LockInv, LoopInv, Critical, Open
<1>2. ASSUME NEW u \in Users, Lock(u) PROVE LoopInv'
  BY <1>t, <1>i, <1>n, <1>c, CurvesAssumption, <1>2 DEF TypeOK, LockInv, LoopInv, Critical, Lock, Acquire
<1>3. ASSUME NEW u \in Users, ReadTable(u) PROVE LoopInv'
  BY <1>t, <1>i, <1>n, <1>c, CurvesAssumption, <1>3 DEF TypeOK, LockInv, LoopInv, Critical, ReadTable
<1>4. ASSUME NEW u \in Users, WriteTable(u) PROVE LoopInv'
  BY <1>t, <1>i, <1>n, <1>c, CurvesAssumption, <1>4 DEF TypeOK, LockInv, LoopInv, Critical, WriteTable, Return
<1>5. ASSUME NEW u \in Users, ReadMode(u) PROVE LoopInv'
  BY <1>t, <1>i, <1>n, <1>c, CurvesAssumption, <1>5 DEF TypeOK, LockInv, LoopInv, Critical, ReadMode, Return
<1>6. ASSUME NEW u \in Users, WriteMode(u) PROVE LoopInv'
  BY <1>t, <1>i, <1>n, <1>c, CurvesAssumption, <1>6 DEF TypeOK, LockInv, LoopInv, Critical, WriteMode, Return
<1>7. ASSUME NEW u \in Users, LoadFactory(u) PROVE LoopInv'
  BY <1>t, <1>i, <1>n, <1>c, CurvesAssumption, <1>7 DEF TypeOK, LockInv, LoopInv, Critical, LoadFactory, LoadTable, Return, Advance
<1>8. ASSUME NEW u \in Users, WriteFails(u) PROVE LoopInv'
  BY <1>t, <1>i, <1>n, <1>c, CurvesAssumption, <1>8 DEF TypeOK, LockInv, LoopInv, Critical, WriteFails, ReadFails, StoreFails, ModeFails, LoadFails, CallFails, Return
<1>9. CASE SetupLock
  <2>1. idx[Driver] = 1 /\ idx' = idx
    BY <1>t, <1>i, <1>c, <1>9 DEF LoopInv, SetupLock, Acquire
  <2> QED
    BY <1>t, <1>i, <1>n, <1>c, <2>1, <1>9 DEF TypeOK, LoopInv, SetupLock, Acquire
<1>10. CASE RemoveLock
  BY <1>t, <1>i, <1>n, <1>c, CurvesAssumption, <1>10 DEF TypeOK, LockInv, LoopInv, Critical, RemoveLock, Acquire
<1>11. CASE Probe
  BY <1>t, <1>i, <1>n, <1>c, CurvesAssumption, <1>11 DEF TypeOK, LockInv, LoopInv, Critical, Probe
<1>12. CASE SaveTable
  <2>1. \A t \in Tables : t <= idx[Driver] => factory'[t] = tables'[t]
    BY <1>t, <1>i, <1>n, <1>12 DEF TypeOK, LoopInv, SaveTable
  <2>2. CASE idx[Driver] < NTables
    <3>1. /\ idx' = [idx EXCEPT ![Driver] = idx[Driver] + 1] /\ pc' = pc /\ saved' = saved
          /\ pc[Driver] = "saving"
      BY <2>2, <1>12 DEF SaveTable, Advance
    <3>2. \A t \in Tasks : pc'[t] \notin Loops => idx'[t] = 1
      BY <1>t, <1>i, <1>c, <3>1 DEF TypeOK, LoopInv
    <3>3. \A t \in Tables : t < idx'[Driver] => factory'[t] = tables'[t]
      BY <1>t, <1>i, <1>n, <2>1, <3>1 DEF TypeOK
    <3>4. saved' => factory' \in [Tables -> Curves]
      BY <1>t, <1>i, <3>1, <1>12 DEF TypeOK, LoopInv, SaveTable
    <3>5. ~saved'
      BY <1>i, <3>1 DEF LoopInv
    <3> QED
      BY <3>1, <3>2, <3>3, <3>4, <3>5 DEF LoopInv
  <2>3. CASE ~(idx[Driver] < NTables)
    <3>1. /\ idx' = [idx EXCEPT ![Driver] = 1] /\ pc' = [pc EXCEPT ![Driver] = "bound"]
      BY <2>3, <1>12 DEF SaveTable, Return
    <3>2. \A t \in Tables : factory'[t] = tables[t]
      BY <1>t, <1>i, <1>n, <2>1, <2>3, <1>12 DEF TypeOK, SaveTable
    <3>3. factory' \in [Tables -> Curves]
      BY <1>t, <1>i, <3>2, <1>12 DEF TypeOK, SaveTable
    <3> QED
      BY <1>t, <1>i, <1>c, <3>1, <3>3 DEF TypeOK, LoopInv
  <2> QED
    BY <2>2, <2>3
<1>13. CASE SaveFails
  BY <1>t, <1>i, <1>n, <1>c, CurvesAssumption, <1>13 DEF TypeOK, LockInv, LoopInv, Critical, SaveFails, Return
<1>14. CASE Remove
  BY <1>t, <1>i, <1>n, <1>c, CurvesAssumption, <1>14 DEF TypeOK, LockInv, LoopInv, Critical, Remove
<1>15. CASE RestoreFactory
  BY <1>t, <1>i, <1>n, <1>c, CurvesAssumption, <1>15 DEF TypeOK, LockInv, LoopInv, Critical, RestoreFactory, LoadTable, Return, Advance
<1>16. CASE RestoreFails
  BY <1>t, <1>i, <1>n, <1>c, CurvesAssumption, <1>16 DEF TypeOK, LockInv, LoopInv, Critical, RestoreFails, LoadFails, CallFails, Return
<1>17. CASE Hide
  BY <1>t, <1>i, <1>n, <1>c, CurvesAssumption, <1>17 DEF TypeOK, LockInv, LoopInv, Critical, Hide
<1>18. CASE Drain
  BY <1>t, <1>i, <1>n, <1>c, CurvesAssumption, <1>18 DEF TypeOK, LockInv, LoopInv, Critical, Drain
<1>19. CASE SuspendMode
  BY <1>t, <1>i, <1>n, <1>c, CurvesAssumption, <1>19 DEF TypeOK, LockInv, LoopInv, Critical, SuspendMode, Unclean
<1>20. CASE KeepTable
  BY <1>t, <1>i, <1>n, <1>c, CurvesAssumption, <1>20 DEF TypeOK, LockInv, LoopInv, Critical, KeepTable, Return, Advance
<1>21. CASE KeepFails
  BY <1>t, <1>i, <1>n, <1>c, CurvesAssumption, <1>21 DEF TypeOK, LockInv, LoopInv, Critical, KeepFails, Return, Unclean
<1>22. CASE PowerOff
  BY <1>t, <1>i, <1>n, <1>c, CurvesAssumption, <1>22 DEF TypeOK, LockInv, LoopInv, Critical, PowerOff
<1>23. CASE WakeWithoutFirmware
  BY <1>t, <1>i, <1>n, <1>c, CurvesAssumption, <1>23 DEF TypeOK, LockInv, LoopInv, Critical, WakeWithoutFirmware
<1>24. CASE WakeFromFirmware
  BY <1>t, <1>i, <1>n, <1>c, CurvesAssumption, <1>24 DEF TypeOK, LockInv, LoopInv, Critical, WakeFromFirmware, NoImage
<1>25. CASE ReapplyTable
  BY <1>t, <1>i, <1>n, <1>c, CurvesAssumption, <1>25 DEF TypeOK, LockInv, LoopInv, Critical, ReapplyTable, Return, Advance, Unclean
<1>26. CASE ReapplyMode
  BY <1>t, <1>i, <1>n, <1>c, CurvesAssumption, <1>26 DEF TypeOK, LockInv, LoopInv, Critical, ReapplyMode
<1>27. CASE ReapplyModeFails
  BY <1>t, <1>i, <1>n, <1>c, CurvesAssumption, <1>27 DEF TypeOK, LockInv, LoopInv, Critical, ReapplyModeFails, Unclean
<1>28. CASE Thaw
  BY <1>t, <1>i, <1>n, <1>c, CurvesAssumption, <1>28 DEF TypeOK, LockInv, LoopInv, Critical, Thaw, NotAsleep
<1>29. ASSUME NEW how \in Sleeps, FallAsleep(how) PROVE LoopInv'
  BY <1>t, <1>i, <1>n, <1>c, CurvesAssumption, <1>29 DEF TypeOK, LockInv, LoopInv, Critical, FallAsleep
<1>30. CASE UNCHANGED vars
  BY <1>t, <1>i, <1>n, <1>c, CurvesAssumption, <1>30 DEF TypeOK, LockInv, LoopInv, Critical, vars, taskVars
<1> QED
  BY <1>1, <1>2, <1>3, <1>4, <1>5, <1>6, <1>7, <1>8, <1>9, <1>10, <1>11, <1>12, <1>13, <1>14, <1>15, <1>16, <1>17, <1>18, <1>19, <1>20, <1>21, <1>22, <1>23, <1>24, <1>25, <1>26, <1>27, <1>28, <1>29, <1>30
     DEF Next, Environment, DriverStep, UserStep

\* User tasks stay frozen while the driver sleeps.
LEMMA FrozenStep ==
  ASSUME IInv, [Next]_vars
  PROVE  FrozenInv'
<1>t. Driver \in Tasks /\ Driver \notin Users /\ Free \notin Tasks /\ \A u \in Users : u \in Tasks
  BY TasksAssumption DEF Tasks
<1>i. TypeOK /\ LoopInv /\ FrozenInv
  BY DEF IInv
<1>n. NTables \in Nat \ {0} /\ NFan \in 1 .. NTables /\ Tables = 1 .. NTables /\ FanTables = 1 .. NFan
  BY SizesAssumption DEF Tables, FanTables
<1> USE DEF ecVars, dataVars, pmVars, GoTo
<1>1. ASSUME NEW u \in Users, NEW r \in Requests, Open(u, r) PROVE FrozenInv'
  BY <1>t, <1>i, <1>n, RequestsAssumption, <1>1 DEF TypeOK, LoopInv, Loops, FrozenInv, SleepPcs, Open
<1>2. ASSUME NEW u \in Users, Lock(u) PROVE FrozenInv'
  BY <1>t, <1>i, <1>n, RequestsAssumption, <1>2 DEF TypeOK, LoopInv, Loops, FrozenInv, SleepPcs, Lock, Acquire
<1>3. ASSUME NEW u \in Users, ReadTable(u) PROVE FrozenInv'
  BY <1>t, <1>i, <1>n, RequestsAssumption, <1>3 DEF TypeOK, LoopInv, Loops, FrozenInv, SleepPcs, ReadTable
<1>4. ASSUME NEW u \in Users, WriteTable(u) PROVE FrozenInv'
  BY <1>t, <1>i, <1>n, RequestsAssumption, <1>4 DEF TypeOK, LoopInv, Loops, FrozenInv, SleepPcs, WriteTable, Return
<1>5. ASSUME NEW u \in Users, ReadMode(u) PROVE FrozenInv'
  BY <1>t, <1>i, <1>n, RequestsAssumption, <1>5 DEF TypeOK, LoopInv, Loops, FrozenInv, SleepPcs, ReadMode, Return
<1>6. ASSUME NEW u \in Users, WriteMode(u) PROVE FrozenInv'
  BY <1>t, <1>i, <1>n, RequestsAssumption, <1>6 DEF TypeOK, LoopInv, Loops, FrozenInv, SleepPcs, WriteMode, Return
<1>7. ASSUME NEW u \in Users, LoadFactory(u) PROVE FrozenInv'
  BY <1>t, <1>i, <1>n, RequestsAssumption, <1>7 DEF TypeOK, LoopInv, Loops, FrozenInv, SleepPcs, LoadFactory, LoadTable, Return, Advance
<1>8. ASSUME NEW u \in Users, WriteFails(u) PROVE FrozenInv'
  BY <1>t, <1>i, <1>n, RequestsAssumption, <1>8 DEF TypeOK, LoopInv, Loops, FrozenInv, SleepPcs, WriteFails, ReadFails, StoreFails, ModeFails, LoadFails, CallFails, Return
<1>9. CASE SetupLock
  BY <1>t, <1>i, <1>n, RequestsAssumption, <1>9 DEF TypeOK, LoopInv, Loops, FrozenInv, SleepPcs, SetupLock, Acquire
<1>10. CASE RemoveLock
  BY <1>t, <1>i, <1>n, RequestsAssumption, <1>10 DEF TypeOK, LoopInv, Loops, FrozenInv, SleepPcs, RemoveLock, Acquire
<1>11. CASE Probe
  BY <1>t, <1>i, <1>n, RequestsAssumption, <1>11 DEF TypeOK, LoopInv, Loops, FrozenInv, SleepPcs, Probe
<1>12. CASE SaveTable
  BY <1>t, <1>i, <1>n, RequestsAssumption, <1>12 DEF TypeOK, LoopInv, Loops, FrozenInv, SleepPcs, SaveTable, Return, Advance
<1>13. CASE SaveFails
  BY <1>t, <1>i, <1>n, RequestsAssumption, <1>13 DEF TypeOK, LoopInv, Loops, FrozenInv, SleepPcs, SaveFails, Return
<1>14. CASE Remove
  BY <1>t, <1>i, <1>n, RequestsAssumption, <1>14 DEF TypeOK, LoopInv, Loops, FrozenInv, SleepPcs, Remove
<1>15. CASE RestoreFactory
  BY <1>t, <1>i, <1>n, RequestsAssumption, <1>15 DEF TypeOK, LoopInv, Loops, FrozenInv, SleepPcs, RestoreFactory, LoadTable, Return, Advance
<1>16. CASE RestoreFails
  BY <1>t, <1>i, <1>n, RequestsAssumption, <1>16 DEF TypeOK, LoopInv, Loops, FrozenInv, SleepPcs, RestoreFails, LoadFails, CallFails, Return
<1>17. CASE Hide
  BY <1>t, <1>i, <1>n, RequestsAssumption, <1>17 DEF TypeOK, LoopInv, Loops, FrozenInv, SleepPcs, Hide
<1>18. CASE Drain
  BY <1>t, <1>i, <1>n, RequestsAssumption, <1>18 DEF TypeOK, LoopInv, Loops, FrozenInv, SleepPcs, Drain
<1>19. CASE SuspendMode
  <2>0. pc[Driver] \notin Loops /\ idx' = idx
    BY <1>19 DEF SuspendMode, Loops
  <2>1. idx[Driver] = 1 /\ idx' = idx /\ 1 \in FanTables
    BY <1>t, <1>i, <1>n, <2>0 DEF LoopInv
  <2>2. /\ pc[Driver] = "suspending" /\ sleep' = sleep
        /\ \E where \in {"keeping", "asleep"} : pc' = [pc EXCEPT ![Driver] = where]
    BY <1>19 DEF SuspendMode
  <2> QED
    BY <1>t, <1>i, <2>1, <2>2 DEF TypeOK, FrozenInv, SleepPcs
<1>20. CASE KeepTable
  BY <1>t, <1>i, <1>n, RequestsAssumption, <1>20 DEF TypeOK, LoopInv, Loops, FrozenInv, SleepPcs, KeepTable, Return, Advance
<1>21. CASE KeepFails
  BY <1>t, <1>i, <1>n, RequestsAssumption, <1>21 DEF TypeOK, LoopInv, Loops, FrozenInv, SleepPcs, KeepFails, Return, Unclean
<1>22. CASE PowerOff
  BY <1>t, <1>i, <1>n, RequestsAssumption, <1>22 DEF TypeOK, LoopInv, Loops, FrozenInv, SleepPcs, PowerOff
<1>23. CASE WakeWithoutFirmware
  BY <1>t, <1>i, <1>n, RequestsAssumption, <1>23 DEF TypeOK, LoopInv, Loops, FrozenInv, SleepPcs, WakeWithoutFirmware
<1>24. CASE WakeFromFirmware
  <2>0. pc[Driver] \notin Loops /\ idx' = idx
    BY <1>24 DEF WakeFromFirmware, Loops
  <2>1. idx[Driver] = 1 /\ idx' = idx /\ 1 \in FanTables
    BY <1>t, <1>i, <1>n, <2>0 DEF LoopInv
  <2>2. /\ pc[Driver] = "asleep" /\ sleep' = sleep
        /\ \E where \in {"reapplying", "woken"} : pc' = [pc EXCEPT ![Driver] = where]
    BY <1>24 DEF WakeFromFirmware
  <2> QED
    BY <1>t, <1>i, <2>1, <2>2 DEF TypeOK, FrozenInv, SleepPcs
<1>25. CASE ReapplyTable
  BY <1>t, <1>i, <1>n, RequestsAssumption, <1>25 DEF TypeOK, LoopInv, Loops, FrozenInv, SleepPcs, ReapplyTable, Return, Advance, Unclean
<1>26. CASE ReapplyMode
  BY <1>t, <1>i, <1>n, RequestsAssumption, <1>26 DEF TypeOK, LoopInv, Loops, FrozenInv, SleepPcs, ReapplyMode
<1>27. CASE ReapplyModeFails
  BY <1>t, <1>i, <1>n, RequestsAssumption, <1>27 DEF TypeOK, LoopInv, Loops, FrozenInv, SleepPcs, ReapplyModeFails, Unclean
<1>28. CASE Thaw
  BY <1>t, <1>i, <1>n, RequestsAssumption, <1>28 DEF TypeOK, LoopInv, Loops, FrozenInv, SleepPcs, Thaw, NotAsleep
<1>29. ASSUME NEW how \in Sleeps, FallAsleep(how) PROVE FrozenInv'
  BY <1>t, <1>i, <1>n, RequestsAssumption, <1>29 DEF TypeOK, LoopInv, Loops, FrozenInv, SleepPcs, FallAsleep
<1>30. CASE UNCHANGED vars
  BY <1>t, <1>i, <1>n, RequestsAssumption, <1>30 DEF TypeOK, LoopInv, Loops, FrozenInv, SleepPcs, vars, taskVars
<1> QED
  BY <1>1, <1>2, <1>3, <1>4, <1>5, <1>6, <1>7, <1>8, <1>9, <1>10, <1>11, <1>12, <1>13, <1>14, <1>15, <1>16, <1>17, <1>18, <1>19, <1>20, <1>21, <1>22, <1>23, <1>24, <1>25, <1>26, <1>27, <1>28, <1>29, <1>30
     DEF Next, Environment, DriverStep, UserStep

\* No store writes back a table that changed since it was read.
LEMMA StoreStep ==
  ASSUME IInv, [Next]_vars
  PROVE  StoreSeesCurrentTable'
<1>t. Driver \in Tasks /\ Driver \notin Users /\ Free \notin Tasks /\ \A u \in Users : u \in Tasks
  BY TasksAssumption DEF Tasks
<1>i. TypeOK /\ LockInv /\ FrozenInv /\ StoreSeesCurrentTable
  BY DEF IInv
<1> USE DEF ecVars, dataVars, pmVars, GoTo
<1>1. ASSUME NEW u \in Users, NEW r \in Requests, Open(u, r) PROVE StoreSeesCurrentTable'
  BY <1>t, <1>i, <1>1 DEF TypeOK, LockInv, Critical, FrozenInv, SleepPcs, StoreSeesCurrentTable, Open
<1>2. ASSUME NEW u \in Users, Lock(u) PROVE StoreSeesCurrentTable'
  BY <1>t, <1>i, <1>2 DEF TypeOK, LockInv, Critical, FrozenInv, SleepPcs, StoreSeesCurrentTable, Lock, Acquire
<1>3. ASSUME NEW u \in Users, ReadTable(u) PROVE StoreSeesCurrentTable'
  BY <1>t, <1>i, <1>3 DEF TypeOK, LockInv, Critical, FrozenInv, SleepPcs, StoreSeesCurrentTable, ReadTable
<1>4. ASSUME NEW u \in Users, WriteTable(u) PROVE StoreSeesCurrentTable'
  BY <1>t, <1>i, <1>4 DEF TypeOK, LockInv, Critical, FrozenInv, SleepPcs, StoreSeesCurrentTable, WriteTable, Return
<1>5. ASSUME NEW u \in Users, ReadMode(u) PROVE StoreSeesCurrentTable'
  BY <1>t, <1>i, <1>5 DEF TypeOK, LockInv, Critical, FrozenInv, SleepPcs, StoreSeesCurrentTable, ReadMode, Return
<1>6. ASSUME NEW u \in Users, WriteMode(u) PROVE StoreSeesCurrentTable'
  BY <1>t, <1>i, <1>6 DEF TypeOK, LockInv, Critical, FrozenInv, SleepPcs, StoreSeesCurrentTable, WriteMode, Return
<1>7. ASSUME NEW u \in Users, LoadFactory(u) PROVE StoreSeesCurrentTable'
  BY <1>t, <1>i, <1>7 DEF TypeOK, LockInv, Critical, FrozenInv, SleepPcs, StoreSeesCurrentTable, LoadFactory, LoadTable, Return, Advance
<1>8. ASSUME NEW u \in Users, WriteFails(u) PROVE StoreSeesCurrentTable'
  BY <1>t, <1>i, <1>8 DEF TypeOK, LockInv, Critical, FrozenInv, SleepPcs, StoreSeesCurrentTable, WriteFails, ReadFails, StoreFails, ModeFails, LoadFails, CallFails, Return
<1>9. CASE SetupLock
  BY <1>t, <1>i, <1>9 DEF TypeOK, LockInv, Critical, FrozenInv, SleepPcs, StoreSeesCurrentTable, SetupLock, Acquire
<1>10. CASE RemoveLock
  BY <1>t, <1>i, <1>10 DEF TypeOK, LockInv, Critical, FrozenInv, SleepPcs, StoreSeesCurrentTable, RemoveLock, Acquire
<1>11. CASE Probe
  BY <1>t, <1>i, <1>11 DEF TypeOK, LockInv, Critical, FrozenInv, SleepPcs, StoreSeesCurrentTable, Probe
<1>12. CASE SaveTable
  BY <1>t, <1>i, <1>12 DEF TypeOK, LockInv, Critical, FrozenInv, SleepPcs, StoreSeesCurrentTable, SaveTable, Return, Advance
<1>13. CASE SaveFails
  BY <1>t, <1>i, <1>13 DEF TypeOK, LockInv, Critical, FrozenInv, SleepPcs, StoreSeesCurrentTable, SaveFails, Return
<1>14. CASE Remove
  BY <1>t, <1>i, <1>14 DEF TypeOK, LockInv, Critical, FrozenInv, SleepPcs, StoreSeesCurrentTable, Remove
<1>15. CASE RestoreFactory
  BY <1>t, <1>i, <1>15 DEF TypeOK, LockInv, Critical, FrozenInv, SleepPcs, StoreSeesCurrentTable, RestoreFactory, LoadTable, Return, Advance
<1>16. CASE RestoreFails
  BY <1>t, <1>i, <1>16 DEF TypeOK, LockInv, Critical, FrozenInv, SleepPcs, StoreSeesCurrentTable, RestoreFails, LoadFails, CallFails, Return
<1>17. CASE Hide
  BY <1>t, <1>i, <1>17 DEF TypeOK, LockInv, Critical, FrozenInv, SleepPcs, StoreSeesCurrentTable, Hide
<1>18. CASE Drain
  BY <1>t, <1>i, <1>18 DEF TypeOK, LockInv, Critical, FrozenInv, SleepPcs, StoreSeesCurrentTable, Drain
<1>19. CASE SuspendMode
  BY <1>t, <1>i, <1>19 DEF TypeOK, LockInv, Critical, FrozenInv, SleepPcs, StoreSeesCurrentTable, SuspendMode, Unclean
<1>20. CASE KeepTable
  BY <1>t, <1>i, <1>20 DEF TypeOK, LockInv, Critical, FrozenInv, SleepPcs, StoreSeesCurrentTable, KeepTable, Return, Advance
<1>21. CASE KeepFails
  BY <1>t, <1>i, <1>21 DEF TypeOK, LockInv, Critical, FrozenInv, SleepPcs, StoreSeesCurrentTable, KeepFails, Return, Unclean
<1>22. CASE PowerOff
  BY <1>t, <1>i, <1>22 DEF TypeOK, LockInv, Critical, FrozenInv, SleepPcs, StoreSeesCurrentTable, PowerOff
<1>23. CASE WakeWithoutFirmware
  BY <1>t, <1>i, <1>23 DEF TypeOK, LockInv, Critical, FrozenInv, SleepPcs, StoreSeesCurrentTable, WakeWithoutFirmware
<1>24. CASE WakeFromFirmware
  BY <1>t, <1>i, <1>24 DEF TypeOK, LockInv, Critical, FrozenInv, SleepPcs, StoreSeesCurrentTable, WakeFromFirmware, NoImage
<1>25. CASE ReapplyTable
  BY <1>t, <1>i, <1>25 DEF TypeOK, LockInv, Critical, FrozenInv, SleepPcs, StoreSeesCurrentTable, ReapplyTable, Return, Advance, Unclean
<1>26. CASE ReapplyMode
  BY <1>t, <1>i, <1>26 DEF TypeOK, LockInv, Critical, FrozenInv, SleepPcs, StoreSeesCurrentTable, ReapplyMode
<1>27. CASE ReapplyModeFails
  BY <1>t, <1>i, <1>27 DEF TypeOK, LockInv, Critical, FrozenInv, SleepPcs, StoreSeesCurrentTable, ReapplyModeFails, Unclean
<1>28. CASE Thaw
  BY <1>t, <1>i, <1>28 DEF TypeOK, LockInv, Critical, FrozenInv, SleepPcs, StoreSeesCurrentTable, Thaw, NotAsleep
<1>29. ASSUME NEW how \in Sleeps, FallAsleep(how) PROVE StoreSeesCurrentTable'
  BY <1>t, <1>i, <1>29 DEF TypeOK, LockInv, Critical, FrozenInv, SleepPcs, StoreSeesCurrentTable, FallAsleep
<1>30. CASE UNCHANGED vars
  BY <1>t, <1>i, <1>30 DEF TypeOK, LockInv, Critical, FrozenInv, SleepPcs, StoreSeesCurrentTable, vars, taskVars
<1> QED
  BY <1>1, <1>2, <1>3, <1>4, <1>5, <1>6, <1>7, <1>8, <1>9, <1>10, <1>11, <1>12, <1>13, <1>14, <1>15, <1>16, <1>17, <1>18, <1>19, <1>20, <1>21, <1>22, <1>23, <1>24, <1>25, <1>26, <1>27, <1>28, <1>29, <1>30
     DEF Next, Environment, DriverStep, UserStep

\* The EC stays in automatic mode while a write of 2 restores the tables.
LEMMA HalfStep ==
  ASSUME IInv, [Next]_vars
  PROVE  HalfRestoredOnlyInAuto'
<1>t. Driver \in Tasks /\ Driver \notin Users /\ Free \notin Tasks /\ \A u \in Users : u \in Tasks
  BY TasksAssumption DEF Tasks
<1>i. TypeOK /\ LockInv /\ FrozenInv /\ HalfRestoredOnlyInAuto
  BY DEF IInv
<1> USE DEF ecVars, dataVars, pmVars, GoTo
<1>1. ASSUME NEW u \in Users, NEW r \in Requests, Open(u, r) PROVE HalfRestoredOnlyInAuto'
  BY <1>t, <1>i, <1>1 DEF TypeOK, LockInv, Critical, FrozenInv, SleepPcs, HalfRestoredOnlyInAuto, Open
<1>2. ASSUME NEW u \in Users, Lock(u) PROVE HalfRestoredOnlyInAuto'
  BY <1>t, <1>i, <1>2 DEF TypeOK, LockInv, Critical, FrozenInv, SleepPcs, HalfRestoredOnlyInAuto, Lock, Acquire
<1>3. ASSUME NEW u \in Users, ReadTable(u) PROVE HalfRestoredOnlyInAuto'
  BY <1>t, <1>i, <1>3 DEF TypeOK, LockInv, Critical, FrozenInv, SleepPcs, HalfRestoredOnlyInAuto, ReadTable
<1>4. ASSUME NEW u \in Users, WriteTable(u) PROVE HalfRestoredOnlyInAuto'
  BY <1>t, <1>i, <1>4 DEF TypeOK, LockInv, Critical, FrozenInv, SleepPcs, HalfRestoredOnlyInAuto, WriteTable, Return
<1>5. ASSUME NEW u \in Users, ReadMode(u) PROVE HalfRestoredOnlyInAuto'
  BY <1>t, <1>i, <1>5 DEF TypeOK, LockInv, Critical, FrozenInv, SleepPcs, HalfRestoredOnlyInAuto, ReadMode, Return
<1>6. ASSUME NEW u \in Users, WriteMode(u) PROVE HalfRestoredOnlyInAuto'
  <2>1. CASE req[u].val = 2
    <3>1. req[u].val # 1
      BY <2>1
    <3>2. manual' = (req[u].val = 1)
      BY <1>6 DEF WriteMode
    <3>3. ~manual'
      BY <3>1, <3>2
    <3> QED
      BY <3>3 DEF HalfRestoredOnlyInAuto
  <2>2. CASE req[u].val # 2
    <3>1. pc' = [pc EXCEPT ![u] = "idle"] /\ lock = u
      BY <1>t, <1>i, <2>2, <1>6 DEF WriteMode, Return, LockInv, Critical
    <3> QED
      BY <1>t, <1>i, <3>1 DEF TypeOK, LockInv, Critical, HalfRestoredOnlyInAuto
  <2> QED
    BY <2>1, <2>2
<1>7. ASSUME NEW u \in Users, LoadFactory(u) PROVE HalfRestoredOnlyInAuto'
  BY <1>t, <1>i, <1>7 DEF TypeOK, LockInv, Critical, FrozenInv, SleepPcs, HalfRestoredOnlyInAuto, LoadFactory, LoadTable, Return, Advance
<1>8. ASSUME NEW u \in Users, WriteFails(u) PROVE HalfRestoredOnlyInAuto'
  BY <1>t, <1>i, <1>8 DEF TypeOK, LockInv, Critical, FrozenInv, SleepPcs, HalfRestoredOnlyInAuto, WriteFails, ReadFails, StoreFails, ModeFails, LoadFails, CallFails, Return
<1>9. CASE SetupLock
  BY <1>t, <1>i, <1>9 DEF TypeOK, LockInv, Critical, FrozenInv, SleepPcs, HalfRestoredOnlyInAuto, SetupLock, Acquire
<1>10. CASE RemoveLock
  BY <1>t, <1>i, <1>10 DEF TypeOK, LockInv, Critical, FrozenInv, SleepPcs, HalfRestoredOnlyInAuto, RemoveLock, Acquire
<1>11. CASE Probe
  BY <1>t, <1>i, <1>11 DEF TypeOK, LockInv, Critical, FrozenInv, SleepPcs, HalfRestoredOnlyInAuto, Probe
<1>12. CASE SaveTable
  BY <1>t, <1>i, <1>12 DEF TypeOK, LockInv, Critical, FrozenInv, SleepPcs, HalfRestoredOnlyInAuto, SaveTable, Return, Advance
<1>13. CASE SaveFails
  BY <1>t, <1>i, <1>13 DEF TypeOK, LockInv, Critical, FrozenInv, SleepPcs, HalfRestoredOnlyInAuto, SaveFails, Return
<1>14. CASE Remove
  BY <1>t, <1>i, <1>14 DEF TypeOK, LockInv, Critical, FrozenInv, SleepPcs, HalfRestoredOnlyInAuto, Remove
<1>15. CASE RestoreFactory
  BY <1>t, <1>i, <1>15 DEF TypeOK, LockInv, Critical, FrozenInv, SleepPcs, HalfRestoredOnlyInAuto, RestoreFactory, LoadTable, Return, Advance
<1>16. CASE RestoreFails
  BY <1>t, <1>i, <1>16 DEF TypeOK, LockInv, Critical, FrozenInv, SleepPcs, HalfRestoredOnlyInAuto, RestoreFails, LoadFails, CallFails, Return
<1>17. CASE Hide
  BY <1>t, <1>i, <1>17 DEF TypeOK, LockInv, Critical, FrozenInv, SleepPcs, HalfRestoredOnlyInAuto, Hide
<1>18. CASE Drain
  BY <1>t, <1>i, <1>18 DEF TypeOK, LockInv, Critical, FrozenInv, SleepPcs, HalfRestoredOnlyInAuto, Drain
<1>19. CASE SuspendMode
  BY <1>t, <1>i, <1>19 DEF TypeOK, LockInv, Critical, FrozenInv, SleepPcs, HalfRestoredOnlyInAuto, SuspendMode, Unclean
<1>20. CASE KeepTable
  BY <1>t, <1>i, <1>20 DEF TypeOK, LockInv, Critical, FrozenInv, SleepPcs, HalfRestoredOnlyInAuto, KeepTable, Return, Advance
<1>21. CASE KeepFails
  BY <1>t, <1>i, <1>21 DEF TypeOK, LockInv, Critical, FrozenInv, SleepPcs, HalfRestoredOnlyInAuto, KeepFails, Return, Unclean
<1>22. CASE PowerOff
  BY <1>t, <1>i, <1>22 DEF TypeOK, LockInv, Critical, FrozenInv, SleepPcs, HalfRestoredOnlyInAuto, PowerOff
<1>23. CASE WakeWithoutFirmware
  BY <1>t, <1>i, <1>23 DEF TypeOK, LockInv, Critical, FrozenInv, SleepPcs, HalfRestoredOnlyInAuto, WakeWithoutFirmware
<1>24. CASE WakeFromFirmware
  BY <1>t, <1>i, <1>24 DEF TypeOK, LockInv, Critical, FrozenInv, SleepPcs, HalfRestoredOnlyInAuto, WakeFromFirmware, NoImage
<1>25. CASE ReapplyTable
  BY <1>t, <1>i, <1>25 DEF TypeOK, LockInv, Critical, FrozenInv, SleepPcs, HalfRestoredOnlyInAuto, ReapplyTable, Return, Advance, Unclean
<1>26. CASE ReapplyMode
  BY <1>t, <1>i, <1>26 DEF TypeOK, LockInv, Critical, FrozenInv, SleepPcs, HalfRestoredOnlyInAuto, ReapplyMode
<1>27. CASE ReapplyModeFails
  BY <1>t, <1>i, <1>27 DEF TypeOK, LockInv, Critical, FrozenInv, SleepPcs, HalfRestoredOnlyInAuto, ReapplyModeFails, Unclean
<1>28. CASE Thaw
  BY <1>t, <1>i, <1>28 DEF TypeOK, LockInv, Critical, FrozenInv, SleepPcs, HalfRestoredOnlyInAuto, Thaw, NotAsleep
<1>29. ASSUME NEW how \in Sleeps, FallAsleep(how) PROVE HalfRestoredOnlyInAuto'
  BY <1>t, <1>i, <1>29 DEF TypeOK, LockInv, Critical, FrozenInv, SleepPcs, HalfRestoredOnlyInAuto, FallAsleep
<1>30. CASE UNCHANGED vars
  BY <1>t, <1>i, <1>30 DEF TypeOK, LockInv, Critical, FrozenInv, SleepPcs, HalfRestoredOnlyInAuto, vars, taskVars
<1> QED
  BY <1>1, <1>2, <1>3, <1>4, <1>5, <1>6, <1>7, <1>8, <1>9, <1>10, <1>11, <1>12, <1>13, <1>14, <1>15, <1>16, <1>17, <1>18, <1>19, <1>20, <1>21, <1>22, <1>23, <1>24, <1>25, <1>26, <1>27, <1>28, <1>29, <1>30
     DEF Next, Environment, DriverStep, UserStep

\* What remove() restored so far stays so, and comes from a complete snapshot.
LEMMA UnloadStep ==
  ASSUME IInv, [Next]_vars
  PROVE  UnloadRestoresSnapshot'
<1>t. Driver \in Tasks /\ Driver \notin Users /\ Free \notin Tasks /\ \A u \in Users : u \in Tasks
  BY TasksAssumption DEF Tasks
<1>n. NTables \in Nat \ {0} /\ NFan \in 1 .. NTables /\ Tables = 1 .. NTables /\ FanTables = 1 .. NFan
  BY SizesAssumption DEF Tables, FanTables
<1>i. TypeOK /\ LockInv /\ LoopInv /\ FrozenInv /\ UnloadRestoresSnapshot
  BY DEF IInv
<1> USE DEF ecVars, dataVars, pmVars, GoTo
<1>1. ASSUME NEW u \in Users, NEW r \in Requests, Open(u, r) PROVE UnloadRestoresSnapshot'
  BY <1>t, <1>i, <1>n, CurvesAssumption, <1>1 DEF TypeOK, LockInv, LoopInv, Loops, Critical, UnloadRestoresSnapshot, Open
<1>2. ASSUME NEW u \in Users, Lock(u) PROVE UnloadRestoresSnapshot'
  BY <1>t, <1>i, <1>n, CurvesAssumption, <1>2 DEF TypeOK, LockInv, LoopInv, Loops, Critical, UnloadRestoresSnapshot, Lock, Acquire
<1>3. ASSUME NEW u \in Users, ReadTable(u) PROVE UnloadRestoresSnapshot'
  BY <1>t, <1>i, <1>n, CurvesAssumption, <1>3 DEF TypeOK, LockInv, LoopInv, Loops, Critical, UnloadRestoresSnapshot, ReadTable
<1>4. ASSUME NEW u \in Users, WriteTable(u) PROVE UnloadRestoresSnapshot'
  BY <1>t, <1>i, <1>n, CurvesAssumption, <1>4 DEF TypeOK, LockInv, LoopInv, Loops, Critical, UnloadRestoresSnapshot, WriteTable, Return
<1>5. ASSUME NEW u \in Users, ReadMode(u) PROVE UnloadRestoresSnapshot'
  BY <1>t, <1>i, <1>n, CurvesAssumption, <1>5 DEF TypeOK, LockInv, LoopInv, Loops, Critical, UnloadRestoresSnapshot, ReadMode, Return
<1>6. ASSUME NEW u \in Users, WriteMode(u) PROVE UnloadRestoresSnapshot'
  BY <1>t, <1>i, <1>n, CurvesAssumption, <1>6 DEF TypeOK, LockInv, LoopInv, Loops, Critical, UnloadRestoresSnapshot, WriteMode, Return
<1>7. ASSUME NEW u \in Users, LoadFactory(u) PROVE UnloadRestoresSnapshot'
  BY <1>t, <1>i, <1>n, CurvesAssumption, <1>7 DEF TypeOK, LockInv, LoopInv, Loops, Critical, UnloadRestoresSnapshot, LoadFactory, LoadTable, Return, Advance
<1>8. ASSUME NEW u \in Users, WriteFails(u) PROVE UnloadRestoresSnapshot'
  BY <1>t, <1>i, <1>n, CurvesAssumption, <1>8 DEF TypeOK, LockInv, LoopInv, Loops, Critical, UnloadRestoresSnapshot, WriteFails, ReadFails, StoreFails, ModeFails, LoadFails, CallFails, Return
<1>9. CASE SetupLock
  BY <1>t, <1>i, <1>n, CurvesAssumption, <1>9 DEF TypeOK, LockInv, LoopInv, Loops, Critical, UnloadRestoresSnapshot, SetupLock, Acquire
<1>10. CASE RemoveLock
  <2>1. pc[Driver] \notin Loops /\ idx' = idx /\ saved' = saved
    BY <1>10 DEF RemoveLock, Acquire, Loops
  <2>2. pc[Driver] = "remove"
    BY <1>10 DEF RemoveLock, Acquire
  <2>3. idx'[Driver] = 1
    BY <1>t, <1>i, <2>1 DEF LoopInv
  <2> QED
    BY <1>n, <1>i, <2>1, <2>2, <2>3 DEF LoopInv, UnloadRestoresSnapshot
<1>11. CASE Probe
  BY <1>t, <1>i, <1>n, CurvesAssumption, <1>11 DEF TypeOK, LockInv, LoopInv, Loops, Critical, UnloadRestoresSnapshot, Probe
<1>12. CASE SaveTable
  BY <1>t, <1>i, <1>n, CurvesAssumption, <1>12 DEF TypeOK, LockInv, LoopInv, Loops, Critical, UnloadRestoresSnapshot, SaveTable, Return, Advance
<1>13. CASE SaveFails
  BY <1>t, <1>i, <1>n, CurvesAssumption, <1>13 DEF TypeOK, LockInv, LoopInv, Loops, Critical, UnloadRestoresSnapshot, SaveFails, Return
<1>14. CASE Remove
  BY <1>t, <1>i, <1>n, CurvesAssumption, <1>14 DEF TypeOK, LockInv, LoopInv, Loops, Critical, UnloadRestoresSnapshot, Remove
<1>15. CASE RestoreFactory
  BY <1>t, <1>i, <1>n, CurvesAssumption, <1>15 DEF TypeOK, LockInv, LoopInv, Loops, Critical, UnloadRestoresSnapshot, RestoreFactory, LoadTable, Loaded, Return, Advance
<1>16. CASE RestoreFails
  BY <1>t, <1>i, <1>n, CurvesAssumption, <1>16 DEF TypeOK, LockInv, LoopInv, Loops, Critical, UnloadRestoresSnapshot, RestoreFails, LoadFails, CallFails, Return
<1>17. CASE Hide
  BY <1>t, <1>i, <1>n, CurvesAssumption, <1>17 DEF TypeOK, LockInv, LoopInv, Loops, Critical, UnloadRestoresSnapshot, Hide
<1>18. CASE Drain
  BY <1>t, <1>i, <1>n, CurvesAssumption, <1>18 DEF TypeOK, LockInv, LoopInv, Loops, Critical, UnloadRestoresSnapshot, Drain
<1>19. CASE SuspendMode
  BY <1>t, <1>i, <1>n, CurvesAssumption, <1>19 DEF TypeOK, LockInv, LoopInv, Loops, Critical, UnloadRestoresSnapshot, SuspendMode, Unclean
<1>20. CASE KeepTable
  BY <1>t, <1>i, <1>n, CurvesAssumption, <1>20 DEF TypeOK, LockInv, LoopInv, Loops, Critical, UnloadRestoresSnapshot, KeepTable, Return, Advance
<1>21. CASE KeepFails
  BY <1>t, <1>i, <1>n, CurvesAssumption, <1>21 DEF TypeOK, LockInv, LoopInv, Loops, Critical, UnloadRestoresSnapshot, KeepFails, Return, Unclean
<1>22. CASE PowerOff
  BY <1>t, <1>i, <1>n, CurvesAssumption, <1>22 DEF TypeOK, LockInv, LoopInv, Loops, Critical, UnloadRestoresSnapshot, PowerOff
<1>23. CASE WakeWithoutFirmware
  BY <1>t, <1>i, <1>n, CurvesAssumption, <1>23 DEF TypeOK, LockInv, LoopInv, Loops, Critical, UnloadRestoresSnapshot, WakeWithoutFirmware
<1>24. CASE WakeFromFirmware
  BY <1>t, <1>i, <1>n, CurvesAssumption, <1>24 DEF TypeOK, LockInv, LoopInv, Loops, Critical, UnloadRestoresSnapshot, WakeFromFirmware, NoImage
<1>25. CASE ReapplyTable
  BY <1>t, <1>i, <1>n, CurvesAssumption, <1>25 DEF TypeOK, LockInv, LoopInv, Loops, Critical, UnloadRestoresSnapshot, ReapplyTable, Return, Advance, Unclean
<1>26. CASE ReapplyMode
  BY <1>t, <1>i, <1>n, CurvesAssumption, <1>26 DEF TypeOK, LockInv, LoopInv, Loops, Critical, UnloadRestoresSnapshot, ReapplyMode
<1>27. CASE ReapplyModeFails
  BY <1>t, <1>i, <1>n, CurvesAssumption, <1>27 DEF TypeOK, LockInv, LoopInv, Loops, Critical, UnloadRestoresSnapshot, ReapplyModeFails, Unclean
<1>28. CASE Thaw
  BY <1>t, <1>i, <1>n, CurvesAssumption, <1>28 DEF TypeOK, LockInv, LoopInv, Loops, Critical, UnloadRestoresSnapshot, Thaw, NotAsleep
<1>29. ASSUME NEW how \in Sleeps, FallAsleep(how) PROVE UnloadRestoresSnapshot'
  BY <1>t, <1>i, <1>n, CurvesAssumption, <1>29 DEF TypeOK, LockInv, LoopInv, Loops, Critical, UnloadRestoresSnapshot, FallAsleep
<1>30. CASE UNCHANGED vars
  BY <1>t, <1>i, <1>n, CurvesAssumption, <1>30 DEF TypeOK, LockInv, LoopInv, Loops, Critical, UnloadRestoresSnapshot, vars, taskVars
<1> QED
  BY <1>1, <1>2, <1>3, <1>4, <1>5, <1>6, <1>7, <1>8, <1>9, <1>10, <1>11, <1>12, <1>13, <1>14, <1>15, <1>16, <1>17, <1>18, <1>19, <1>20, <1>21, <1>22, <1>23, <1>24, <1>25, <1>26, <1>27, <1>28, <1>29, <1>30
     DEF Next, Environment, DriverStep, UserStep

\* The fan tables and their mode are those of before the sleep when it ends.
LEMMA WakeStep ==
  ASSUME IInv, [Next]_vars
  PROVE  WakeKeepsFanTables'
<1>t. Driver \in Tasks /\ Driver \notin Users /\ Free \notin Tasks /\ \A u \in Users : u \in Tasks
  BY TasksAssumption DEF Tasks
<1>n. NTables \in Nat \ {0} /\ NFan \in 1 .. NTables /\ Tables = 1 .. NTables /\ FanTables = 1 .. NFan
  BY SizesAssumption DEF Tables, FanTables
<1>i. TypeOK /\ FrozenInv /\ SleepInv /\ WakeKeepsFanTables
  BY DEF IInv
<1> USE DEF ecVars, dataVars, pmVars, GoTo
<1>1. ASSUME NEW u \in Users, NEW r \in Requests, Open(u, r) PROVE WakeKeepsFanTables'
  BY <1>t, <1>i, <1>n, <1>1 DEF TypeOK, FrozenInv, SleepPcs, SleepInv, Faithful, WakeKeepsFanTables, Open
<1>2. ASSUME NEW u \in Users, Lock(u) PROVE WakeKeepsFanTables'
  BY <1>t, <1>i, <1>n, <1>2 DEF TypeOK, FrozenInv, SleepPcs, SleepInv, Faithful, WakeKeepsFanTables, Lock, Acquire
<1>3. ASSUME NEW u \in Users, ReadTable(u) PROVE WakeKeepsFanTables'
  BY <1>t, <1>i, <1>n, <1>3 DEF TypeOK, FrozenInv, SleepPcs, SleepInv, Faithful, WakeKeepsFanTables, ReadTable
<1>4. ASSUME NEW u \in Users, WriteTable(u) PROVE WakeKeepsFanTables'
  BY <1>t, <1>i, <1>n, <1>4 DEF TypeOK, FrozenInv, SleepPcs, SleepInv, Faithful, WakeKeepsFanTables, WriteTable, Return
<1>5. ASSUME NEW u \in Users, ReadMode(u) PROVE WakeKeepsFanTables'
  BY <1>t, <1>i, <1>n, <1>5 DEF TypeOK, FrozenInv, SleepPcs, SleepInv, Faithful, WakeKeepsFanTables, ReadMode, Return
<1>6. ASSUME NEW u \in Users, WriteMode(u) PROVE WakeKeepsFanTables'
  BY <1>t, <1>i, <1>n, <1>6 DEF TypeOK, FrozenInv, SleepPcs, SleepInv, Faithful, WakeKeepsFanTables, WriteMode, Return
<1>7. ASSUME NEW u \in Users, LoadFactory(u) PROVE WakeKeepsFanTables'
  BY <1>t, <1>i, <1>n, <1>7 DEF TypeOK, FrozenInv, SleepPcs, SleepInv, Faithful, WakeKeepsFanTables, LoadFactory, LoadTable, Return, Advance
<1>8. ASSUME NEW u \in Users, WriteFails(u) PROVE WakeKeepsFanTables'
  BY <1>t, <1>i, <1>n, <1>8 DEF TypeOK, FrozenInv, SleepPcs, SleepInv, Faithful, WakeKeepsFanTables, WriteFails, ReadFails, StoreFails, ModeFails, LoadFails, CallFails, Return
<1>9. CASE SetupLock
  BY <1>t, <1>i, <1>n, <1>9 DEF TypeOK, FrozenInv, SleepPcs, SleepInv, Faithful, WakeKeepsFanTables, SetupLock, Acquire
<1>10. CASE RemoveLock
  BY <1>t, <1>i, <1>n, <1>10 DEF TypeOK, FrozenInv, SleepPcs, SleepInv, Faithful, WakeKeepsFanTables, RemoveLock, Acquire
<1>11. CASE Probe
  BY <1>t, <1>i, <1>n, <1>11 DEF TypeOK, FrozenInv, SleepPcs, SleepInv, Faithful, WakeKeepsFanTables, Probe
<1>12. CASE SaveTable
  BY <1>t, <1>i, <1>n, <1>12 DEF TypeOK, FrozenInv, SleepPcs, SleepInv, Faithful, WakeKeepsFanTables, SaveTable, Return, Advance
<1>13. CASE SaveFails
  BY <1>t, <1>i, <1>n, <1>13 DEF TypeOK, FrozenInv, SleepPcs, SleepInv, Faithful, WakeKeepsFanTables, SaveFails, Return
<1>14. CASE Remove
  BY <1>t, <1>i, <1>n, <1>14 DEF TypeOK, FrozenInv, SleepPcs, SleepInv, Faithful, WakeKeepsFanTables, Remove
<1>15. CASE RestoreFactory
  BY <1>t, <1>i, <1>n, <1>15 DEF TypeOK, FrozenInv, SleepPcs, SleepInv, Faithful, WakeKeepsFanTables, RestoreFactory, LoadTable, Return, Advance
<1>16. CASE RestoreFails
  BY <1>t, <1>i, <1>n, <1>16 DEF TypeOK, FrozenInv, SleepPcs, SleepInv, Faithful, WakeKeepsFanTables, RestoreFails, LoadFails, CallFails, Return
<1>17. CASE Hide
  BY <1>t, <1>i, <1>n, <1>17 DEF TypeOK, FrozenInv, SleepPcs, SleepInv, Faithful, WakeKeepsFanTables, Hide
<1>18. CASE Drain
  BY <1>t, <1>i, <1>n, <1>18 DEF TypeOK, FrozenInv, SleepPcs, SleepInv, Faithful, WakeKeepsFanTables, Drain
<1>19. CASE SuspendMode
  BY <1>t, <1>i, <1>n, <1>19 DEF TypeOK, FrozenInv, SleepPcs, SleepInv, Faithful, WakeKeepsFanTables, SuspendMode, Unclean
<1>20. CASE KeepTable
  BY <1>t, <1>i, <1>n, <1>20 DEF TypeOK, FrozenInv, SleepPcs, SleepInv, Faithful, WakeKeepsFanTables, KeepTable, Return, Advance
<1>21. CASE KeepFails
  BY <1>t, <1>i, <1>n, <1>21 DEF TypeOK, FrozenInv, SleepPcs, SleepInv, Faithful, WakeKeepsFanTables, KeepFails, Return, Unclean
<1>22. CASE PowerOff
  BY <1>t, <1>i, <1>n, <1>22 DEF TypeOK, FrozenInv, SleepPcs, SleepInv, Faithful, WakeKeepsFanTables, PowerOff
<1>23. CASE WakeWithoutFirmware
  BY <1>t, <1>i, <1>n, <1>23 DEF TypeOK, FrozenInv, SleepPcs, SleepInv, Faithful, WakeKeepsFanTables, WakeWithoutFirmware
<1>24. CASE WakeFromFirmware
  BY <1>t, <1>i, <1>n, <1>24 DEF TypeOK, FrozenInv, SleepPcs, SleepInv, Faithful, WakeKeepsFanTables, WakeFromFirmware, NoImage
<1>25. CASE ReapplyTable
  BY <1>t, <1>i, <1>n, <1>25 DEF TypeOK, FrozenInv, SleepPcs, SleepInv, Faithful, WakeKeepsFanTables, ReapplyTable, Return, Advance, Unclean
<1>26. CASE ReapplyMode
  BY <1>t, <1>i, <1>n, <1>26 DEF TypeOK, FrozenInv, SleepPcs, SleepInv, Faithful, WakeKeepsFanTables, ReapplyMode
<1>27. CASE ReapplyModeFails
  BY <1>t, <1>i, <1>n, <1>27 DEF TypeOK, FrozenInv, SleepPcs, SleepInv, Faithful, WakeKeepsFanTables, ReapplyModeFails, Unclean
<1>28. CASE Thaw
  BY <1>t, <1>i, <1>n, <1>28 DEF TypeOK, FrozenInv, SleepPcs, SleepInv, Faithful, WakeKeepsFanTables, Thaw, NotAsleep
<1>29. ASSUME NEW how \in Sleeps, FallAsleep(how) PROVE WakeKeepsFanTables'
  BY <1>t, <1>i, <1>n, <1>29 DEF TypeOK, FrozenInv, SleepPcs, SleepInv, Faithful, WakeKeepsFanTables, FallAsleep
<1>30. CASE UNCHANGED vars
  BY <1>t, <1>i, <1>n, <1>30 DEF TypeOK, FrozenInv, SleepPcs, SleepInv, Faithful, WakeKeepsFanTables, vars, taskVars
<1> QED
  BY <1>1, <1>2, <1>3, <1>4, <1>5, <1>6, <1>7, <1>8, <1>9, <1>10, <1>11, <1>12, <1>13, <1>14, <1>15, <1>16, <1>17, <1>18, <1>19, <1>20, <1>21, <1>22, <1>23, <1>24, <1>25, <1>26, <1>27, <1>28, <1>29, <1>30
     DEF Next, Environment, DriverStep, UserStep

\* The copy kept over a sleep stays worth what SleepInv says of it, through the
\* thaw of a hibernation, the second snapshot before power-off and the image.
LEMMA SleepStep ==
  ASSUME IInv, [Next]_vars
  PROVE  SleepInv'
<1>t. Driver \in Tasks /\ Driver \notin Users /\ Free \notin Tasks /\ \A u \in Users : u \in Tasks
  BY TasksAssumption DEF Tasks
<1>n. NTables \in Nat \ {0} /\ NFan \in 1 .. NTables /\ Tables = 1 .. NTables /\ FanTables = 1 .. NFan
  BY SizesAssumption DEF Tables, FanTables
<1>i. TypeOK /\ LoopInv /\ FrozenInv /\ SleepInv
  BY DEF IInv
<1> USE DEF ecVars, dataVars, pmVars, GoTo
<1>1. ASSUME NEW u \in Users, NEW r \in Requests, Open(u, r) PROVE SleepInv'
  BY <1>t, <1>i, <1>n, <1>1 DEF TypeOK, LoopInv, Loops, FrozenInv, SleepPcs, SleepInv, Faithful, Open
<1>2. ASSUME NEW u \in Users, Lock(u) PROVE SleepInv'
  BY <1>t, <1>i, <1>n, <1>2 DEF TypeOK, LoopInv, Loops, FrozenInv, SleepPcs, SleepInv, Faithful, Lock, Acquire
<1>3. ASSUME NEW u \in Users, ReadTable(u) PROVE SleepInv'
  BY <1>t, <1>i, <1>n, <1>3 DEF TypeOK, LoopInv, Loops, FrozenInv, SleepPcs, SleepInv, Faithful, ReadTable
<1>4. ASSUME NEW u \in Users, WriteTable(u) PROVE SleepInv'
  BY <1>t, <1>i, <1>n, <1>4 DEF TypeOK, LoopInv, Loops, FrozenInv, SleepPcs, SleepInv, Faithful, WriteTable, Return
<1>5. ASSUME NEW u \in Users, ReadMode(u) PROVE SleepInv'
  BY <1>t, <1>i, <1>n, <1>5 DEF TypeOK, LoopInv, Loops, FrozenInv, SleepPcs, SleepInv, Faithful, ReadMode, Return
<1>6. ASSUME NEW u \in Users, WriteMode(u) PROVE SleepInv'
  BY <1>t, <1>i, <1>n, <1>6 DEF TypeOK, LoopInv, Loops, FrozenInv, SleepPcs, SleepInv, Faithful, WriteMode, Return
<1>7. ASSUME NEW u \in Users, LoadFactory(u) PROVE SleepInv'
  BY <1>t, <1>i, <1>n, <1>7 DEF TypeOK, LoopInv, Loops, FrozenInv, SleepPcs, SleepInv, Faithful, LoadFactory, LoadTable, Return, Advance
<1>8. ASSUME NEW u \in Users, WriteFails(u) PROVE SleepInv'
  BY <1>t, <1>i, <1>n, <1>8 DEF TypeOK, LoopInv, Loops, FrozenInv, SleepPcs, SleepInv, Faithful, WriteFails, ReadFails, StoreFails, ModeFails, LoadFails, CallFails, Return
<1>9. CASE SetupLock
  BY <1>t, <1>i, <1>n, <1>9 DEF TypeOK, LoopInv, Loops, FrozenInv, SleepPcs, SleepInv, Faithful, SetupLock, Acquire
<1>10. CASE RemoveLock
  BY <1>t, <1>i, <1>n, <1>10 DEF TypeOK, LoopInv, Loops, FrozenInv, SleepPcs, SleepInv, Faithful, RemoveLock, Acquire
<1>11. CASE Probe
  BY <1>t, <1>i, <1>n, <1>11 DEF TypeOK, LoopInv, Loops, FrozenInv, SleepPcs, SleepInv, Faithful, Probe
<1>12. CASE SaveTable
  BY <1>t, <1>i, <1>n, <1>12 DEF TypeOK, LoopInv, Loops, FrozenInv, SleepPcs, SleepInv, Faithful, SaveTable, Return, Advance
<1>13. CASE SaveFails
  BY <1>t, <1>i, <1>n, <1>13 DEF TypeOK, LoopInv, Loops, FrozenInv, SleepPcs, SleepInv, Faithful, SaveFails, Return
<1>14. CASE Remove
  BY <1>t, <1>i, <1>n, <1>14 DEF TypeOK, LoopInv, Loops, FrozenInv, SleepPcs, SleepInv, Faithful, Remove
<1>15. CASE RestoreFactory
  BY <1>t, <1>i, <1>n, <1>15 DEF TypeOK, LoopInv, Loops, FrozenInv, SleepPcs, SleepInv, Faithful, RestoreFactory, LoadTable, Return, Advance
<1>16. CASE RestoreFails
  BY <1>t, <1>i, <1>n, <1>16 DEF TypeOK, LoopInv, Loops, FrozenInv, SleepPcs, SleepInv, Faithful, RestoreFails, LoadFails, CallFails, Return
<1>17. CASE Hide
  BY <1>t, <1>i, <1>n, <1>17 DEF TypeOK, LoopInv, Loops, FrozenInv, SleepPcs, SleepInv, Faithful, Hide
<1>18. CASE Drain
  BY <1>t, <1>i, <1>n, <1>18 DEF TypeOK, LoopInv, Loops, FrozenInv, SleepPcs, SleepInv, Faithful, Drain
<1>19. CASE SuspendMode
  <2>0. /\ pc[Driver] = "suspending" /\ UNCHANGED <<tables, manual, kept, keptOk, image, idx, sleep>>
        /\ ~keptOk /\ tables = before.tables /\ manual = before.manual
    BY <1>i, <1>19 DEF SuspendMode, SleepInv
  <2>1. pc[Driver] \notin Loops
    BY <1>19 DEF SuspendMode, Loops
  <2>2. idx[Driver] = 1
    BY <1>t, <1>i, <2>1 DEF LoopInv
  <2>3. before'.tables = before.tables /\ before'.manual = before.manual
    BY <1>i, <1>19 DEF SuspendMode, Unclean, TypeOK
  <2>4. before'.clean => before.clean
    BY <1>i, <1>19 DEF SuspendMode, Unclean, TypeOK
  <2>5. sleep = "off" => Faithful(image.kept, image.keptOk)
    BY <1>i, <2>0 DEF SleepInv
  <2>6. sleep' = "off" => Faithful(image.kept, image.keptOk)'
    BY <2>0, <2>3, <2>4, <2>5 DEF Faithful
  <2>7. CASE pc'[Driver] = "keeping"
    <3>1. manual'
      BY <1>t, <1>i, <2>7, <1>19 DEF TypeOK, SuspendMode
    <3>2. \A t \in FanTables : ~(t < idx'[Driver])
      BY <1>n, <2>0, <2>2
    <3>3. ~keptOk' /\ tables' = before'.tables /\ manual' = before'.manual
      BY <2>0, <2>3
    <3> QED
      BY <2>6, <2>7, <3>1, <3>2, <3>3 DEF SleepInv
  <2>8. CASE pc'[Driver] = "asleep"
    <3>1. ~manual \/ ~before'.clean
      BY <1>t, <1>i, <2>8, <1>19 DEF TypeOK, SuspendMode, Unclean
    <3>2. Faithful(kept, keptOk)'
      BY <2>0, <2>3, <2>4, <3>1 DEF Faithful
    <3> QED
      BY <2>0, <2>3, <2>6, <2>8, <3>2 DEF SleepInv
  <2> QED
    BY <1>t, <1>i, <2>7, <2>8, <1>19 DEF TypeOK, SuspendMode
<1>20. CASE KeepTable
  <2>0. /\ pc[Driver] = "keeping" /\ UNCHANGED <<tables, manual, image, sleep, before>>
        /\ manual /\ tables = before.tables /\ manual = before.manual
    BY <1>i, <1>20 DEF KeepTable, SleepInv
  <2>1. idx[Driver] \in FanTables
    BY <1>i, <2>0 DEF FrozenInv
  <2>2. \A t \in FanTables : t <= idx[Driver] => kept'[t] = tables[t]
    BY <1>i, <1>n, <2>0, <2>1, <1>20 DEF TypeOK, KeepTable, SleepInv
  <2>3. sleep = "off" => Faithful(image.kept, image.keptOk)'
    BY <1>i, <2>0 DEF SleepInv, Faithful
  <2>4. CASE idx[Driver] < NFan
    <3>1. pc'[Driver] = "keeping" /\ idx'[Driver] = idx[Driver] + 1 /\ keptOk' = keptOk
      BY <1>t, <1>i, <2>0, <2>4, <1>20 DEF TypeOK, KeepTable, Advance
    <3>2. \A t \in FanTables : t < idx'[Driver] => kept'[t] = tables'[t]
      BY <1>n, <2>0, <2>1, <2>2, <3>1
    <3> QED
      BY <1>i, <2>0, <2>3, <3>1, <3>2 DEF SleepInv
  <2>5. CASE ~(idx[Driver] < NFan)
    <3>1. pc'[Driver] = "asleep"
      BY <1>t, <1>i, <2>5, <1>20 DEF TypeOK, KeepTable, Return
    <3>2. \A t \in FanTables : kept'[t] = before'.tables[t]
      BY <1>n, <2>0, <2>1, <2>2, <2>5
    <3>3. Faithful(kept, keptOk)'
      BY <2>0, <2>5, <3>2, <1>20 DEF Faithful, KeepTable
    <3> QED
      BY <2>0, <2>3, <3>1, <3>3 DEF SleepInv
  <2> QED
    BY <2>4, <2>5
<1>21. CASE KeepFails
  BY <1>t, <1>i, <1>n, <1>21 DEF TypeOK, LoopInv, Loops, FrozenInv, SleepPcs, SleepInv, Faithful, KeepFails, Return, Unclean
<1>22. CASE PowerOff
  BY <1>t, <1>i, <1>n, <1>22 DEF TypeOK, LoopInv, Loops, FrozenInv, SleepPcs, SleepInv, Faithful, PowerOff
<1>23. CASE WakeWithoutFirmware
  BY <1>t, <1>i, <1>n, <1>23 DEF TypeOK, LoopInv, Loops, FrozenInv, SleepPcs, SleepInv, Faithful, WakeWithoutFirmware
<1>24. CASE WakeFromFirmware
  <2>0. pc[Driver] = "asleep" /\ before' = before /\ idx' = idx
    BY <1>24 DEF WakeFromFirmware
  <2>1. Faithful(kept', keptOk')
    BY <1>i, <2>0, <1>24 DEF WakeFromFirmware, SleepInv
  <2>2. pc[Driver] \notin Loops
    BY <2>0 DEF Loops
  <2>3. idx'[Driver] = 1
    BY <1>t, <1>i, <2>0, <2>2 DEF LoopInv
  <2>4. CASE pc'[Driver] = "reapplying"
    <3>1. keptOk'
      BY <1>t, <1>i, <2>4, <1>24 DEF TypeOK, WakeFromFirmware
    <3>2. Faithful(kept', TRUE)
      BY <2>1, <3>1 DEF Faithful
    <3> QED
      BY <1>n, <2>0, <2>3, <2>4, <3>2 DEF SleepInv, Faithful
  <2>5. CASE pc'[Driver] = "woken"
    BY <2>5 DEF SleepInv
  <2> QED
    BY <1>t, <1>i, <2>4, <2>5, <1>24 DEF TypeOK, WakeFromFirmware
<1>25. CASE ReapplyTable
  <2>0. /\ pc[Driver] = "reapplying" /\ kept' = kept
        /\ before.manual /\ \A t \in FanTables : kept[t] = before.tables[t]
    BY <1>i, <1>25 DEF ReapplyTable, SleepInv, Faithful
  <2>1. idx[Driver] \in FanTables
    BY <1>i, <2>0 DEF FrozenInv
  <2>2. before'.tables = before.tables /\ before'.manual = before.manual
    BY <1>i, <1>25 DEF ReapplyTable, Unclean, TypeOK
  <2>3. Faithful(kept, TRUE)'
    BY <2>0, <2>2 DEF Faithful
  <2>4. before'.clean => /\ before.clean
                         /\ tables' = [tables EXCEPT ![idx[Driver]] = kept[idx[Driver]]]
    BY <1>i, <1>25 DEF ReapplyTable, Reapplied, Unclean, TypeOK
  <2>5. before'.clean => \A t \in FanTables : t <= idx[Driver] => tables'[t] = before'.tables[t]
    <3> SUFFICES ASSUME before'.clean, NEW t \in FanTables, t <= idx[Driver]
                 PROVE  tables'[t] = before.tables[t]
      BY <2>2
    <3>1. t < idx[Driver] => tables[t] = before.tables[t]
      BY <1>i, <2>0, <2>4 DEF SleepInv
    <3>2. tables' = [tables EXCEPT ![idx[Driver]] = kept[idx[Driver]]] /\ t \in Tables
      BY <1>n, <2>4
    <3> QED
      BY <1>i, <1>n, <2>0, <2>1, <3>1, <3>2 DEF TypeOK
  <2>6. CASE idx[Driver] < NFan
    <3>1. pc'[Driver] = "reapplying" /\ idx'[Driver] = idx[Driver] + 1
      BY <1>t, <1>i, <2>0, <2>6, <1>25 DEF TypeOK, ReapplyTable, Advance
    <3>2. before'.clean => \A t \in FanTables : t < idx'[Driver] => tables'[t] = before'.tables[t]
      BY <1>n, <2>1, <2>5, <3>1
    <3> QED
      BY <2>3, <3>1, <3>2 DEF SleepInv
  <2>7. CASE ~(idx[Driver] < NFan)
    <3>1. pc'[Driver] = "modeget"
      BY <1>t, <1>i, <2>7, <1>25 DEF TypeOK, ReapplyTable, Return
    <3>2. before'.clean => \A t \in FanTables : tables'[t] = before'.tables[t]
      BY <1>n, <2>1, <2>5, <2>7
    <3> QED
      BY <2>3, <3>1, <3>2 DEF SleepInv
  <2> QED
    BY <2>6, <2>7
<1>26. CASE ReapplyMode
  BY <1>t, <1>i, <1>n, <1>26 DEF TypeOK, LoopInv, Loops, FrozenInv, SleepPcs, SleepInv, Faithful, ReapplyMode
<1>27. CASE ReapplyModeFails
  BY <1>t, <1>i, <1>n, <1>27 DEF TypeOK, LoopInv, Loops, FrozenInv, SleepPcs, SleepInv, Faithful, ReapplyModeFails, Unclean
<1>28. CASE Thaw
  BY <1>t, <1>i, <1>n, <1>28 DEF TypeOK, LoopInv, Loops, FrozenInv, SleepPcs, SleepInv, Faithful, Thaw, NotAsleep
<1>29. ASSUME NEW how \in Sleeps, FallAsleep(how) PROVE SleepInv'
  <2>1. how # "off" /\ sleep' = how
    BY <1>29, RequestsAssumption DEF FallAsleep
  <2>2. pc'[Driver] = "suspending" /\ ~keptOk' /\ tables' = tables /\ manual' = manual
    BY <1>t, <1>i, <1>29 DEF FallAsleep, TypeOK
  <2>3. before'.tables = tables /\ before'.manual = manual
    BY <1>29 DEF FallAsleep
  <2> QED
    BY <2>1, <2>2, <2>3 DEF SleepInv
<1>30. CASE UNCHANGED vars
  BY <1>t, <1>i, <1>n, <1>30 DEF TypeOK, LoopInv, Loops, FrozenInv, SleepPcs, SleepInv, Faithful, vars, taskVars
<1> QED
  BY <1>1, <1>2, <1>3, <1>4, <1>5, <1>6, <1>7, <1>8, <1>9, <1>10, <1>11, <1>12, <1>13, <1>14, <1>15, <1>16, <1>17, <1>18, <1>19, <1>20, <1>21, <1>22, <1>23, <1>24, <1>25, <1>26, <1>27, <1>28, <1>29, <1>30
     DEF Next, Environment, DriverStep, UserStep

\* Every step is one of EcFan or changes nothing EcFan sees.
LEMMA RefinedStep ==
  ASSUME IInv, [Next]_vars
  PROVE  [AbstractFan!Next]_(AbstractFan!vars)
<1>t. Driver \in Tasks /\ Driver \notin Users /\ Free \notin Tasks /\ \A u \in Users : u \in Tasks
  BY TasksAssumption DEF Tasks
<1>n. NTables \in Nat \ {0} /\ NFan \in 1 .. NTables /\ Tables = 1 .. NTables /\ FanTables = 1 .. NFan
  BY SizesAssumption DEF Tables, FanTables
<1>i. TypeOK /\ LoopInv /\ FrozenInv /\ StoreSeesCurrentTable
  BY DEF IInv
<1>v. AbstractFan!Tables = Tables /\ AbstractFan!FanTables = FanTables /\ AbstractFan!Curves = Curves
  BY DEF AbstractFan!Tables, AbstractFan!FanTables, AbstractFan!Curves, Tables, FanTables, Curves
<1> USE DEF ecVars, dataVars, pmVars
<1>1. ASSUME NEW u \in Users, NEW r \in Requests, Open(u, r) PROVE [AbstractFan!Next]_(AbstractFan!vars)
  BY <1>1 DEF AbstractFan!vars, Open
<1>2. ASSUME NEW u \in Users, Lock(u) PROVE [AbstractFan!Next]_(AbstractFan!vars)
  BY <1>2 DEF AbstractFan!vars, Lock, Acquire
<1>3. ASSUME NEW u \in Users, ReadTable(u) PROVE [AbstractFan!Next]_(AbstractFan!vars)
  BY <1>3 DEF AbstractFan!vars, ReadTable
<1>s. ASSUME NEW u \in Users, pc[u] = "set", req[u].kind = "store", tables' = Stored(u),
             UNCHANGED <<manual, factory, saved, kept>>
      PROVE  AbstractFan!SetPoint
  <2>1. req[u] \in Stores
    BY <1>i, <1>s, StoredTyped
  <2>2. buf[u] = tables[req[u].table]
    BY <1>i, <1>s DEF StoreSeesCurrentTable
  <2>3. /\ tables' = [tables EXCEPT ![req[u].table][req[u].point] = req[u].value]
        /\ req[u].table \in Tables /\ req[u].point \in Points /\ req[u].value \in Values
    BY <2>1, <2>2, <1>s DEF Stored, Stores
  <2>4. \E t \in Tables, p \in Points, v \in Values : tables' = [tables EXCEPT ![t][p] = v]
    BY <2>3, Zenon
  <2> QED
    BY <1>v, <1>s, <2>4 DEF AbstractFan!SetPoint
<1>l. ASSUME NEW t \in Tasks, tables' \in {tables, Loaded(t)},
             UNCHANGED <<manual, factory, saved, kept>>
      PROVE  AbstractFan!RestoreTable \/ UNCHANGED AbstractFan!vars
  <2>1. idx[t] \in Tables
    BY <1>i DEF TypeOK
  <2> QED
    BY <1>l, <1>v, <2>1 DEF Loaded, AbstractFan!RestoreTable, AbstractFan!vars
<1>4. ASSUME NEW u \in Users, WriteTable(u) PROVE [AbstractFan!Next]_(AbstractFan!vars)
  BY <1>4, <1>s DEF WriteTable, AbstractFan!Next
<1>5. ASSUME NEW u \in Users, ReadMode(u) PROVE [AbstractFan!Next]_(AbstractFan!vars)
  BY <1>5 DEF AbstractFan!vars, ReadMode, Return
<1>6. ASSUME NEW u \in Users, WriteMode(u) PROVE [AbstractFan!Next]_(AbstractFan!vars)
  BY <1>t, <1>n, <1>i, <1>v, <1>6 DEF WriteMode, AbstractFan!vars, AbstractFan!Next, AbstractFan!SetMode, TypeOK
<1>7. ASSUME NEW u \in Users, LoadFactory(u) PROVE [AbstractFan!Next]_(AbstractFan!vars)
  BY <1>t, <1>7, <1>l DEF LoadFactory, LoadTable, AbstractFan!Next
<1>8. ASSUME NEW u \in Users, WriteFails(u) PROVE [AbstractFan!Next]_(AbstractFan!vars)
  <2>0. UNCHANGED <<factory, saved, kept>>
    BY <1>8 DEF WriteFails, ReadFails, StoreFails, ModeFails, LoadFails, CallFails
  <2>1. CASE ReadFails(u)
    BY <2>0, <2>1 DEF ReadFails, AbstractFan!vars
  <2>2. CASE StoreFails(u)
    <3>1. pc[u] = "set" /\ req[u].kind = "store" /\ tables' \in {tables, Stored(u)}
          /\ UNCHANGED manual
      BY <2>2 DEF StoreFails, CallFails
    <3>2. CASE tables' = tables
      BY <2>0, <3>1, <3>2 DEF AbstractFan!vars
    <3>3. CASE tables' = Stored(u)
      BY <2>0, <3>1, <3>3, <1>s DEF AbstractFan!Next
    <3> QED
      BY <3>1, <3>2, <3>3
  <2>3. CASE ModeFails(u)
    BY <1>i, <2>0, <2>3 DEF ModeFails, TypeOK, AbstractFan!Next, AbstractFan!SetMode
  <2>4. CASE LoadFails(u, "load", "idle")
    BY <1>t, <1>l, <2>0, <2>4 DEF LoadFails, AbstractFan!Next
  <2> QED
    BY <1>8, <2>1, <2>2, <2>3, <2>4 DEF WriteFails
<1>9. CASE SetupLock
  BY <1>9 DEF AbstractFan!vars, SetupLock, Acquire
<1>10. CASE RemoveLock
  BY <1>10 DEF AbstractFan!vars, RemoveLock, Acquire
<1>11. CASE Probe
  <2>1. factory' = [t \in AbstractFan!Tables |-> Unread] /\ saved' = FALSE
    BY <1>v, <1>11 DEF Probe
  <2>2. kept' \in [AbstractFan!FanTables -> AbstractFan!Curves]
    BY <1>v, <1>11, CurvesAssumption DEF Probe
  <2>3. AbstractFan!Forget
    BY <2>1, <2>2, <1>11 DEF Probe, AbstractFan!Forget
  <2> QED
    BY <2>3 DEF AbstractFan!Next
<1>12. CASE SaveTable
  <2>1. factory' \in [Tables -> Curves \union {Unread}] /\ saved' \in BOOLEAN
    BY <1>t, <1>i, <1>12 DEF TypeOK, SaveTable
  <2>2. ASSUME saved' PROVE factory' = tables
    <3>1. ~(idx[Driver] < NTables)
      BY <1>i, <2>2, <1>12 DEF SaveTable, LoopInv
    <3>2. \A t \in Tables : factory'[t] = tables[t]
      BY <1>t, <1>i, <1>n, <3>1, <1>12 DEF TypeOK, LoopInv, SaveTable
    <3> QED
      BY <1>i, <3>2, <1>12 DEF TypeOK, SaveTable
  <2>3. AbstractFan!Remember
    BY <1>v, <2>1, <2>2, <1>12 DEF SaveTable, AbstractFan!Remember
  <2> QED
    BY <2>3 DEF AbstractFan!Next
<1>13. CASE SaveFails
  <2>1. factory' \in [Tables -> Curves \union {Unread}]
    BY <1>t, <1>i, <1>13, CurvesAssumption DEF TypeOK, SaveFails
  <2>2. ~saved' /\ saved' \in BOOLEAN
    BY <1>i, <1>13 DEF SaveFails, LoopInv, TypeOK
  <2>3. AbstractFan!Remember
    BY <1>v, <2>1, <2>2, <1>13 DEF SaveFails, AbstractFan!Remember
  <2> QED
    BY <2>3 DEF AbstractFan!Next
<1>14. CASE Remove
  BY <1>14 DEF AbstractFan!vars, Remove
<1>15. CASE RestoreFactory
  BY <1>t, <1>15, <1>l DEF RestoreFactory, LoadTable, AbstractFan!Next
<1>16. CASE RestoreFails
  BY <1>t, <1>16, <1>l DEF RestoreFails, LoadFails, CallFails, AbstractFan!Next
<1>17. CASE Hide
  BY <1>17 DEF AbstractFan!vars, Hide
<1>18. CASE Drain
  BY <1>18 DEF AbstractFan!vars, Drain
<1>19. CASE SuspendMode
  BY <1>19 DEF AbstractFan!vars, SuspendMode, Unclean
<1>20. CASE KeepTable
  BY <1>t, <1>n, <1>i, <1>v, <1>20 DEF KeepTable, AbstractFan!vars, AbstractFan!Next, AbstractFan!KeepTable, TypeOK
<1>21. CASE KeepFails
  BY <1>21 DEF AbstractFan!vars, KeepFails, Return, Unclean
<1>22. CASE PowerOff
  BY <1>22 DEF AbstractFan!vars, PowerOff
<1>23. CASE WakeWithoutFirmware
  BY <1>23 DEF AbstractFan!vars, WakeWithoutFirmware
<1>24. CASE WakeFromFirmware
  BY <1>t, <1>n, <1>i, <1>v, <1>24 DEF WakeFromFirmware, AbstractFan!vars, AbstractFan!Next, AbstractFan!PowerLoss, TypeOK
<1>25. CASE ReapplyTable
  <2>1. idx[Driver] \in FanTables
    BY <1>i, <1>25 DEF ReapplyTable, FrozenInv
  <2>2. CASE UNCHANGED tables
    BY <2>2, <1>25 DEF ReapplyTable, AbstractFan!vars
  <2>3. CASE tables' = Reapplied
    <3>1. AbstractFan!ReapplyTable
      BY <1>v, <2>1, <2>3, <1>25 DEF ReapplyTable, Reapplied, AbstractFan!ReapplyTable
    <3> QED
      BY <3>1 DEF AbstractFan!Next
  <2> QED
    BY <2>2, <2>3, <1>25 DEF ReapplyTable
<1>26. CASE ReapplyMode
  BY <1>t, <1>n, <1>i, <1>v, <1>26 DEF ReapplyMode, AbstractFan!vars, AbstractFan!Next, AbstractFan!SetMode, TypeOK
<1>27. CASE ReapplyModeFails
  BY <1>i, <1>27 DEF ReapplyModeFails, TypeOK, AbstractFan!Next, AbstractFan!SetMode
<1>28. CASE Thaw
  BY <1>28 DEF AbstractFan!vars, Thaw, NotAsleep
<1>29. ASSUME NEW how \in Sleeps, FallAsleep(how) PROVE [AbstractFan!Next]_(AbstractFan!vars)
  BY <1>29 DEF AbstractFan!vars, FallAsleep
<1>30. CASE UNCHANGED vars
  BY <1>30 DEF AbstractFan!vars, vars, taskVars
<1> QED
  BY <1>1, <1>2, <1>3, <1>4, <1>5, <1>6, <1>7, <1>8, <1>9, <1>10, <1>11, <1>12, <1>13, <1>14, <1>15, <1>16, <1>17, <1>18, <1>19, <1>20, <1>21, <1>22, <1>23, <1>24, <1>25, <1>26, <1>27, <1>28, <1>29, <1>30
     DEF Next, Environment, DriverStep, UserStep

\* The initial state satisfies every part of the inductive invariant.
LEMMA IInvInit == Init => IInv
<1> SUFFICES ASSUME Init PROVE IInv
  OBVIOUS
<1>1. TypeOK
  BY TypedInit
<1>2. /\ pc[Driver] = "unbound" /\ \A u \in Users : pc[u] = "idle"
      /\ \A t \in Tasks : pc[t] \in {"unbound", "idle"} /\ idx[t] = 1
  BY TasksAssumption DEF Init, Tasks
<1>3. LockInv
  BY <1>2, TasksAssumption DEF Init, LockInv, Critical
<1>4. LoopInv
  BY <1>2 DEF Init, LoopInv, Loops
<1>5. FrozenInv /\ SleepInv
  BY <1>2 DEF Init, FrozenInv, SleepInv, SleepPcs
<1>6. StoreSeesCurrentTable /\ HalfRestoredOnlyInAuto
  BY <1>2 DEF StoreSeesCurrentTable, HalfRestoredOnlyInAuto
<1>7. UnloadRestoresSnapshot /\ WakeKeepsFanTables
  BY <1>2 DEF UnloadRestoresSnapshot, WakeKeepsFanTables
<1> QED
  BY <1>1, <1>3, <1>4, <1>5, <1>6, <1>7 DEF IInv

\* The inductive invariant: what every reachable state of the fan-curves feature
\* satisfies, for every number of tables, points and user tasks.
THEOREM Invariance == Spec => []IInv
<1>1. Init => IInv
  BY IInvInit
<1>2. IInv /\ [Next]_vars => IInv'
  BY TypedStep, LockStep, LoopStep, FrozenStep, SleepStep, StoreStep, HalfStep,
     UnloadStep, WakeStep DEF IInv
<1> QED
  BY <1>1, <1>2, PTL DEF Spec

\* Every variable keeps its type.
THEOREM TypeCorrect == Spec => []TypeOK
<1>1. IInv => TypeOK
  BY DEF IInv
<1> QED
  BY <1>1, Invariance, PTL

\* No update is lost: fan_table_store and temp_table_store write back the table
\* the EC holds, but for the one point they were asked to change.
THEOREM NoLostUpdate == Spec => []StoreSeesCurrentTable
<1>1. IInv => StoreSeesCurrentTable
  BY DEF IInv
<1> QED
  BY <1>1, Invariance, PTL

\* A write of 2 to pwm_enable never lets the EC run a mix of user and factory
\* tables.
THEOREM RestoresInAuto == Spec => []HalfRestoredOnlyInAuto
<1>1. IInv => HalfRestoredOnlyInAuto
  BY DEF IInv
<1> QED
  BY <1>1, Invariance, PTL

\* remove() restores a complete snapshot, undisturbed.
THEOREM UnloadIsUndisturbed == Spec => []UnloadRestoresSnapshot
<1>1. IInv => UnloadRestoresSnapshot
  BY DEF IInv
<1> QED
  BY <1>1, Invariance, PTL

\* A resume re-applies only a full copy, taken when this sleep began.
THEOREM ResumeIsFull == Spec => []ResumeUsesFullSnapshot
<1>1. IInv => ResumeUsesFullSnapshot
  BY DEF IInv, SleepInv, Faithful, ResumeUsesFullSnapshot
<1> QED
  BY <1>1, Invariance, PTL

\* A sleep none of whose calls failed loses neither the mode nor a fan table.
THEOREM SleepIsHarmless == Spec => []WakeKeepsFanTables
<1>1. IInv => WakeKeepsFanTables
  BY DEF IInv
<1> QED
  BY <1>1, Invariance, PTL

\* The handlers, their lock and their single WMI calls implement EcFan, which
\* has none of them.
THEOREM Refinement == Spec => ImplementsEcFan
<1>1. Init => AbstractFan!Init
  BY CurvesAssumption DEF Init, AbstractFan!Init, AbstractFan!Tables,
     AbstractFan!FanTables, AbstractFan!Curves, Tables, FanTables, Curves
<1>2. IInv /\ [Next]_vars => [AbstractFan!Next]_(AbstractFan!vars)
  BY RefinedStep
<1> QED
  BY <1>1, <1>2, Invariance, PTL DEF Spec, ImplementsEcFan, AbstractFan!Spec

-----------------------------------------------------------------------------
(* How long wmi_lock is held: the core of WritesComplete and               *)
(* UnbindCompletes that is a matter of safety.                             *)

\* The WMI calls that a task inside a critical section makes before it returns.
CallsLeft(t) ==
  CASE pc[t] = "get" -> NTables + 2
    [] pc[t] = "set" -> NTables + 1
    [] pc[t] \in {"load", "saving", "restoring"} -> NTables - idx[t] + 1
    [] OTHER -> 0

\* A holder works off its calls; it gives the lock to nobody but back.
WorksOff(t) ==
  \/ lock' = t /\ CallsLeft(t)' = CallsLeft(t)
  \/ lock' = t /\ CallsLeft(t)' < CallsLeft(t)
  \/ lock' = Free /\ CallsLeft(t)' = 0

LEMMA CallsLeftType ==
  ASSUME IInv, NEW t \in Tasks
  PROVE  /\ CallsLeft(t) \in 0 .. NTables + 2
         /\ lock = t => CallsLeft(t) >= 1
         /\ lock # t => CallsLeft(t) = 0
<1>1. idx[t] \in 1 .. NTables /\ NTables \in Nat
  BY SizesAssumption DEF IInv, TypeOK, Tables
<1>2. pc[t] \in Critical <=> lock = t
  BY DEF IInv, LockInv
<1> QED
  BY <1>1, <1>2 DEF CallsLeft, Critical

\* What others do does not touch it.
LEMMA OthersWait ==
  ASSUME NEW t \in Tasks, lock = t, lock' = lock, pc'[t] = pc[t], idx'[t] = idx[t]
  PROVE  WorksOff(t)
BY DEF WorksOff, CallsLeft

\* A handler that returns has nothing left to call.
LEMMA ReturnsTheLock ==
  ASSUME IInv, NEW t \in Tasks, NEW where, where \notin Critical, Return(t, where)
  PROVE  WorksOff(t)
<1>1. pc'[t] = where /\ lock' = Free
  BY DEF IInv, TypeOK, Return, GoTo
<1> QED
  BY <1>1 DEF WorksOff, CallsLeft, Critical

\* A loop comes one call closer to its end.
LEMMA AdvancesALoop ==
  ASSUME IInv, NEW t \in Tasks, lock = t, pc[t] \in {"load", "saving", "restoring"},
         idx[t] < NTables, Advance(t)
  PROVE  WorksOff(t)
<1>1. idx[t] \in Nat /\ NTables \in Nat
  BY SizesAssumption DEF IInv, TypeOK, Tables
<1>2. lock' = t /\ pc'[t] = pc[t] /\ idx'[t] = idx[t] + 1
  BY DEF IInv, TypeOK, Advance
<1>3. CallsLeft(t) = NTables - idx[t] + 1 /\ CallsLeft(t)' = NTables - idx'[t] + 1
  BY <1>2 DEF CallsLeft
<1> QED
  BY <1>1, <1>2, <1>3 DEF WorksOff

LEMMA LoadsATable ==
  ASSUME IInv, NEW t \in Tasks, lock = t, NEW from \in {"load", "restoring"}, NEW to,
         to \notin Critical, LoadTable(t, from, to)
  PROVE  WorksOff(t)
<1>1. CASE idx[t] < NTables
  BY <1>1, AdvancesALoop DEF LoadTable
<1>2. CASE ~(idx[t] < NTables)
  BY <1>2, ReturnsTheLock DEF LoadTable
<1> QED
  BY <1>1, <1>2

\* A user task in its critical section.
LEMMA UserWorksOff ==
  ASSUME IInv, NEW u \in Users, lock = u, UserStep(u)
  PROVE  WorksOff(u)
<1>t. u \in Tasks
  BY DEF Tasks
<1>p. pc \in [Tasks -> UserPcs \union DriverPcs] /\ NTables \in Nat \ {0} /\ "idle" \notin Critical
  BY SizesAssumption DEF IInv, TypeOK, Critical
<1>l. LoopInv
  BY DEF IInv
<1>1. CASE ReadTable(u)
  <2>1. pc[u] = "get" /\ pc'[u] = "set" /\ lock' = u
    BY <1>1, <1>t, <1>p DEF ReadTable, GoTo
  <2>2. CallsLeft(u) = NTables + 2 /\ CallsLeft(u)' = NTables + 1
    BY <2>1 DEF CallsLeft
  <2> QED
    BY <1>p, <2>1, <2>2 DEF WorksOff
<1>2. CASE WriteTable(u)
  BY <1>2, <1>t, <1>p, ReturnsTheLock DEF WriteTable
<1>3. CASE ReadMode(u)
  <2>1. CASE Return(u, "idle")
    BY <2>1, <1>t, <1>p, ReturnsTheLock
  <2>2. CASE GoTo(u, "set") /\ UNCHANGED lock
    <3>1. pc[u] = "get" /\ pc'[u] = "set" /\ lock' = u
      BY <1>3, <2>2, <1>t, <1>p DEF ReadMode, GoTo
    <3>2. CallsLeft(u) = NTables + 2 /\ CallsLeft(u)' = NTables + 1
      BY <3>1 DEF CallsLeft
    <3> QED
      BY <1>p, <3>1, <3>2 DEF WorksOff
  <2> QED
    BY <1>3, <2>1, <2>2 DEF ReadMode
<1>4. CASE WriteMode(u)
  <2>1. CASE Return(u, "idle")
    BY <2>1, <1>t, <1>p, ReturnsTheLock
  <2>2. CASE GoTo(u, "load") /\ UNCHANGED <<lock, idx>>
    <3>1. pc[u] = "set" /\ pc'[u] = "load" /\ lock' = u /\ idx' = idx
      BY <1>4, <2>2, <1>t, <1>p DEF WriteMode, GoTo
    <3>2. idx[u] = 1
      BY <3>1, <1>t, <1>l DEF LoopInv, Loops
    <3>3. CallsLeft(u) = NTables + 1 /\ CallsLeft(u)' = NTables - 1 + 1
      BY <3>1, <3>2 DEF CallsLeft
    <3> QED
      BY <1>p, <3>1, <3>3 DEF WorksOff
  <2> QED
    BY <1>4, <2>1, <2>2 DEF WriteMode
<1>5. CASE LoadFactory(u)
  BY <1>5, <1>t, <1>p, LoadsATable DEF LoadFactory
<1>6. CASE WriteFails(u)
  BY <1>6, <1>t, <1>p, ReturnsTheLock DEF WriteFails, ReadFails, StoreFails, ModeFails, LoadFails, CallFails
<1> QED
  BY <1>1, <1>2, <1>3, <1>4, <1>5, <1>6 DEF UserStep

\* Probe and remove in theirs; the driver's other steps hold no lock.
LEMMA DriverWorksOff ==
  ASSUME IInv, NEW t \in Tasks, lock = t, DriverStep
  PROVE  WorksOff(t)
<1>t. Driver \in Tasks /\ pc \in [Tasks -> UserPcs \union DriverPcs]
      /\ idx \in [Tasks -> Tables]
  BY DEF IInv, TypeOK, Tasks
<1>l. pc[Driver] \in Critical <=> t = Driver
  BY <1>t DEF IInv, LockInv
<1>c. /\ "bound" \notin Critical /\ "teardown" \notin Critical
      /\ "saving" \in Critical /\ "restoring" \in Critical
  BY DEF Critical
<1>1. CASE SaveTable
  <2>1. t = Driver
    BY <1>1, <1>l, <1>c DEF SaveTable
  <2>2. CASE idx[Driver] < NTables
    BY <1>1, <2>1, <2>2, AdvancesALoop DEF SaveTable
  <2>3. CASE ~(idx[Driver] < NTables)
    BY <1>1, <1>c, <2>1, <2>3, ReturnsTheLock DEF SaveTable
  <2> QED
    BY <2>2, <2>3
<1>2. CASE SaveFails
  BY <1>2, <1>l, <1>c, ReturnsTheLock DEF SaveFails
<1>3. CASE RestoreFactory
  <2>1. t = Driver
    BY <1>3, <1>l, <1>c DEF RestoreFactory, LoadTable
  <2> QED
    BY <1>3, <1>c, <2>1, LoadsATable DEF RestoreFactory
<1>4. CASE RestoreFails
  BY <1>4, <1>l, <1>c, ReturnsTheLock DEF RestoreFails, LoadFails, CallFails
<1>5. ASSUME pc[Driver] \notin Critical,
             \/ Hide \/ Drain \/ SuspendMode \/ ReapplyMode \/ ReapplyModeFails \/ Thaw
      PROVE  WorksOff(t)
  <2>1. t # Driver
    BY <1>5, <1>l
  <2>2. lock' = lock /\ pc'[t] = pc[t] /\ idx'[t] = idx[t]
    BY <1>5, <1>t, <2>1
       DEF Hide, Drain, SuspendMode, ReapplyMode, ReapplyModeFails, Thaw, GoTo
  <2> QED
    BY <2>2, OthersWait
<1>6. ASSUME KeepTable \/ KeepFails \/ ReapplyTable
      PROVE  WorksOff(t)
  <2>1. pc[Driver] \in SleepPcs
    BY <1>6 DEF KeepTable, KeepFails, ReapplyTable, SleepPcs
  <2>2. pc[t] \notin Critical
    BY <2>1, TasksAssumption DEF IInv, FrozenInv, Tasks, Critical, SleepPcs
  <2> QED
    BY <2>2 DEF IInv, LockInv
<1>7. \/ Hide \/ Drain \/ SuspendMode \/ ReapplyMode \/ ReapplyModeFails \/ Thaw
        => pc[Driver] \notin Critical
  BY DEF Hide, Drain, SuspendMode, ReapplyMode, ReapplyModeFails, Thaw, Critical
<1> QED
  BY <1>1, <1>2, <1>3, <1>4, <1>5, <1>6, <1>7 DEF DriverStep

\* wmi_lock is held for at most one read, one write and a call for each table,
\* whatever the others do meanwhile: every step of its holder brings its end
\* closer, no step of another delays it, and none gives it from hand to hand.
THEOREM LockComesBack ==
  Spec => [][\A t \in Tasks : lock = t => CallsLeft(t) \in 1 .. NTables + 2 /\ WorksOff(t)]_vars
<1>1. ASSUME IInv, Next, NEW t \in Tasks, lock = t
      PROVE  CallsLeft(t) \in 1 .. NTables + 2 /\ WorksOff(t)
  <2>1. CallsLeft(t) \in 1 .. NTables + 2
    BY <1>1, CallsLeftType, SizesAssumption
  <2>2. ASSUME DriverStep PROVE WorksOff(t)
    BY <1>1, <2>2, DriverWorksOff
  <2>3. ASSUME NEW u \in Users, UserStep(u) PROVE WorksOff(t)
    <3>1. u \in Tasks /\ (pc[u] \in Critical <=> lock = u)
      BY <1>1 DEF IInv, LockInv, Tasks
    <3>2. pc[u] \in Critical
      BY <2>3 DEF UserStep, ReadTable, WriteTable, ReadMode, WriteMode, LoadFactory,
                  LoadTable, WriteFails, ReadFails, StoreFails, ModeFails, LoadFails, CallFails, Critical
    <3> QED
      BY <1>1, <2>3, <3>1, <3>2, UserWorksOff
  <2>4. ASSUME Environment PROVE WorksOff(t)
    <3>1. Driver \in Tasks /\ pc \in [Tasks -> UserPcs \union DriverPcs] /\ pc[t] \in Critical
      BY <1>1 DEF IInv, TypeOK, LockInv, Tasks
    <3>2. lock' = lock /\ pc'[t] = pc[t] /\ idx'[t] = idx[t]
      BY <1>1, <2>4, <3>1
         DEF Environment, Open, Probe, Remove, FallAsleep, PowerOff, WakeWithoutFirmware,
             WakeFromFirmware, GoTo, Critical
    <3> QED
      BY <1>1, <3>2, OthersWait
  <2>5. lock # Free
    BY <1>1, TasksAssumption
  <2>6. ~SetupLock /\ ~RemoveLock /\ \A u \in Users : ~Lock(u)
    BY <2>5 DEF SetupLock, RemoveLock, Lock, Acquire
  <2> QED
    BY <1>1, <2>1, <2>2, <2>3, <2>4, <2>6 DEF Next
<1>2. IInv /\ [Next]_vars =>
        [\A t \in Tasks : lock = t => CallsLeft(t) \in 1 .. NTables + 2 /\ WorksOff(t)]_vars
  BY <1>1
<1> QED
  BY <1>2, Invariance, PTL DEF Spec
=============================================================================
