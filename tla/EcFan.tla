------------------------------- MODULE EcFan -------------------------------
(***************************************************************************)
(* What the fan interface of the driver promises about the embedded        *)
(* controller (EC), with no lock, no tasks and no WMI calls: a store       *)
(* changes one point of one table, the factory curves are remembered as    *)
(* they all stood at one instant, and a whole table is only ever replaced  *)
(* by what is remembered of it, by the copy kept over a sleep, or by a     *)
(* loss of power.  FanControl implements this specification.               *)
(***************************************************************************)
EXTENDS Naturals

CONSTANTS
  NTables,    \* number of curve tables (the code has four)
  NFan,       \* the first NFan of them are fan tables, the others temperature tables
  Points,     \* the auto_point entries of a table
  Values,     \* what one entry may hold
  Factory,    \* the tables an EC holds after it lost power
  Unread      \* driver memory no table was read into

Tables    == 1 .. NTables
FanTables == 1 .. NFan
Curves    == [Points -> Values]

VARIABLES
  tables,     \* the curve tables in the EC
  manual,     \* the EC runs these tables (MSI_PLATFORM_AP_ENABLE_FAN_TABLES)
  factory,    \* the driver's copy of the factory curves
  saved,      \* that copy is complete
  kept        \* the driver's copy of the fan tables over a sleep

vars == <<tables, manual, factory, saved, kept>>

Init ==
  /\ tables = Factory
  /\ manual = FALSE
  /\ factory = [t \in Tables |-> Unread]
  /\ saved = FALSE
  /\ kept \in [FanTables -> Curves]

SetPoint ==
  /\ \E t \in Tables, p \in Points, v \in Values :
       tables' = [tables EXCEPT ![t][p] = v]
  /\ UNCHANGED <<manual, factory, saved, kept>>

SetMode ==
  /\ manual' \in BOOLEAN
  /\ UNCHANGED <<tables, factory, saved, kept>>

\* The copy may be rebuilt at any time, but it is complete only when it holds
\* every table as the EC has it at that instant.
Remember ==
  /\ factory' \in [Tables -> Curves \union {Unread}]
  /\ saved' \in BOOLEAN
  /\ saved' => factory' = tables
  /\ UNCHANGED <<tables, manual, kept>>

\* The driver binds anew: it remembers nothing.
Forget ==
  /\ factory' = [t \in Tables |-> Unread]
  /\ saved' = FALSE
  /\ kept' \in [FanTables -> Curves]
  /\ UNCHANGED <<tables, manual>>

RestoreTable ==
  /\ \E t \in Tables :
       /\ factory[t] # Unread
       /\ tables' = [tables EXCEPT ![t] = factory[t]]
  /\ UNCHANGED <<manual, factory, saved, kept>>

KeepTable ==
  /\ \E t \in FanTables : kept' = [kept EXCEPT ![t] = tables[t]]
  /\ UNCHANGED <<tables, manual, factory, saved>>

ReapplyTable ==
  /\ \E t \in FanTables : tables' = [tables EXCEPT ![t] = kept[t]]
  /\ UNCHANGED <<manual, factory, saved, kept>>

\* Power is lost; what the driver kept comes back as it is or from an image.
PowerLoss ==
  /\ tables' = Factory
  /\ manual' = FALSE
  /\ kept' \in [FanTables -> Curves]
  /\ UNCHANGED <<factory, saved>>

Next ==
  \/ SetPoint
  \/ SetMode
  \/ Remember
  \/ Forget
  \/ RestoreTable
  \/ KeepTable
  \/ ReapplyTable
  \/ PowerLoss

Spec == Init /\ [][Next]_vars
=============================================================================
