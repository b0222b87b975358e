------------------------ MODULE FanCurveScriptProofs ------------------------
(* Proofs about FanCurveScript, for curves of any number of points and for *)
(* any set of configurations.                                              *)
EXTENDS FanCurveScript, TLAPS

\* The stores of a run are in the order fan, point, temperature before speed.
\* This one is behind it.
Stored(f, i, attr) ==
  \/ f < fan
  \/ f = fan /\ i < point
  \/ f = fan /\ i = point /\ attr = "temp" /\ field = "speed"
  \/ field = "engage"

\* Only a run in apply_curve is anywhere but at the first store.
PlaceInv ==
  /\ pc # "write" => fan = 1 /\ point = 1 /\ field = "temp"
  /\ field = "engage" => fan = 2 /\ point = NPoints

\* Nothing invalid gets past the check.
ValidInv == pc \in {"find", "write", "applied"} => \A f \in Fans : Valid(conf[f])

\* What a run has stored is still there, unless something else came between.
StoredInv ==
  pc = "write" /\ ~disturbed =>
    \A f \in Fans, i \in Points :
      /\ Stored(f, i, "temp") => tables[f][i].temp = StoredTemp(conf[f].temp[i])
      /\ Stored(f, i, "speed") =>
           tables[f][i].speed = StoredSpeed(Pct2Pwm(conf[f].speed[i]))

IInv == TypeOK /\ PlaceInv /\ ValidInv /\ StoredInv /\ AppliedIsWhole /\ AbortsInAuto

-----------------------------------------------------------------------------
(* The conversions.                                                        *)

\* The script rounds to the nearest pwm and the driver truncates back to a
\* percentage: together they lose at most one percent, and only 0 becomes 0.
THEOREM SpeedLosesAtMostOne ==
  ASSUME NEW s \in 0 .. 100
  PROVE  /\ StoredSpeed(Pct2Pwm(s)) \in 0 .. 100
         /\ s - StoredSpeed(Pct2Pwm(s)) \in {0, 1}
         /\ StoredSpeed(Pct2Pwm(s)) = 0 <=> s = 0
<1> DEFINE pwm == Pct2Pwm(s)
<1>1. pwm \in 0 .. 255 /\ 100 * pwm <= s * 255 + 50 /\ s * 255 + 50 < 100 * pwm + 100
  BY DEF Pct2Pwm
<1> HIDE DEF pwm
<1>2. StoredSpeed(pwm) = (pwm * 100) \div 255
  BY <1>1 DEF StoredSpeed, Clamp
<1> DEFINE d == (pwm * 100) \div 255
<1>3. d \in Int /\ 255 * d <= pwm * 100 /\ pwm * 100 < 255 * d + 255
  BY <1>1
<1> HIDE DEF d
<1>4. s - d \in {0, 1} /\ d \in 0 .. 100 /\ (d = 0 <=> s = 0)
  BY <1>1, <1>3
<1> QED
  BY <1>2, <1>4 DEF pwm, d

\* Whatever number is written, the EC gets a percentage: fan_table_show never
\* answers -EIO for what fan_table_store has stored.
THEOREM StoredSpeedIsPercent ==
  ASSUME NEW v \in Int
  PROVE  StoredSpeed(v) \in 0 .. 100
<1>1. Clamp(v, 0, 255) \in 0 .. 255
  BY DEF Clamp
<1> QED
  BY <1>1 DEF StoredSpeed

\* Reading an attribute and writing back what was read, as a script that saves
\* and restores a curve does, costs at most one percent of a speed.
THEOREM ShowThenStore ==
  ASSUME NEW p \in 0 .. 100
  PROVE  p - StoredSpeed(ShownSpeed(p)) \in {0, 1}
<1> DEFINE pwm == ShownSpeed(p)
<1>1. pwm \in 0 .. 255 /\ 100 * pwm <= p * 255 /\ p * 255 < 100 * pwm + 100
  BY DEF ShownSpeed
<1> HIDE DEF pwm
<1>2. StoredSpeed(pwm) = (pwm * 100) \div 255
  BY <1>1 DEF StoredSpeed, Clamp
<1>3. /\ (pwm * 100) \div 255 \in Int
      /\ 255 * ((pwm * 100) \div 255) <= pwm * 100
      /\ pwm * 100 < 255 * ((pwm * 100) \div 255) + 255
  BY <1>1
<1> QED
  BY <1>1, <1>2, <1>3 DEF pwm

LEMMA StoredTempIsByte ==
  ASSUME NEW v \in Nat
  PROVE  StoredTemp(v) \in Byte
  BY DEF StoredTemp, Clamp, Byte

LEMMA ConfParts ==
  ASSUME NEW c \in Confs, NEW f \in Fans, Valid(c[f]), NEW i \in Points
  PROVE  c[f].temp[i] \in Nat /\ c[f].speed[i] \in 0 .. 100
<1>1. c[f].temp[i] \in Nat /\ c[f].speed[i] \in Nat /\ c[f].speed[i] <= 100
  BY Zenon DEF Valid
<1> QED
  BY <1>1

-----------------------------------------------------------------------------
(* The invariant.                                                          *)

LEMMA InitInv == Init => IInv
<1> SUFFICES ASSUME Init PROVE IInv
  OBVIOUS
<1>1. Factory \in Tables /\ 1 \in Fans /\ 1 \in Points
  BY ScriptAssumption DEF Tables, Fans, Points
<1>2. TypeOK
  BY <1>1 DEF Init, TypeOK
<1> QED
  BY <1>2 DEF Init, IInv, PlaceInv, ValidInv, StoredInv, AppliedIsWhole, AbortsInAuto

LEMMA WrittenType ==
  ASSUME IInv, pc = "write", field \in {"temp", "speed"}
  PROVE  Written \in Tables
<1> USE DEF IInv, TypeOK
<1>1. fan \in Fans /\ point \in Points /\ Valid(conf[fan])
  BY DEF ValidInv
<1>2. /\ StoredTemp(conf[fan].temp[point]) \in Byte
      /\ StoredSpeed(Pct2Pwm(conf[fan].speed[point])) \in 0 .. 100
  BY <1>1, ConfParts, StoredTempIsByte, SpeedLosesAtMostOne
<1> DEFINE e == tables[fan][point]
           n == [e EXCEPT ![field] = IF field = "temp"
                   THEN StoredTemp(conf[fan].temp[point])
                   ELSE StoredSpeed(Pct2Pwm(conf[fan].speed[point]))]
<1>3. e \in [temp : Byte, speed : 0 .. 100]
  BY <1>1 DEF Tables
<1>4. n \in [temp : Byte, speed : 0 .. 100]
  BY <1>2, <1>3
<1> HIDE DEF n
<1>5. Written = [tables EXCEPT ![fan][point] = n]
  BY DEF Written, n
<1> QED
  BY <1>1, <1>4, <1>5 DEF Tables

LEMMA EchoPlace ==
  ASSUME IInv, Echo
  PROVE  /\ fan' \in Fans /\ point' \in Points /\ field' \in {"temp", "speed", "engage"}
         /\ field' = "engage" => fan' = 2 /\ point' = NPoints
  BY ScriptAssumption DEF Echo, NextStore, IInv, TypeOK, PlaceInv, Fans, Points

\* What is behind a run after a store was behind it before, or is that store.
LEMMA EchoStored ==
  ASSUME IInv, Echo, NEW f \in Fans, NEW i \in Points, NEW attr \in {"temp", "speed"},
         Stored(f, i, attr)'
  PROVE  Stored(f, i, attr) \/ (f = fan /\ i = point /\ attr = field)
  BY ScriptAssumption
     DEF Stored, Echo, NextStore, IInv, TypeOK, PlaceInv, Fans, Points

LEMMA EchoInv ==
  ASSUME IInv, Echo
  PROVE  IInv'
<1>1. TypeOK'
  BY WrittenType, EchoPlace DEF Echo, IInv, TypeOK, driverVars
<1>2. PlaceInv'
  BY EchoPlace DEF Echo, PlaceInv
<1>3. ValidInv'
  BY DEF Echo, IInv, ValidInv
<1>4. StoredInv'
  <2> SUFFICES ASSUME ~disturbed, NEW f \in Fans, NEW i \in Points
               PROVE  /\ Stored(f, i, "temp")' =>
                           tables'[f][i].temp = StoredTemp(conf[f].temp[i])
                      /\ Stored(f, i, "speed")' =>
                           tables'[f][i].speed = StoredSpeed(Pct2Pwm(conf[f].speed[i]))
    BY DEF Echo, StoredInv
  <2>1. /\ Stored(f, i, "temp") => tables[f][i].temp = StoredTemp(conf[f].temp[i])
        /\ Stored(f, i, "speed") =>
             tables[f][i].speed = StoredSpeed(Pct2Pwm(conf[f].speed[i]))
    BY DEF IInv, StoredInv, Echo
  <2>2. tables \in Tables /\ fan \in Fans /\ point \in Points /\ field \in {"temp", "speed"}
    BY DEF IInv, TypeOK, Echo
  <2>3. ASSUME ~(f = fan /\ i = point) PROVE tables'[f][i] = tables[f][i]
    BY <2>2, <2>3 DEF Echo, Written, Tables
  <2>4. ASSUME f = fan, i = point
        PROVE  /\ field = "temp" => /\ tables'[f][i].temp = StoredTemp(conf[f].temp[i])
                                    /\ tables'[f][i].speed = tables[f][i].speed
               /\ field = "speed" => /\ tables'[f][i].temp = tables[f][i].temp
                                     /\ tables'[f][i].speed =
                                          StoredSpeed(Pct2Pwm(conf[f].speed[i]))
    BY <2>2, <2>4 DEF Echo, Written, Tables
  <2> QED
    BY <2>1, <2>2, <2>3, <2>4, EchoStored
<1>5. AppliedIsWhole' /\ AbortsInAuto'
  BY DEF Echo, IInv, AppliedIsWhole, AbortsInAuto
<1> QED
  BY <1>1, <1>2, <1>3, <1>4, <1>5 DEF IInv

\* When the engaging is due, the tables are the configured ones.
LEMMA WholeAtEngage ==
  ASSUME IInv, pc = "write", field = "engage", ~disturbed, NEW f \in Fans
  PROVE  tables[f] = Table(conf[f])
<1>1. \A i \in Points : /\ tables[f][i].temp = StoredTemp(conf[f].temp[i])
                        /\ tables[f][i].speed = StoredSpeed(Pct2Pwm(conf[f].speed[i]))
  BY DEF IInv, StoredInv, Stored
<1>2. tables[f] \in [Points -> [temp : Byte, speed : 0 .. 100]]
  BY DEF IInv, TypeOK, Tables
<1>3. \A i \in Points : tables[f][i] = [temp  |-> StoredTemp(conf[f].temp[i]),
                                        speed |-> StoredSpeed(Pct2Pwm(conf[f].speed[i]))]
  BY <1>1, <1>2
<1> QED
  BY <1>2, <1>3 DEF Table

LEMMA EngageInv ==
  ASSUME IInv, Engage \/ EngageFails
  PROVE  IInv'
<1>1. ASSUME ~disturbed, NEW f \in Fans PROVE tables[f] = Table(conf[f])
  BY <1>1, WholeAtEngage DEF Engage, EngageFails
<1>2. TypeOK' /\ PlaceInv' /\ ValidInv' /\ StoredInv'
  <2> USE ScriptAssumption
          DEF Rewind, IInv, TypeOK, PlaceInv, ValidInv, StoredInv, driverVars, Fans, Points
  <2>1. CASE Engage
    BY <2>1 DEF Engage
  <2>2. CASE EngageFails
    BY <2>2 DEF EngageFails
  <2> QED
    BY <2>1, <2>2
<1>3. AppliedIsWhole' /\ AbortsInAuto'
  BY <1>1 DEF Engage, EngageFails, AppliedIsWhole, AbortsInAuto
<1> QED
  BY <1>2, <1>3 DEF IInv

LEMMA EchoFailsInv ==
  ASSUME IInv, EchoFails
  PROVE  IInv'
<1>1. tables' \in Tables
  BY WrittenType DEF EchoFails
<1>2. TypeOK' /\ PlaceInv' /\ ValidInv' /\ StoredInv'
  BY <1>1, ScriptAssumption
     DEF EchoFails, Rewind, IInv, TypeOK, PlaceInv, ValidInv, StoredInv, driverVars,
         Fans, Points
<1>3. AppliedIsWhole' /\ AbortsInAuto'
  BY DEF EchoFails, IInv, AppliedIsWhole, AbortsInAuto
<1> QED
  BY <1>2, <1>3 DEF IInv

LEMMA SleepType ==
  ASSUME TypeOK, Sleep
  PROVE  tables' \in Tables /\ manual' \in BOOLEAN
<1>1. Factory \in Tables
  BY ScriptAssumption DEF Tables
<1>2. [f \in Fans |-> [i \in Points |->
         [Factory[f][i] EXCEPT !.speed = tables[f][i].speed]]] \in Tables
  <2> SUFFICES ASSUME NEW f \in Fans, NEW i \in Points
               PROVE  [Factory[f][i] EXCEPT !.speed = tables[f][i].speed]
                        \in [temp : Byte, speed : 0 .. 100]
    BY DEF Tables
  <2>1. /\ Factory[f][i] \in [temp : Byte, speed : 0 .. 100]
        /\ tables[f][i] \in [temp : Byte, speed : 0 .. 100]
    BY <1>1 DEF TypeOK, Tables
  <2> QED
    BY <2>1
<1> QED
  BY <1>1, <1>2 DEF Sleep, TypeOK

LEMMA StepInv == IInv /\ [Next]_vars => IInv'
<1> SUFFICES ASSUME IInv, [Next]_vars PROVE IInv'
  OBVIOUS
<1> USE DEF IInv, TypeOK, PlaceInv, ValidInv, AppliedIsWhole, AbortsInAuto
<1>1. CASE Start
  BY <1>1 DEF Start, StoredInv, ecVars, driverVars, atVars
<1>2. CASE Check
  BY <1>2 DEF Check, StoredInv, ecVars, driverVars, atVars
<1>3. CASE Find
  BY <1>3, ScriptAssumption
     DEF Find, StoredInv, Stored, Fans, Points, ecVars, driverVars, atVars
<1>4. CASE Echo
  BY <1>4, EchoInv
<1>5. CASE Engage
  BY <1>5, EngageInv
<1>6. CASE Abort
  BY <1>6, ScriptAssumption
     DEF Abort, Rewind, StoredInv, Fans, Points, ecVars, driverVars
<1>7. CASE Expose
  BY <1>7 DEF Expose, StoredInv, Stored, ecVars, scriptVars, atVars
<1>8. CASE Snapshot
  BY <1>8 DEF Snapshot, StoredInv, Stored, ecVars, scriptVars, atVars
<1>9. CASE Remove
  BY <1>9 DEF Remove, StoredInv, scriptVars, atVars
<1>10. CASE WriteMode
  BY <1>10 DEF WriteMode, StoredInv, driverVars, scriptVars, atVars
<1>11. CASE Sleep
  BY <1>11, SleepType DEF Sleep, StoredInv, driverVars, scriptVars, atVars
<1>12. CASE EchoFails
  BY <1>12, EchoFailsInv
<1>13. CASE EngageFails
  BY <1>13, EngageInv
<1>14. CASE UNCHANGED vars
  BY <1>14 DEF vars, StoredInv, Stored, ecVars, driverVars, scriptVars, atVars
<1> QED
  BY <1>1, <1>2, <1>3, <1>4, <1>5, <1>6, <1>7, <1>8, <1>9, <1>10, <1>11, <1>12, <1>13,
     <1>14 DEF Next

\* The inductive invariant holds in every reachable state.
THEOREM Invariance == Spec => []IInv
  BY InitInv, StepInv, PTL DEF Spec

\* Every entry of the EC's tables stays a byte and every speed a percentage,
\* whatever numbers a valid configuration holds.
THEOREM TypeCorrect == Spec => []TypeOK
<1>1. IInv => TypeOK
  BY DEF IInv
<1> QED
  BY <1>1, Invariance, PTL

\* An undisturbed run of apply_curve has stored every point of both fans when
\* it engages them, however many points a curve has.
THEOREM RunsAreWhole == Spec => []AppliedIsWhole
<1>1. IInv => AppliedIsWhole
  BY DEF IInv
<1> QED
  BY <1>1, Invariance, PTL

\* The same run has lost at most one percent of each configured speed.
THEOREM RunsAreClose == Spec => []SpeedsAreClose
<1>1. IInv => SpeedsAreClose
  <2> SUFFICES ASSUME IInv, pc = "applied", ~disturbed, NEW f \in Fans, NEW i \in Points
               PROVE  /\ conf[f].speed[i] - tables[f][i].speed \in {0, 1}
                      /\ tables[f][i].speed = 0 <=> conf[f].speed[i] = 0
    BY DEF SpeedsAreClose
  <2>1. conf[f].speed[i] \in 0 .. 100
    BY ConfParts DEF IInv, TypeOK, ValidInv
  <2>2. tables[f][i].speed = StoredSpeed(Pct2Pwm(conf[f].speed[i]))
    <3>1. tables[f] = Table(conf[f])
      BY DEF IInv, AppliedIsWhole
    <3> QED
      BY <3>1 DEF Table
  <2> QED
    BY <2>1, <2>2, SpeedLosesAtMostOne
<1> QED
  BY <1>1, Invariance, PTL

\* A run that found auto mode and ends early leaves auto mode, or, when its
\* engaging failed after taking effect, manual mode over whole curves.
THEOREM EarlyEndsAreSafe == Spec => []AbortsInAuto
<1>1. IInv => AbortsInAuto
  BY DEF IInv
<1> QED
  BY <1>1, Invariance, PTL
=============================================================================
