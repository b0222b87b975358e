------------------------- MODULE EcSettingsProofs -------------------------
(* Proofs about the settings that are one EC register each: EcControls,    *)
(* for all LEDs, requests and limits, and Profile, for all tasks and       *)
(* profiles.  The two are apart: nothing here is of both.                  *)
EXTENDS EcControls, Profile, TLAPS

-----------------------------------------------------------------------------
(* The conversions.                                                        *)

\* What is taken for the threshold shows as itself unless it is negative.
LEMMA ThresholdShows ==
  \A v \in Int : v <= 100 =>
    /\ Threshold(v) \in Byte
    /\ v >= 0 => ShownThreshold(Threshold(v)) = v
  BY DEF Threshold, ShownThreshold, Byte

\* A store of the camera shows as itself.
LEMMA CameraShows ==
  \A r \in Byte, on \in {0, 1} :
    LET s == r + 2 * (on - ShownCamera(r))
    IN  s \in Byte /\ ShownCamera(s) = on
  BY DEF ShownCamera, Byte

\* A limit that is taken fits the byte.
LEMMA LimitShows ==
  \A l \in Limits, v \in Int : LimitTaken(l, v) =>
    v % 256 \in Byte /\ ShownLimit(v % 256) = v
  BY ControlsAssumption DEF LimitTaken, ShownLimit, Byte

-----------------------------------------------------------------------------
(* The inductive invariant.                                                *)

\* What a register of a setting holds while it is known what was stored.
Matches(s) ==
  asked[s] # None =>
    /\ asked[s] >= 0 => Shown(s, reg[s]) = asked[s] /\ Readable(s, reg[s])
    /\ s \in Limits => PlMin <= reg[s] /\ reg[s] <= PlMax[s]

SettingsInv == \A s \in Settings : Matches(s)

\* What the LED core has passed on last is what it wants, it has nothing to
\* pass on while the machine sleeps, and what the driver was told is lit.
QueueInv ==
  \A l \in Leds :
    /\ due[l] # None => due[l] = Wanted(l)
    /\ due[l] = None /\ passed[l] # None => passed[l] = Wanted(l)
    /\ phase \in {"asleep", "waking", "unbound"} => due[l] = None /\ passed[l] = None

IInv == TypeOK /\ SettingsInv /\ QueueInv /\ LedsSettle

-----------------------------------------------------------------------------
(* Each step preserves it.                                                 *)

\* A store of what shows as it should, whatever becomes of the call.
LEMMA WritesInv ==
  ASSUME IInv, NEW s \in Settings, NEW r \in Byte, NEW v \in Int, Writes(s, r, v),
         v >= 0 => Shown(s, r) = v /\ Readable(s, r),
         s \in Limits => PlMin <= r /\ r <= PlMax[s]
  PROVE  IInv'
<1>1. TypeOK'
  BY DEF IInv, TypeOK, Writes, ledVars
<1>2. SettingsInv'
  <2> SUFFICES ASSUME NEW t \in Settings PROVE Matches(t)'
    BY DEF SettingsInv
  <2>1. Matches(t)
    BY DEF IInv, SettingsInv
  <2>2. CASE t # s
    BY <2>1, <2>2 DEF IInv, TypeOK, Writes, Matches, Shown, Readable
  <2>3. CASE t = s
    BY <2>3 DEF IInv, TypeOK, Writes, Matches, Shown, Readable
  <2> QED BY <2>2, <2>3
<1>3. (QueueInv /\ LedsSettle)'
  BY DEF IInv, Writes, ledVars, QueueInv, LedsSettle, Wanted, Lit
<1> QED BY <1>1, <1>2, <1>3 DEF IInv

\* Brightnesses are bytes.
LEMMA LedTypes ==
  /\ \A l \in Leds, v \in Nat : Clipped(l, v) \in Byte
  /\ \A l \in Leds, v \in Byte : Lit(l, v) \in Byte
  /\ 0 \in Byte /\ None \notin Byte
  BY ControlsAssumption DEF Clipped, MaxBrightness, Lit, Byte

-----------------------------------------------------------------------------

LEMMA InitInv == Init => IInv
<1> SUFFICES ASSUME Init PROVE IInv
  OBVIOUS
<1>1. reg \in [Settings -> Byte]
  BY ControlsAssumption DEF Init
<1>2. ec \in [Leds -> Byte] /\ 0 \in Byte
  BY DEF Init, Byte
<1>3. TypeOK
  BY <1>1, <1>2 DEF Init, TypeOK
<1>4. SettingsInv /\ QueueInv /\ LedsSettle
  BY DEF Init, SettingsInv, Matches, QueueInv, LedsSettle
<1> QED
  BY <1>3, <1>4 DEF IInv

LEMMA StepInv == IInv /\ [Next]_vars => IInv'
<1> SUFFICES ASSUME IInv, [Next]_vars PROVE IInv'
  OBVIOUS
<1> USE DEF IInv
<1>1. CASE StoreThreshold
  <2> PICK v \in Requests["charge"] : v <= 100 /\ Writes("charge", Threshold(v), v)
    BY <1>1 DEF StoreThreshold
  <2>1. v \in Int /\ "charge" \in Settings /\ "charge" \notin Limits
    BY ControlsAssumption DEF Settings, Limits
  <2>2. v >= 0 => Shown("charge", Threshold(v)) = v /\ Readable("charge", Threshold(v))
    BY <2>1, ThresholdShows DEF Shown, Readable
  <2> QED BY <2>1, <2>2, ThresholdShows, WritesInv
<1>2. CASE StoreCamera
  <2> DEFINE r == reg["camera"]
             new(on) == r + 2 * (on - ShownCamera(r))
  <2> PICK on \in Requests["camera"] : on \in {0, 1} /\ Writes("camera", new(on), on)
    BY <1>2 DEF StoreCamera
  <2>1. on \in Int /\ "camera" \in Settings /\ "camera" \notin Limits /\ r \in Byte
    BY ControlsAssumption DEF Settings, Limits, TypeOK
  <2>2. new(on) \in Byte /\ ShownCamera(new(on)) = on
    BY <2>1, CameraShows
  <2>3. on >= 0 => Shown("camera", new(on)) = on /\ Readable("camera", new(on))
    BY <2>2 DEF Shown, Readable
  <2> HIDE DEF new, r
  <2> QED BY <2>1, <2>2, <2>3, WritesInv
<1>3. ASSUME NEW l \in Limits, StoreLimit(l) PROVE IInv'
  <2> PICK v \in Requests[l] : LimitTaken(l, v) /\ Writes(l, v % 256, v)
    BY <1>3 DEF StoreLimit
  <2>1. v \in Int /\ l \in Settings /\ l \notin {"charge", "camera"}
    BY ControlsAssumption DEF Settings, Limits
  <2>2. v % 256 \in Byte /\ ShownLimit(v % 256) = v
    BY <2>1, LimitShows
  <2>3. v >= 0 => Shown(l, v % 256) = v /\ Readable(l, v % 256)
    BY <2>1, <2>2 DEF Shown, Readable
  <2>4. PlMin <= v % 256 /\ v % 256 <= PlMax[l]
    BY <2>2 DEF ShownLimit, LimitTaken
  <2> QED BY <2>1, <2>2, <2>3, <2>4, WritesInv
<1>4. ASSUME UNCHANGED settings PROVE SettingsInv'
  BY <1>4 DEF settings, SettingsInv, Matches, Shown, Readable
<1> HIDE DEF IInv
<1> USE LedTypes
<1>5. ASSUME NEW l \in Leds, SetLed(l) PROVE IInv'
  <2>1. PICK v \in Brightness :
          /\ cache' = [cache EXCEPT ![l] = Clipped(l, v)]
          /\ due' = IF phase = "up" THEN [due EXCEPT ![l] = Clipped(l, v)] ELSE due
    BY <1>5 DEF SetLed
  <2>2. Clipped(l, v) \in Byte /\ None \notin Byte
    BY ControlsAssumption
  <2>3. UNCHANGED <<phase, settings, ec, passed, known>>
    BY <1>5 DEF SetLed
  <2>4. TypeOK'
    BY <2>1, <2>2, <2>3 DEF IInv, TypeOK, settings
  <2>5. QueueInv'
    BY <2>1, <2>2, <2>3 DEF IInv, TypeOK, QueueInv, Wanted
  <2>6. LedsSettle'
    BY <2>1, <2>2, <2>3 DEF IInv, TypeOK, LedsSettle, Wanted, Lit
  <2> QED BY <1>4, <2>3, <2>4, <2>5, <2>6 DEF IInv
<1>6. ASSUME NEW l \in Leds, StartWork(l) PROVE IInv'
  <2>1. TypeOK'
    BY <1>6 DEF StartWork, IInv, TypeOK, settings
  <2>2. QueueInv'
    BY <1>6 DEF StartWork, IInv, TypeOK, QueueInv, Wanted
  <2>3. LedsSettle'
    BY <1>6 DEF StartWork, IInv, TypeOK, LedsSettle, Wanted, Lit
  <2> QED BY <1>4, <1>6, <2>1, <2>2, <2>3 DEF IInv, StartWork
<1>7. ASSUME NEW l \in Leds, BrightnessSet(l) PROVE IInv'
  <2>1. TypeOK'
    BY <1>7 DEF BrightnessSet, DoneWith, IInv, TypeOK, settings
  <2>2. QueueInv'
    BY <1>7 DEF BrightnessSet, DoneWith, IInv, TypeOK, QueueInv, Wanted
  <2>3. LedsSettle'
    BY <1>7 DEF BrightnessSet, DoneWith, IInv, TypeOK, QueueInv, LedsSettle, Wanted, Lit
  <2> QED BY <1>4, <1>7, <2>1, <2>2, <2>3 DEF IInv, BrightnessSet
<1>8. ASSUME NEW l \in Leds, BrightnessFails(l) PROVE IInv'
  <2>1. TypeOK'
    BY <1>8 DEF BrightnessFails, DoneWith, IInv, TypeOK, settings
  <2>2. QueueInv'
    BY <1>8 DEF BrightnessFails, DoneWith, IInv, TypeOK, QueueInv, Wanted
  <2>3. LedsSettle'
    BY <1>8 DEF BrightnessFails, DoneWith, IInv, TypeOK, LedsSettle, Wanted, Lit
  <2> QED BY <1>4, <1>8, <2>1, <2>2, <2>3 DEF IInv, BrightnessFails
<1>9. CASE Bind
  <2>1. TypeOK'
    BY <1>9 DEF Bind, IInv, TypeOK
  <2>3. SettingsInv'
    BY <1>9 DEF Bind, SettingsInv, Matches
  <2>2. QueueInv' /\ LedsSettle'
    BY <1>9 DEF Bind, IInv, TypeOK, QueueInv, LedsSettle
  <2> QED BY <2>1, <2>2, <2>3 DEF IInv
<1>10. CASE Unbind
  <2>1. TypeOK'
    BY <1>10 DEF Unbind, TurnOff, IInv, TypeOK, settings
  <2>2. QueueInv' /\ LedsSettle'
    BY <1>10 DEF Unbind, TurnOff, IInv, QueueInv, LedsSettle, Wanted, Byte
  <2> QED BY <1>4, <1>10, <2>1, <2>2 DEF IInv, Unbind
<1>11. CASE Unbound
  <2>1. TypeOK' /\ QueueInv'
    BY <1>11 DEF Unbound, Flushed, IInv, TypeOK, QueueInv, settings, ledVars
  <2>2. LedsSettle'
    BY <1>11 DEF Unbound, IInv, LedsSettle, Wanted, Lit, ledVars
  <2> QED BY <1>4, <1>11, <2>1, <2>2 DEF IInv, Unbound
<1>12. CASE Suspend
  <2>1. TypeOK'
    BY <1>12 DEF Suspend, TurnOff, IInv, TypeOK, settings
  <2>2. QueueInv' /\ LedsSettle'
    BY <1>12 DEF Suspend, TurnOff, IInv, QueueInv, LedsSettle, Wanted, Byte
  <2> QED BY <1>4, <1>12, <2>1, <2>2 DEF IInv, Suspend
<1>13. CASE Suspended
  <2>1. TypeOK' /\ QueueInv'
    BY <1>13 DEF Suspended, Flushed, IInv, TypeOK, QueueInv, settings, ledVars
  <2>2. LedsSettle'
    BY <1>13 DEF Suspended, IInv, LedsSettle, Wanted, Lit, ledVars
  <2> QED BY <1>4, <1>13, <2>1, <2>2 DEF IInv, Suspended
<1>14. CASE WakeWithoutFirmware
  <2>1. TypeOK' /\ QueueInv'
    BY <1>14 DEF WakeWithoutFirmware, IInv, TypeOK, QueueInv, settings, ledVars
  <2>2. LedsSettle'
    BY <1>14 DEF WakeWithoutFirmware, IInv, LedsSettle, Wanted, Lit, ledVars
  <2> QED BY <1>4, <1>14, <2>1, <2>2 DEF IInv, WakeWithoutFirmware
<1>15. CASE WakeFromFirmware
  <2>1. ec' \in [Leds -> Byte]
    BY <1>15 DEF WakeFromFirmware, Byte
  <2>3. TypeOK'
    BY <1>15, <2>1, ControlsAssumption DEF WakeFromFirmware, IInv, TypeOK
  <2>4. SettingsInv'
    BY <1>15 DEF WakeFromFirmware, SettingsInv, Matches
  <2>2. QueueInv' /\ LedsSettle'
    BY <1>15 DEF WakeFromFirmware, IInv, QueueInv, LedsSettle
  <2> QED BY <2>2, <2>3, <2>4 DEF IInv
<1>16. CASE Resume
  <2>1. TypeOK'
    BY <1>16 DEF Resume, IInv, TypeOK, settings
  <2>2. QueueInv' /\ LedsSettle'
    BY <1>16 DEF Resume, IInv, TypeOK, QueueInv, LedsSettle, Wanted
  <2> QED BY <1>4, <1>16, <2>1, <2>2 DEF IInv, Resume
<1>17. CASE UNCHANGED vars
  <2>1. TypeOK' /\ QueueInv'
    BY <1>17 DEF vars, settings, ledVars, IInv, TypeOK, QueueInv, Wanted
  <2>2. LedsSettle'
    BY <1>17 DEF vars, ledVars, IInv, LedsSettle, Wanted, Lit
  <2> QED BY <1>4, <1>17, <2>1, <2>2 DEF IInv, vars
<1> QED
  BY <1>1, <1>2, <1>3, <1>5, <1>6, <1>7, <1>8, <1>9, <1>10, <1>11, <1>12, <1>13,
     <1>14, <1>15, <1>16, <1>17 DEF Next

LEMMA Invariant == Spec => []IInv
BY InitInv, StepInv, PTL DEF Spec

-----------------------------------------------------------------------------
(* Theorems.                                                               *)

\* Every variable keeps its type: whatever is stored fits its register.
THEOREM TypeCorrect == Spec => []TypeOK
BY Invariant, PTL DEF IInv

\* What was stored in the threshold, the camera or a limit is what a read shows,
\* and within the limits, unless it was negative.
THEOREM ShowAsStored == Spec => []SettingsShowAsStored
<1>1. IInv => SettingsShowAsStored
  BY DEF IInv, SettingsInv, Matches, SettingsShowAsStored
<1> QED BY <1>1, Invariant, PTL

\* With no work left every LED is as the LED core wants it, over any sets,
\* failing calls, sleeps and rebinds.
THEOREM Settle == Spec => []LedsSettle
BY Invariant, PTL DEF IInv

-----------------------------------------------------------------------------
(* The platform profile.                                                   *)

\* Who is in profile_store, and that nobody is while the machine sleeps.
SetterInv ==
  /\ step = "none" <=> setter = Nobody
  /\ pc = "unbound" => setter = Nobody
  /\ pm # "up" => setter = Nobody /\ pc \in {"unbound", "bound"}

\* What the seed has read is still in the register, unless a set raced it.
SeedInv ==
  /\ pc = "seeded" /\ doubt = {} => shift = seen
  /\ pc # "bound" /\ step = "cache" => doubt # {}

\* The register agrees with the cache but between the two writes of a set and
\* between a reset and its repair.
CacheInv ==
  /\ step = "cache" => shift = option
  /\ pc = "bound" /\ doubt = {} /\ step # "cache" /\ pm # "reset" => shift = cur

ProfileInv == ProfileTypeOK /\ SetterInv /\ SeedInv /\ CacheInv

LEMMA ProfileStart == ProfileInit => ProfileInv
  BY ProfileAssumption DEF ProfileInit, ProfileInv, ProfileTypeOK, SetterInv, SeedInv, CacheInv, Shifts

LEMMA ProfileStep == ProfileInv /\ [ProfileNext]_profileVars => ProfileInv'
<1> SUFFICES ASSUME ProfileInv, [ProfileNext]_profileVars PROVE ProfileInv'
  OBVIOUS
<1> USE ProfileAssumption DEF ProfileInv, ProfileTypeOK, SetterInv, SeedInv, CacheInv, Shifts
<1>1. CASE Register
  BY <1>1 DEF Register
<1>2. CASE SeedRead
  BY <1>2 DEF SeedRead
<1>3. CASE SeedFails
  BY <1>3 DEF SeedFails
<1>4. CASE SeedStore
  BY <1>4 DEF SeedStore
<1>5. CASE Unregister
  BY <1>5 DEF Unregister
<1>6. ASSUME NEW t \in Tasks, NEW p \in Choices, Store(t, p) PROVE ProfileInv'
  BY <1>6 DEF Store
<1>7. CASE Apply
  BY <1>7 DEF Apply, Raced
<1>8. CASE Refused
  BY <1>8 DEF Refused, Leave
<1>9. CASE ReplyLost
  BY <1>9 DEF ReplyLost, Leave, Raced
<1>10. CASE Cache
  BY <1>10 DEF Cache, Leave
<1>11. CASE FallAsleep
  BY <1>11 DEF FallAsleep
<1>12. CASE WakeKept
  BY <1>12 DEF WakeKept
<1>13. CASE WakeReset
  BY <1>13 DEF WakeReset
<1>14. CASE Reapply
  BY <1>14 DEF Reapply
<1>15. CASE ReapplyFails
  BY <1>15 DEF ReapplyFails
<1>16. CASE Thaw
  BY <1>16 DEF Thaw
<1>17. CASE UNCHANGED profileVars
  BY <1>17 DEF profileVars
<1> QED
  BY <1>1, <1>2, <1>3, <1>4, <1>5, <1>6, <1>7, <1>8, <1>9, <1>10, <1>11, <1>12,
     <1>13, <1>14, <1>15, <1>16, <1>17 DEF ProfileNext

\* The inductive invariant holds in every reachable state.
THEOREM ProfileInvariance == ProfileSpec => []ProfileInv
  BY ProfileStart, ProfileStep, PTL DEF ProfileSpec

\* Every variable keeps its type, whatever the EC holds and answers.
THEOREM ProfileTypeCorrect == ProfileSpec => []ProfileTypeOK
<1>1. ProfileInv => ProfileTypeOK
  BY DEF ProfileInv
<1> QED
  BY <1>1, ProfileInvariance, PTL

\* profile_set and profile_resume keep data->cur_profile and the register in
\* step through any number of sets, sleeps and rebinds.
THEOREM CacheIsCurrent == ProfileSpec => []CacheFollowsEc
<1>1. ProfileInv => CacheFollowsEc
  BY DEF ProfileInv, SetterInv, CacheInv, CacheFollowsEc, Settled
<1> QED
  BY <1>1, ProfileInvariance, PTL
=============================================================================
