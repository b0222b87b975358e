---------------------------- MODULE BindingProofs ----------------------------
(* Proofs about Binding, for any machines, parameters and users.           *)
EXTENDS Binding, SequenceTheorems, TLAPS

\* What the driver enters in devres.
Entries ==
  {Memory(n) : n \in {"data", "PL1", "PL2", "debugfs"} \union Leds}
    \union {Registered(n) : n \in {"fwdev", "attributes", "debugfs", "hwmon",
                                   "profile", "camera"} \union Leds}

\* What user tasks can reach, or are in.
Reach == (open \union {busy[u] : u \in Users}) \ {None}

Probing == {"wmi", "ecid", "ec", "fwattrs", "debugfs", "detect"}
Unused  == {"unloaded", "unbound"}

\* probe is in the loop over the features up to the last of them.
PlaceInv ==
  /\ pc = "setup" => next <= Len(Order)
  /\ pc \in Probing => next = 1

\* The driver data lies at the bottom of the stack, and the memory of a LED
\* below the LED.
StackInv ==
  /\ devres \in Seq(Entries)
  /\ devres = <<>> => pc \in Unused \union {"unwind"}
  /\ pc \in Unused => devres = <<>>
  /\ devres # <<>> => devres[1] = Memory("data")
  /\ \A k \in 1 .. Len(devres) : \A l \in Leds :
       devres[k] = Registered(l) => \E j \in 1 .. k - 1 : devres[j] = Memory(l)

\* What can be reached was registered and not released: what devres does not
\* know of, the battery extension, goes before devres releases anything.
ReachInv ==
  /\ \A i \in Reach \ {"charge"} : \E k \in 1 .. Len(devres) : i \in Behind(devres[k])
  /\ "charge" \in Reach =>
       /\ pc \in {"setup", "bound", "unhook"}
       /\ pc = "setup" => next > 3
       /\ pc # "unhook" => "charge" \in features

\* The gate is closed until the features are detected, and what it has let
\* through once it lets through until the driver is unbound.
GateInv ==
  /\ "modern" \in caps => machine.major >= 2
  /\ "tigerlake" \in caps => machine.tigerlake
  /\ pc \in Probing => open \intersect Controls = {}
  /\ pc = "setup" /\ features \intersect {"profile", "charge", "fan_curves", "leds"} # {} =>
       ControlSupported
  /\ open \intersect Controls # {} => ControlSupported
  /\ "pwm" \in open => "fan_curves" \in features

IInv == TypeOK /\ PlaceInv /\ StackInv /\ ReachInv /\ GateInv

-----------------------------------------------------------------------------
(* The tables of the driver.                                               *)

LEMMA Names ==
  /\ Leds = {"micmute", "mute", "kbd_backlight", "usb_backlight"}
  /\ Features = {"hwmon", "profile", "charge", "fan_curves", "leds", "camera"}
  /\ Len(LedNames) = 4 /\ Len(Order) = 6
  /\ \A k \in 1 .. 4 : LedNames[k] \in Leds
<1>1. Leds = {LedNames[k] : k \in 1 .. 4}
  BY DEF Leds, LedNames, ToSet
<1>2. Features = {Order[k] : k \in 1 .. 6}
  BY DEF Features, Order, ToSet
<1>3. Leds = {"micmute", "mute", "kbd_backlight", "usb_backlight"}
  BY <1>1 DEF LedNames
<1>4. Features = {"hwmon", "profile", "charge", "fan_curves", "leds", "camera"}
  BY <1>2 DEF Order
<1> QED
  BY <1>1, <1>3, <1>4 DEF LedNames, Order

LEMMA DueIs ==
  ASSUME next \in 1 .. 6
  PROVE  /\ Due \in Features
         /\ Due = "hwmon" <=> next = 1
         /\ Due = "profile" <=> next = 2
         /\ Due = "charge" <=> next = 3
         /\ Due = "fan_curves" <=> next = 4
         /\ Due = "leds" <=> next = 5
         /\ Due = "camera" <=> next = 6
<1>1. Due = Order[next]
  BY Names DEF Due
<1> QED
  BY <1>1, Names DEF Order

LEMMA BehindIs ==
  /\ \A n \in {"data", "PL1", "PL2", "debugfs"} \union Leds : Behind(Memory(n)) = {}
  /\ Behind(Registered("attributes")) = {"PL1", "PL2"}
  /\ Behind(Registered("hwmon")) = {"hwmon", "pwm"}
  /\ \A n \in {"debugfs", "profile", "camera"} \union Leds : Behind(Registered(n)) = {n}
<1>1. \A n : Memory(n).kind = "memory" /\ Registered(n).kind = "registered"
             /\ Registered(n).of = n
  BY DEF Memory, Registered
<1>2. ASSUME NEW n \in {"data", "PL1", "PL2", "debugfs"} \union Leds
      PROVE  Behind(Memory(n)) = {}
  <2>1. Memory(n).of # "attributes" /\ Memory(n).of # "hwmon"
    BY Names DEF Memory
  <2> QED
    BY <1>1, <2>1 DEF Behind
<1>3. Behind(Registered("attributes")) = {"PL1", "PL2"}
  BY <1>1 DEF Behind
<1>4. Behind(Registered("hwmon")) = {"hwmon", "pwm"}
  BY <1>1 DEF Behind
<1>5. ASSUME NEW n \in {"debugfs", "profile", "camera"} \union Leds
      PROVE  Behind(Registered(n)) = {n}
  <2>1. n # "attributes" /\ n # "hwmon"
    BY Names
  <2> QED
    BY <1>1, <2>1 DEF Behind
<1> QED
  BY <1>2, <1>3, <1>4, <1>5

\* An entry that hides something is registered.
LEMMA LedBehind ==
  ASSUME NEW e \in Entries, NEW l \in Leds, l \in Behind(e)
  PROVE  e = Registered(l)
  BY Names DEF Entries, Behind, Memory, Registered

-----------------------------------------------------------------------------
(* The devres stack.                                                       *)

\* What was on it is still there, at the same place.
Kept == \A k \in 1 .. Len(devres) : k \in 1 .. Len(devres') /\ devres'[k] = devres[k]

LEMMA Push ==
  ASSUME devres \in Seq(Entries), NEW e \in Entries, devres' = Append(devres, e)
  PROVE  /\ devres' \in Seq(Entries) /\ Kept
         /\ Len(devres') = Len(devres) + 1 /\ devres'[Len(devres) + 1] = e
  BY DEF Kept

LEMMA PushTwo ==
  ASSUME devres \in Seq(Entries), NEW d \in Entries, NEW e \in Entries,
         devres' = devres \o <<d, e>>
  PROVE  /\ devres' \in Seq(Entries) /\ Kept
         /\ Len(devres') = Len(devres) + 2
         /\ devres'[Len(devres) + 1] = d /\ devres'[Len(devres) + 2] = e
  BY DEF Kept

LEMMA Pop ==
  ASSUME devres \in Seq(Entries), devres # <<>>, devres' = Front(devres)
  PROVE  /\ devres' \in Seq(Entries)
         /\ Len(devres') = Len(devres) - 1
         /\ \A k \in 1 .. Len(devres') : devres'[k] = devres[k]
         /\ Last(devres) \in Entries /\ Last(devres) = devres[Len(devres)]
         /\ Len(devres) \in Nat \ {0}
<1>1. Len(devres) \in Nat \ {0}
  OBVIOUS
<1>2. devres' = SubSeq(devres, 1, Len(devres) - 1) /\ Last(devres) = devres[Len(devres)]
  BY DEF Front, Last
<1>3. devres' \in Seq(Entries) /\ Len(devres') = Len(devres) - 1
      /\ \A k \in 1 .. Len(devres') : devres'[k] = devres[k]
  <2> DEFINE n == Len(devres) - 1
  <2>1. 1 \in Int /\ n \in Nat /\ \A i \in 1 .. n : devres[i] \in Entries
    BY <1>1
  <2> HIDE DEF n
  <2>2. /\ SubSeq(devres, 1, n) \in Seq(Entries)
        /\ Len(SubSeq(devres, 1, n)) = IF 1 <= n THEN n - 1 + 1 ELSE 0
        /\ \A i \in 1 .. n - 1 + 1 : SubSeq(devres, 1, n)[i] = devres[1 + i - 1]
    BY <2>1, SubSeqProperties
  <2>3. devres' = SubSeq(devres, 1, n)
    BY <1>2 DEF n
  <2>4. (IF 1 <= n THEN n - 1 + 1 ELSE 0) = n
    BY <2>1
  <2>5. devres' \in Seq(Entries) /\ Len(devres') = n
    BY <2>2, <2>3, <2>4
  <2>6. ASSUME NEW k \in 1 .. n PROVE devres'[k] = devres[k]
    <3>1. k \in 1 .. n - 1 + 1 /\ 1 + k - 1 = k
      BY <2>1
    <3> QED
      BY <2>2, <2>3, <3>1, Zenon
  <2>7. n = Len(devres) - 1
    BY DEF n
  <2> QED
    BY <2>5, <2>6, <2>7
<1>4. devres[Len(devres)] \in Entries
  BY <1>1
<1> QED
  BY <1>1, <1>2, <1>3, <1>4

\* A push leaves what is behind the entries behind them.
LEMMA PushReach ==
  ASSUME ReachInv, Kept, busy' = busy, NEW n \in 1 .. Len(devres'),
         open' \ open \subseteq Behind(devres'[n])
  PROVE  \A i \in Reach' \ {"charge"} : \E k \in 1 .. Len(devres') : i \in Behind(devres'[k])
  BY DEF ReachInv, Kept, Reach

\* The bottom of the stack and the LEDs' memory stay where they are under a push
\* that brings a LED only with its memory.
LEMMA PushStack ==
  ASSUME StackInv, devres # <<>>, Kept, devres' \in Seq(Entries), pc' \notin Unused,
         \A k \in Len(devres) + 1 .. Len(devres') : \A l \in Leds :
           devres'[k] = Registered(l) => \E j \in 1 .. k - 1 : devres'[j] = Memory(l)
  PROVE  StackInv'
<1>1. Len(devres) \in Nat \ {0} /\ Len(devres') \in Nat
  BY DEF StackInv
<1>2. devres' # <<>> /\ devres'[1] = Memory("data")
  BY <1>1 DEF StackInv, Kept
<1>3. ASSUME NEW k \in 1 .. Len(devres'), NEW l \in Leds, devres'[k] = Registered(l)
      PROVE  \E j \in 1 .. k - 1 : devres'[j] = Memory(l)
  <2>1. CASE k \in 1 .. Len(devres)
    <3>1. devres[k] = Registered(l)
      BY <1>3, <2>1 DEF Kept
    <3>2. PICK j \in 1 .. k - 1 : devres[j] = Memory(l)
      BY <2>1, <3>1 DEF StackInv
    <3>3. j \in 1 .. Len(devres)
      BY <1>1, <2>1
    <3> QED
      BY <3>2, <3>3 DEF Kept
  <2>2. CASE k \in Len(devres) + 1 .. Len(devres')
    BY <1>3, <2>2
  <2> QED
    BY <1>1, <2>1, <2>2
<1> QED
  BY <1>2, <1>3 DEF StackInv

\* The same for one entry that is not a LED.
LEMMA PushOther ==
  ASSUME StackInv, devres # <<>>, pc' \notin Unused, NEW e \in Entries,
         devres' = Append(devres, e), \A l \in Leds : e # Registered(l)
  PROVE  StackInv'
<1>1. Len(devres) \in Nat /\ devres \in Seq(Entries)
  BY DEF StackInv
<1>2. /\ devres' \in Seq(Entries) /\ Kept
      /\ Len(devres') = Len(devres) + 1 /\ devres'[Len(devres) + 1] = e
  BY <1>1, Push
<1>3. \A k \in Len(devres) + 1 .. Len(devres') : devres'[k] = e
  BY <1>1, <1>2
<1> QED
  BY <1>2, <1>3, PushStack

LEMMA OtherEntries ==
  /\ \A n \in {"PL1", "PL2", "debugfs"} :
       Memory(n) \in Entries /\ \A l \in Leds : Memory(n) # Registered(l)
  /\ \A n \in {"fwdev", "attributes", "debugfs", "hwmon", "profile", "camera"} :
       Registered(n) \in Entries /\ \A l \in Leds : Registered(n) # Registered(l)
  BY Names DEF Entries, Memory, Registered

\* A step that leaves the stack and what can be reached alone.
LEMMA SameStack ==
  ASSUME IInv, UNCHANGED <<devres, open, busy>>, pc # "unwind", pc' \notin Unused,
         pc \notin Unused
  PROVE  /\ StackInv'
         /\ \A i \in Reach' \ {"charge"} : \E k \in 1 .. Len(devres') : i \in Behind(devres'[k])
  BY DEF IInv, StackInv, ReachInv, Reach

-----------------------------------------------------------------------------
(* Each step keeps the invariant.                                          *)

LEMMA InitInv == Init => IInv
<1> SUFFICES ASSUME Init PROVE IInv
  OBVIOUS
<1> USE DEF Init
<1>1. TypeOK
  BY Names DEF TypeOK, Models
<1>2. PlaceInv
  BY DEF PlaceInv, Probing
<1>3. StackInv
  <2>1. devres \in Seq(Entries) /\ Len(devres) = 0
    OBVIOUS
  <2> QED
    BY <2>1 DEF StackInv, Unused
<1>4. ReachInv
  BY DEF ReachInv, Reach
<1>5. GateInv
  BY DEF GateInv, Probing
<1> QED
  BY <1>1, <1>2, <1>3, <1>4, <1>5 DEF IInv

\* While the driver is not bound nothing can be reached.
LEMMA NothingReached ==
  ASSUME IInv, devres = <<>>, pc \in Unused \union {"unwind"}
  PROVE  Reach = {} /\ open = {}
<1>1. Len(devres) = 0
  OBVIOUS
<1>2. Reach = {}
  BY <1>1 DEF IInv, ReachInv, Unused
<1> QED
  BY <1>2, NoneAssumption DEF Reach, IInv, TypeOK

LEMMA LoadInv ==
  ASSUME IInv, Load
  PROVE  IInv'
<1> USE DEF IInv, Load
<1> USE DEF driverVars
<1>0. Reach = {} /\ open = {}
  BY NothingReached DEF StackInv, Unused
<1>1. TypeOK'
  BY DEF TypeOK
<1>2. PlaceInv'
  BY DEF PlaceInv, Probing
<1>3. StackInv'
  BY DEF StackInv, Unused
<1>4. ReachInv'
  BY DEF ReachInv, Reach
<1>5. GateInv'
  BY <1>0, Names DEF GateInv, Probing, Reach, Unused
<1> QED
  BY <1>1, <1>2, <1>3, <1>4, <1>5

LEMMA UnloadInv ==
  ASSUME IInv, Unload
  PROVE  IInv'
<1> USE DEF IInv, Unload
<1> USE DEF driverVars
<1>0. Reach = {} /\ open = {}
  BY NothingReached DEF StackInv, Unused
<1>1. TypeOK'
  BY DEF TypeOK
<1>2. PlaceInv'
  BY DEF PlaceInv, Probing
<1>3. StackInv'
  BY DEF StackInv, Unused
<1>4. ReachInv'
  BY DEF ReachInv, Reach
<1>5. GateInv'
  BY <1>0 DEF GateInv, Probing, Reach, Unused
<1> QED
  BY <1>1, <1>2, <1>3, <1>4, <1>5

LEMMA BindInv ==
  ASSUME IInv, Bind
  PROVE  IInv'
<1> USE DEF IInv, Bind
<1>0. Reach = {} /\ open = {} /\ machine.dmi \in Models
  BY NothingReached, MachinesAssumption DEF TypeOK, StackInv, Unused, Machine
<1>1. TypeOK'
  BY <1>0, Names DEF TypeOK
<1>2. PlaceInv'
  BY DEF PlaceInv, Probing
<1>3. StackInv'
  <2>1. Memory("data") \in Entries /\ \A l \in Leds : Memory("data") # Registered(l)
    BY DEF Entries, Memory, Registered
  <2>2. Len(devres') = 1 /\ devres'[1] = Memory("data") /\ devres' \in Seq(Entries)
    BY <2>1
  <2> QED
    BY <2>1, <2>2 DEF StackInv, Unused
<1>4. ReachInv'
  BY <1>0 DEF ReachInv, Reach
<1>5. GateInv'
  BY <1>0 DEF GateInv, Probing, Reach
<1> QED
  BY <1>1, <1>2, <1>3, <1>4, <1>5

LEMMA ReadInterfaceInv ==
  ASSUME IInv, ReadInterface
  PROVE  IInv'
<1> USE DEF IInv, ReadInterface
<1>1. TypeOK'
  BY Names DEF TypeOK
<1>2. PlaceInv'
  BY DEF PlaceInv, Probing
<1>3. StackInv'
  BY SameStack DEF Unused
<1>4. ReachInv'
  BY DEF ReachInv, Reach
<1>5. GateInv'
  BY DEF GateInv, Probing, ControlSupported
<1> QED
  BY <1>1, <1>2, <1>3, <1>4, <1>5

LEMMA MatchEcInv ==
  ASSUME IInv, MatchEc
  PROVE  IInv'
<1> USE DEF IInv, MatchEc
<1>1. TypeOK'
  BY MachinesAssumption DEF TypeOK, Machine
<1>2. PlaceInv'
  BY DEF PlaceInv, Probing
<1>3. StackInv'
  BY SameStack DEF Unused
<1>4. ReachInv'
  BY DEF ReachInv, Reach
<1>5. GateInv'
  BY DEF GateInv, Probing
<1> QED
  BY <1>1, <1>2, <1>3, <1>4, <1>5

LEMMA ReadEcInv ==
  ASSUME IInv, ReadEc
  PROVE  IInv'
<1> USE DEF IInv, ReadEc
<1>1. TypeOK'
  BY DEF TypeOK, Presence
<1>2. PlaceInv'
  BY DEF PlaceInv, Probing
<1>3. StackInv'
  BY SameStack DEF Unused
<1>4. ReachInv'
  BY DEF ReachInv, Reach
<1>5. GateInv'
  BY DEF GateInv, Probing, Presence
<1> QED
  BY <1>1, <1>2, <1>3, <1>4, <1>5

LEMMA DetectInv ==
  ASSUME IInv, Detect
  PROVE  IInv'
<1> USE DEF IInv, Detect
<1>1. TypeOK'
  BY Names DEF TypeOK, Detected
<1>2. PlaceInv'
  BY Names DEF PlaceInv, Probing
<1>3. StackInv'
  BY SameStack DEF Unused
<1>4. ReachInv'
  BY DEF ReachInv, Reach
<1>5. GateInv'
  BY DEF GateInv, Probing, Detected, ControlSupported, Controls
<1> QED
  BY <1>1, <1>2, <1>3, <1>4, <1>5

LEMMA SkipFeatureInv ==
  ASSUME IInv, SkipFeature
  PROVE  IInv'
<1> USE DEF IInv, SkipFeature
<1>0. next \in 1 .. 6
  BY Names DEF TypeOK, PlaceInv
<1>1. TypeOK'
  BY <1>0, Names DEF TypeOK
<1>2. PlaceInv'
  BY Names DEF PlaceInv, TypeOK, Probing
<1>3. StackInv'
  BY SameStack DEF Unused
<1>4. ReachInv'
  BY <1>0, DueIs DEF ReachInv, Reach
<1>5. GateInv'
  BY DEF GateInv, Probing, ControlSupported
<1> QED
  BY <1>1, <1>2, <1>3, <1>4, <1>5

LEMMA SetupFailsInv ==
  ASSUME IInv, SetupFails
  PROVE  IInv'
<1> USE DEF IInv, SetupFails
<1>0. next \in 1 .. 6
  BY Names DEF TypeOK, PlaceInv
<1>1. TypeOK'
  BY Names DEF TypeOK
<1>2. PlaceInv'
  BY Names DEF PlaceInv, TypeOK, Probing
<1>3. StackInv'
  BY SameStack DEF Unused
<1>4. ReachInv'
  BY <1>0, DueIs DEF ReachInv, Reach
<1>5. GateInv'
  BY <1>0, DueIs DEF GateInv, Probing, ControlSupported
<1> QED
  BY <1>1, <1>2, <1>3, <1>4, <1>5

LEMMA SetupFanCurvesInv ==
  ASSUME IInv, SetupFanCurves
  PROVE  IInv'
<1> USE DEF IInv, SetupFanCurves
<1>0. next \in 1 .. 6
  BY Names DEF TypeOK, PlaceInv
<1>1. TypeOK'
  BY <1>0, Names DEF TypeOK, SetupDone
<1>2. PlaceInv'
  BY <1>0, DueIs, Names DEF PlaceInv, Probing, SetupDone
<1>3. StackInv'
  BY SameStack DEF Unused, SetupDone
<1>4. ReachInv'
  BY <1>0, DueIs DEF ReachInv, Reach, SetupDone
<1>5. GateInv'
  BY DEF GateInv, Probing, ControlSupported, SetupDone
<1> QED
  BY <1>1, <1>2, <1>3, <1>4, <1>5

LEMMA ProbeFailsInv ==
  ASSUME IInv, ProbeFails
  PROVE  IInv'
<1> USE DEF IInv, ProbeFails
<1> USE DEF driverVars
<1>0. pc = "setup" => next \in 1 .. 6
  BY Names DEF TypeOK, PlaceInv
<1>1. TypeOK'
  BY DEF TypeOK
<1>2. PlaceInv'
  BY DEF PlaceInv, Probing
<1>3. StackInv'
  BY SameStack DEF Unused
<1>4. ReachInv'
  BY <1>0, DueIs DEF ReachInv, Reach, Required
<1>5. GateInv'
  BY DEF GateInv, Probing, ControlSupported, driverVars
<1> QED
  BY <1>1, <1>2, <1>3, <1>4, <1>5

LEMMA RemoveDriverInv ==
  ASSUME IInv, RemoveDriver
  PROVE  IInv'
<1> USE DEF IInv, RemoveDriver
<1> USE DEF driverVars
<1>1. TypeOK'
  BY DEF TypeOK
<1>2. PlaceInv'
  BY DEF PlaceInv, Probing
<1>3. StackInv'
  BY SameStack DEF Unused
<1>4. ReachInv'
  BY DEF ReachInv, Reach
<1>5. GateInv'
  BY DEF GateInv, Probing, ControlSupported
<1> QED
  BY <1>1, <1>2, <1>3, <1>4, <1>5

LEMMA FirmwareAttrsInv ==
  ASSUME IInv, FirmwareAttrs
  PROVE  IInv'
<1> USE DEF IInv, driverVars
<1> DEFINE todo == {"fwdev", "attributes"} \ {e.of : e \in Owned(devres)}
           left == model.limits \ open
<1>1. /\ pc = "fwattrs" /\ UNCHANGED <<machine, params, driverVars, busy>>
      /\ \/ /\ devres' = Append(devres, Registered("fwdev"))
            /\ UNCHANGED <<pc, open>>
         \/ /\ devres' = Append(devres, Registered("attributes"))
            /\ UNCHANGED <<pc, open>>
         \/ /\ todo = {}
            /\ \E l \in {"PL1", "PL2"} :
                 devres' = Append(devres, Memory(l)) /\ open' = open \union {l}
            /\ UNCHANGED pc
         \/ pc' = "debugfs" /\ UNCHANGED <<devres, open>>
  <2>1. /\ pc = "fwattrs" /\ UNCHANGED <<machine, params, driverVars, busy>>
        /\ CASE "fwdev" \in todo ->
                  /\ devres' = Append(devres, Registered("fwdev"))
                  /\ UNCHANGED <<pc, open>>
             [] todo = {"attributes"} ->
                  /\ devres' = Append(devres, Registered("attributes"))
                  /\ UNCHANGED <<pc, open>>
             [] todo = {} /\ left # {} ->
                  LET l == IF "PL1" \in left THEN "PL1" ELSE "PL2"
                  IN  /\ devres' = Append(devres, Memory(l))
                      /\ open' = open \union {l}
                      /\ UNCHANGED pc
             [] OTHER -> pc' = "debugfs" /\ UNCHANGED <<devres, open>>
    BY DEF FirmwareAttrs
  <2>2. "fwdev" \in todo \/ todo = {"attributes"} \/ todo = {}
    OBVIOUS
  <2> HIDE DEF todo, left
  <2>3. ASSUME todo = {}, left # {},
               LET l == IF "PL1" \in left THEN "PL1" ELSE "PL2"
               IN  /\ devres' = Append(devres, Memory(l))
                   /\ open' = open \union {l}
                   /\ UNCHANGED pc
        PROVE  /\ \E l \in {"PL1", "PL2"} :
                    devres' = Append(devres, Memory(l)) /\ open' = open \union {l}
               /\ UNCHANGED pc
    BY <2>3
  <2>4. CASE "fwdev" \in todo
    <3>1. todo # {"attributes"} /\ todo # {}
      BY <2>4
    <3> QED
      BY <2>1, <2>4, <3>1
  <2>5. CASE todo = {"attributes"}
    <3>1. "fwdev" \notin todo /\ todo # {}
      BY <2>5
    <3> QED
      BY <2>1, <2>5, <3>1
  <2>6. CASE todo = {}
    <3>1. "fwdev" \notin todo /\ todo # {"attributes"}
      BY <2>6
    <3> QED
      BY <2>1, <2>3, <2>6, <3>1
  <2> QED
    BY <2>2, <2>4, <2>5, <2>6
<1> HIDE DEF todo, left
<1>2. devres # <<>> /\ devres \in Seq(Entries)
  BY <1>1 DEF StackInv, Unused
<1>3. open' \subseteq open \union {"PL1", "PL2"}
  BY <1>1
<1>4. pc' \in {"fwattrs", "debugfs"}
  BY <1>1
<1>5. TypeOK'
  BY <1>1, <1>3, <1>4 DEF TypeOK, Interfaces
<1>6. PlaceInv'
  BY <1>1, <1>4 DEF PlaceInv, Probing
<1>7. StackInv'
  <2>1. CASE UNCHANGED devres
    BY <1>1, <1>2, <1>4, <2>1 DEF StackInv, Unused
  <2>2. ASSUME NEW e \in {Registered("fwdev"), Registered("attributes"),
                          Memory("PL1"), Memory("PL2")},
               devres' = Append(devres, e)
        PROVE  StackInv'
    <3>1. e \in Entries /\ \A l \in Leds : e # Registered(l)
      BY OtherEntries
    <3> QED
      BY <1>2, <1>4, <2>2, <3>1, PushOther DEF Unused
  <2> QED
    BY <1>1, <2>1, <2>2
<1>8. \A i \in Reach' \ {"charge"} : \E k \in 1 .. Len(devres') : i \in Behind(devres'[k])
  <2>1. CASE UNCHANGED <<devres, open>>
    BY <1>1, <2>1 DEF ReachInv, Reach
  <2>2. ASSUME NEW e \in {Registered("fwdev"), Registered("attributes")},
               devres' = Append(devres, e), UNCHANGED open
        PROVE  \A i \in Reach' \ {"charge"} :
                 \E k \in 1 .. Len(devres') : i \in Behind(devres'[k])
    <3>1. e \in Entries
      BY OtherEntries
    <3>2. Kept
      BY <1>2, <2>2, <3>1, Push
    <3> QED
      BY <1>1, <2>2, <3>2 DEF ReachInv, Reach, Kept
  <2>3. ASSUME todo = {}, NEW l \in {"PL1", "PL2"},
               devres' = Append(devres, Memory(l)), open' = open \union {l}
        PROVE  \A i \in Reach' \ {"charge"} :
                 \E k \in 1 .. Len(devres') : i \in Behind(devres'[k])
    <3>1. Kept
      BY <1>2, <2>3, OtherEntries, Push
    <3>2. PICK n \in 1 .. Len(devres) : devres[n].of = "attributes"
      <4>1. "attributes" \in {e.of : e \in Owned(devres)}
        BY <2>3 DEF todo
      <4> QED
        BY <1>2, <4>1 DEF Owned, ToSet
    <3>3. devres[n] = Registered("attributes")
      <4>1. devres[n] \in Entries
        BY <1>2
      <4> QED
        BY <3>2, <4>1, Names DEF Entries, Memory, Registered
    <3>4. n \in 1 .. Len(devres') /\ open' \ open \subseteq Behind(devres'[n])
      BY <2>3, <3>1, <3>3, BehindIs DEF Kept
    <3> QED
      BY <1>1, <2>3, <3>1, <3>4, PushReach
  <2> QED
    BY <1>1, <2>1, <2>2, <2>3
<1>9. ReachInv'
  BY <1>1, <1>3, <1>8 DEF ReachInv, Reach
<1>10. GateInv'
  BY <1>1, <1>3, <1>4, Names DEF GateInv, Probing, ControlSupported, Controls
<1> QED
  BY <1>5, <1>6, <1>7, <1>9, <1>10

LEMMA DebugfsInv ==
  ASSUME IInv, Debugfs
  PROVE  IInv'
<1> USE DEF IInv, driverVars, Debugfs
<1>1. devres # <<>> /\ devres \in Seq(Entries)
  BY DEF StackInv, Unused
<1>2. open' \subseteq open \union {"debugfs"}
  OBVIOUS
<1>3. TypeOK'
  BY <1>2 DEF TypeOK, Interfaces
<1>4. PlaceInv'
  BY DEF PlaceInv, Probing
<1>5. CASE UNCHANGED <<devres, open>>
  <2>1. StackInv'
    BY <1>5, SameStack DEF Unused
  <2>2. ReachInv'
    BY <1>5 DEF ReachInv, Reach
  <2>3. GateInv'
    BY <1>5 DEF GateInv, Probing
  <2> QED
    BY <1>3, <1>4, <2>1, <2>2, <2>3
<1>6. ASSUME devres' = devres \o <<Registered("debugfs"), Memory("debugfs")>>,
             open' = open \union {"debugfs"}
      PROVE  IInv'
  <2>1. /\ devres' \in Seq(Entries) /\ Kept
        /\ Len(devres') = Len(devres) + 2
        /\ devres'[Len(devres) + 1] = Registered("debugfs")
        /\ devres'[Len(devres) + 2] = Memory("debugfs")
    BY <1>1, <1>6, OtherEntries, PushTwo
  <2>2. Len(devres) \in Nat
    BY <1>1
  <2>3. StackInv'
    <3>1. \A k \in Len(devres) + 1 .. Len(devres') : \A l \in Leds :
            devres'[k] # Registered(l)
      BY <2>1, <2>2, OtherEntries
    <3> QED
      BY <1>1, <2>1, <3>1, PushStack DEF Unused
  <2>4. \A i \in Reach' \ {"charge"} : \E k \in 1 .. Len(devres') : i \in Behind(devres'[k])
    <3>1. Len(devres) + 1 \in 1 .. Len(devres')
      BY <2>1, <2>2
    <3>2. open' \ open \subseteq Behind(devres'[Len(devres) + 1])
      BY <1>6, <2>1, BehindIs
    <3> QED
      BY <1>6, <2>1, <3>1, <3>2, PushReach
  <2>5. ReachInv'
    BY <1>2, <2>4 DEF ReachInv, Reach
  <2>6. GateInv'
    BY <1>2, Names DEF GateInv, Probing, ControlSupported, Controls
  <2> QED
    BY <1>3, <1>4, <2>3, <2>5, <2>6
<1> QED
  BY <1>5, <1>6

LEMMA SetupHwmonInv ==
  ASSUME IInv, SetupHwmon
  PROVE  IInv'
<1> USE DEF IInv, driverVars, SetupHwmon, SetupDone
<1>0. next \in 1 .. 6
  BY Names DEF TypeOK, PlaceInv
<1>1. devres # <<>> /\ devres \in Seq(Entries) /\ pc' \notin Unused
  BY DEF StackInv, Unused
<1>2. TypeOK'
  BY <1>0, Names DEF TypeOK, Visible, Interfaces, Controls
<1>3. PlaceInv'
  BY <1>0, DueIs, Names DEF PlaceInv, Probing, SetupDone
<1>4. Registered("hwmon") \in Entries /\ \A l \in Leds : Registered("hwmon") # Registered(l)
  BY OtherEntries
<1>5. StackInv'
  BY <1>1, <1>4, PushOther
<1>6. /\ Kept /\ Len(devres) + 1 \in 1 .. Len(devres')
      /\ devres'[Len(devres) + 1] = Registered("hwmon")
  <2>1. Len(devres) \in Nat
    BY <1>1
  <2> QED
    BY <1>1, <1>4, <2>1, Push
<1>7. open' \ open \subseteq Behind(devres'[Len(devres) + 1])
  BY <1>6, BehindIs DEF Visible
<1>8. \A i \in Reach' \ {"charge"} : \E k \in 1 .. Len(devres') : i \in Behind(devres'[k])
  BY <1>6, <1>7, PushReach
<1>9. ReachInv'
  <2>1. "charge" \in Reach' => "charge" \in Reach
    BY DEF Reach, Visible
  <2> QED
    BY <1>0, <1>8, <2>1, DueIs DEF ReachInv
<1>10. GateInv'
  BY Names DEF GateInv, Probing, ControlSupported, Visible, Controls
<1> QED
  BY <1>2, <1>3, <1>5, <1>9, <1>10

LEMMA SetupProfileInv ==
  ASSUME IInv, SetupProfile
  PROVE  IInv'
<1> USE DEF IInv, driverVars, SetupProfile, SetupDone
<1>0. next \in 1 .. 6
  BY Names DEF TypeOK, PlaceInv
<1>1. devres # <<>> /\ devres \in Seq(Entries) /\ pc' \notin Unused
  BY DEF StackInv, Unused
<1>2. TypeOK'
  BY <1>0, Names DEF TypeOK, Interfaces, Controls
<1>3. PlaceInv'
  BY <1>0, DueIs, Names DEF PlaceInv, Probing, SetupDone
<1>4. Registered("profile") \in Entries /\ \A l \in Leds : Registered("profile") # Registered(l)
  BY OtherEntries
<1>5. StackInv'
  BY <1>1, <1>4, PushOther
<1>6. /\ Kept /\ Len(devres) + 1 \in 1 .. Len(devres')
      /\ devres'[Len(devres) + 1] = Registered("profile")
  <2>1. Len(devres) \in Nat
    BY <1>1
  <2> QED
    BY <1>1, <1>4, <2>1, Push
<1>7. open' \ open \subseteq Behind(devres'[Len(devres) + 1])
  BY <1>6, BehindIs DEF Visible
<1>8. \A i \in Reach' \ {"charge"} : \E k \in 1 .. Len(devres') : i \in Behind(devres'[k])
  BY <1>6, <1>7, PushReach
<1>9. ReachInv'
  <2>1. "charge" \in Reach' => "charge" \in Reach
    BY DEF Reach, Visible
  <2> QED
    BY <1>0, <1>8, <2>1, DueIs DEF ReachInv
<1>10. GateInv'
  BY <1>0, DueIs DEF GateInv, Probing, ControlSupported, Controls
<1> QED
  BY <1>2, <1>3, <1>5, <1>9, <1>10

LEMMA SetupCameraInv ==
  ASSUME IInv, SetupCamera
  PROVE  IInv'
<1> USE DEF IInv, driverVars, SetupCamera, SetupDone
<1>0. next \in 1 .. 6
  BY Names DEF TypeOK, PlaceInv
<1>1. devres # <<>> /\ devres \in Seq(Entries) /\ pc' \notin Unused
  BY DEF StackInv, Unused
<1>2. TypeOK'
  BY <1>0, Names DEF TypeOK, Interfaces
<1>3. PlaceInv'
  BY DEF PlaceInv, Probing
<1>4. Registered("camera") \in Entries /\ \A l \in Leds : Registered("camera") # Registered(l)
  BY OtherEntries
<1>5. StackInv'
  BY <1>1, <1>4, PushOther
<1>6. /\ Kept /\ Len(devres) + 1 \in 1 .. Len(devres')
      /\ devres'[Len(devres) + 1] = Registered("camera")
  <2>1. Len(devres) \in Nat
    BY <1>1
  <2> QED
    BY <1>1, <1>4, <2>1, Push
<1>7. open' \ open \subseteq Behind(devres'[Len(devres) + 1])
  BY <1>6, BehindIs DEF Visible
<1>8. \A i \in Reach' \ {"charge"} : \E k \in 1 .. Len(devres') : i \in Behind(devres'[k])
  BY <1>6, <1>7, PushReach
<1>9. ReachInv'
  <2>1. "charge" \in Reach' => "charge" \in Reach
    BY DEF Reach, Visible
  <2> QED
    BY <1>0, <1>8, <2>1, DueIs DEF ReachInv
<1>10. GateInv'
  BY <1>0, DueIs, Names DEF GateInv, Probing, ControlSupported, Controls
<1> QED
  BY <1>2, <1>3, <1>5, <1>9, <1>10

LEMMA SetupChargeInv ==
  ASSUME IInv, SetupCharge
  PROVE  IInv'
<1> USE DEF IInv, SetupCharge
<1> USE DEF SetupDone
<1>0. next \in 1 .. 6
  BY Names DEF TypeOK, PlaceInv
<1>1. TypeOK'
  BY <1>0, Names DEF TypeOK, Interfaces, Controls
<1>2. PlaceInv'
  BY <1>0, DueIs, Names DEF PlaceInv, Probing
<1>3. StackInv'
  BY DEF StackInv, Unused
<1>4. ReachInv'
  BY <1>0, DueIs DEF ReachInv, Reach
<1>5. GateInv'
  BY <1>0, DueIs DEF GateInv, Probing, ControlSupported, Controls
<1> QED
  BY <1>1, <1>2, <1>3, <1>4, <1>5

LEMMA SetupLedInv ==
  ASSUME IInv, SetupLed
  PROVE  IInv'
<1> USE DEF IInv
<1>0. next = 5 /\ led \in 1 .. 4
  BY Names, DueIs DEF SetupLed, TypeOK, PlaceInv
<1>1. PICK l \in Leds :
        /\ pc = "setup" /\ "leds" \in features
        /\ devres' = devres \o <<Memory(l), Registered(l)>> /\ open' = open \union {l}
        /\ next' \in {5, 6} /\ led' \in 1 .. 4
        /\ UNCHANGED <<machine, params, pc, model, caps, features, busy>>
  <2>1. LedNames[led] \in Leds
    BY <1>0, Names
  <2>2. (led < 4 => led + 1 \in 1 .. 4) /\ next + 1 = 6
    BY <1>0
  <2>3. /\ pc = "setup" /\ "leds" \in features
        /\ devres' = devres \o <<Memory(LedNames[led]), Registered(LedNames[led])>>
        /\ open' = open \union {LedNames[led]}
        /\ UNCHANGED <<machine, params, pc, model, caps, features, busy>>
    BY DEF SetupLed
  <2>4. next' \in {5, 6} /\ led' \in 1 .. 4
    BY <1>0, <2>2, Names DEF SetupLed
  <2> QED
    BY <2>1, <2>3, <2>4
<1>2. devres # <<>> /\ devres \in Seq(Entries) /\ pc' \notin Unused
  BY <1>1 DEF StackInv, Unused
<1>3. TypeOK'
  BY <1>1, Names DEF TypeOK, Interfaces, Controls
<1>4. PlaceInv'
  BY <1>1, Names DEF PlaceInv, Probing
<1>5. /\ devres' \in Seq(Entries) /\ Kept
      /\ Len(devres') = Len(devres) + 2
      /\ devres'[Len(devres) + 1] = Memory(l) /\ devres'[Len(devres) + 2] = Registered(l)
      /\ Len(devres) \in Nat
  <2>1. Memory(l) \in Entries /\ Registered(l) \in Entries
    BY DEF Entries
  <2> QED
    BY <1>1, <1>2, <2>1, PushTwo
<1>6. StackInv'
  <2>1. ASSUME NEW k \in Len(devres) + 1 .. Len(devres'), NEW m \in Leds,
               devres'[k] = Registered(m)
        PROVE  \E j \in 1 .. k - 1 : devres'[j] = Memory(m)
    <3>1. Memory(l) # Registered(m) /\ (Registered(l) = Registered(m) => l = m)
      BY DEF Memory, Registered
    <3>2. k = Len(devres) + 2 /\ l = m
      BY <1>5, <2>1, <3>1
    <3>3. Len(devres) + 1 \in 1 .. k - 1
      BY <1>5, <3>2
    <3> QED
      BY <1>5, <3>2, <3>3
  <2> QED
    BY <1>2, <1>5, <2>1, PushStack
<1>7. \A i \in Reach' \ {"charge"} : \E k \in 1 .. Len(devres') : i \in Behind(devres'[k])
  <2>1. Len(devres) + 2 \in 1 .. Len(devres')
    BY <1>5
  <2>2. open' \ open \subseteq Behind(devres'[Len(devres) + 2])
    BY <1>1, <1>5, BehindIs
  <2> QED
    BY <1>1, <1>5, <2>1, <2>2, PushReach
<1>8. ReachInv'
  <2>1. "charge" \in Reach' => "charge" \in Reach
    BY <1>1, Names DEF Reach
  <2> QED
    BY <1>0, <1>1, <1>7, <2>1 DEF ReachInv
<1>9. GateInv'
  BY <1>1, Names DEF GateInv, Probing, ControlSupported, Controls
<1> QED
  BY <1>3, <1>4, <1>6, <1>8, <1>9

LEMMA UnhookInv ==
  ASSUME IInv, Unhook
  PROVE  IInv'
<1> USE DEF IInv, Unhook
<1> USE DEF driverVars
<1>1. TypeOK'
  BY DEF TypeOK
<1>2. PlaceInv'
  BY DEF PlaceInv, Probing
<1>3. StackInv'
  BY DEF StackInv, Unused
<1>4. ReachInv'
  BY DEF ReachInv, Reach, Quiet
<1>5. GateInv'
  BY DEF GateInv, Probing, ControlSupported, Controls
<1> QED
  BY <1>1, <1>2, <1>3, <1>4, <1>5

LEMMA HideInv ==
  ASSUME IInv, Hide
  PROVE  IInv'
<1> USE DEF IInv, Hide
<1> USE DEF driverVars
<1>1. TypeOK'
  BY DEF TypeOK
<1>2. PlaceInv'
  BY DEF PlaceInv, Probing
<1>3. StackInv'
  BY DEF StackInv, Unused
<1>4. ReachInv'
  BY DEF ReachInv, Reach
<1>5. GateInv'
  BY DEF GateInv, Probing, ControlSupported, Controls
<1> QED
  BY <1>1, <1>2, <1>3, <1>4, <1>5

LEMMA ReleaseInv ==
  ASSUME IInv, Release
  PROVE  IInv'
<1> USE DEF IInv, Release, driverVars
<1>1. TypeOK'
  BY DEF TypeOK
<1>2. PlaceInv'
  BY DEF PlaceInv, Probing
<1>3. /\ devres' \in Seq(Entries)
      /\ Len(devres') = Len(devres) - 1
      /\ \A k \in 1 .. Len(devres') : devres'[k] = devres[k]
      /\ Last(devres) = devres[Len(devres)]
      /\ Len(devres) \in Nat \ {0}
  BY Pop DEF StackInv
<1>4. StackInv'
  <2>1. devres' # <<>> => devres'[1] = Memory("data")
    <3> SUFFICES ASSUME devres' # <<>> PROVE devres'[1] = Memory("data")
      OBVIOUS
    <3>1. 1 \in 1 .. Len(devres')
      BY <1>3
    <3> QED
      BY <1>3, <3>1 DEF StackInv
  <2>2. ASSUME NEW k \in 1 .. Len(devres'), NEW l \in Leds, devres'[k] = Registered(l)
        PROVE  \E j \in 1 .. k - 1 : devres'[j] = Memory(l)
    <3>1. k \in 1 .. Len(devres) /\ devres[k] = Registered(l)
      BY <1>3, <2>2
    <3>2. PICK j \in 1 .. k - 1 : devres[j] = Memory(l)
      BY <3>1 DEF StackInv
    <3>3. j \in 1 .. Len(devres')
      BY <1>3, <2>2
    <3> QED
      BY <1>3, <3>2, <3>3
  <2> QED
    BY <1>3, <2>1, <2>2 DEF StackInv, Unused
<1>5. ASSUME NEW i \in Reach' \ {"charge"}
      PROVE  \E k \in 1 .. Len(devres') : i \in Behind(devres'[k])
  <2>1. i \in Reach \ {"charge"} /\ i \notin Behind(Last(devres))
    BY DEF Reach, Quiet
  <2>2. PICK k \in 1 .. Len(devres) : i \in Behind(devres[k])
    BY <2>1 DEF ReachInv
  <2>3. k \in 1 .. Len(devres')
    BY <1>3, <2>1, <2>2
  <2> QED
    BY <1>3, <2>2, <2>3
<1>6. ReachInv'
  BY <1>5 DEF ReachInv, Reach
<1>7. GateInv'
  BY DEF GateInv, Probing, ControlSupported
<1> QED
  BY <1>1, <1>2, <1>4, <1>6, <1>7

LEMMA UnboundInv ==
  ASSUME IInv, Unbound
  PROVE  IInv'
<1> USE DEF IInv, Unbound
<1> USE DEF driverVars
<1>1. TypeOK'
  BY DEF TypeOK
<1>2. PlaceInv'
  BY DEF PlaceInv, Probing
<1>3. StackInv'
  BY DEF StackInv, Unused
<1>4. ReachInv'
  BY DEF ReachInv, Reach
<1>5. GateInv'
  BY DEF GateInv, Probing, ControlSupported
<1> QED
  BY <1>1, <1>2, <1>3, <1>4, <1>5

LEMMA EnterInv ==
  ASSUME IInv, NEW u \in Users, Enter(u)
  PROVE  IInv'
<1> USE DEF IInv, Enter
<1> USE DEF driverVars
<1>0. Reach' \subseteq Reach
  BY NoneAssumption DEF Reach, TypeOK
<1>1. TypeOK'
  BY DEF TypeOK
<1>2. PlaceInv'
  BY DEF PlaceInv
<1>3. StackInv'
  BY DEF StackInv
<1>4. ReachInv'
  BY <1>0 DEF ReachInv
<1>5. GateInv'
  BY DEF GateInv, ControlSupported
<1> QED
  BY <1>1, <1>2, <1>3, <1>4, <1>5

LEMMA LeaveInv ==
  ASSUME IInv, NEW u \in Users, Leave(u)
  PROVE  IInv'
<1> USE DEF IInv, Leave
<1> USE DEF driverVars
<1>0. Reach' \subseteq Reach
  BY NoneAssumption DEF Reach, TypeOK
<1>1. TypeOK'
  BY DEF TypeOK
<1>2. PlaceInv'
  BY DEF PlaceInv
<1>3. StackInv'
  BY DEF StackInv
<1>4. ReachInv'
  BY <1>0 DEF ReachInv
<1>5. GateInv'
  BY DEF GateInv, ControlSupported
<1> QED
  BY <1>1, <1>2, <1>3, <1>4, <1>5

LEMMA StepInv ==
  ASSUME IInv, [Next]_vars
  PROVE  IInv'
<1>1. CASE Load \/ Unload \/ Bind \/ RemoveDriver
  BY <1>1, LoadInv, UnloadInv, BindInv, RemoveDriverInv
<1>2. CASE DriverStep
  BY <1>2, ReadInterfaceInv, MatchEcInv, ReadEcInv, FirmwareAttrsInv, DebugfsInv,
     DetectInv, SkipFeatureInv, SetupHwmonInv, SetupProfileInv, SetupChargeInv,
     SetupFanCurvesInv, SetupLedInv, SetupCameraInv, SetupFailsInv, ProbeFailsInv,
     UnhookInv, HideInv, ReleaseInv, UnboundInv DEF DriverStep
<1>3. ASSUME NEW u \in Users, Enter(u) \/ Leave(u)
      PROVE  IInv'
  BY <1>3, EnterInv, LeaveInv
<1>4. CASE UNCHANGED vars
  <2>1. UNCHANGED <<machine, params, pc, model, caps, features, next, led, devres, open, busy>>
    BY <1>4 DEF vars, driverVars
  <2>2. TypeOK' /\ PlaceInv' /\ StackInv'
    BY <2>1 DEF IInv, TypeOK, PlaceInv, StackInv
  <2>3. ReachInv' /\ GateInv'
    BY <2>1 DEF IInv, ReachInv, Reach, GateInv, ControlSupported
  <2> QED
    BY <2>2, <2>3 DEF IInv
<1> QED
  BY <1>1, <1>2, <1>3, <1>4 DEF Next

-----------------------------------------------------------------------------
(* The theorems.                                                           *)

\* The inductive invariant holds of every run.
THEOREM Invariance == Spec => []IInv
<1>1. Init => IInv
  BY InitInv
<1>2. IInv /\ [Next]_vars => IInv'
  BY StepInv
<1> QED
  BY <1>1, <1>2, PTL DEF Spec

\* Every variable stays within its type (msi_wmi_platform_probe and its callees).
THEOREM TypeCorrect == Spec => []TypeOK
<1>1. IInv => TypeOK
  BY DEF IInv
<1> QED
  BY <1>1, Invariance, PTL

\* No handler of a guarded interface runs without the driver data and, for a LED,
\* the LED's memory, through any failing probe and any removal (devm_kzalloc
\* before devm_led_classdev_register, battery_hook_unregister in remove()).
THEOREM MemoryOutlivesHandlers == Spec => []HandlersHaveMemory
<1>1. ASSUME IInv PROVE HandlersHaveMemory
  <2> SUFFICES ASSUME NEW i \in open \union {busy[u] : u \in Users}, i # None
               PROVE  Needs(i) \subseteq Owned(devres)
    BY DEF HandlersHaveMemory
  <2>1. i \in Reach
    BY DEF Reach
  <2>2. devres # <<>> /\ devres \in Seq(Entries)
    BY <1>1, <2>1, NothingReached DEF IInv, StackInv
  <2>3. \A k \in 1 .. Len(devres) : devres[k] \in Owned(devres)
    BY <2>2 DEF Owned, ToSet
  <2>4. Memory("data") \in Owned(devres)
    BY <1>1, <2>2, <2>3 DEF IInv, StackInv
  <2>5. ASSUME i \in Leds PROVE Memory(i) \in Owned(devres)
    <3>1. PICK k \in 1 .. Len(devres) : i \in Behind(devres[k])
      BY <1>1, <2>1, <2>5, Names DEF IInv, ReachInv
    <3>2. devres[k] = Registered(i)
      BY <2>2, <2>5, <3>1, LedBehind
    <3>3. PICK j \in 1 .. k - 1 : devres[j] = Memory(i)
      BY <1>1, <2>5, <3>1, <3>2 DEF IInv, StackInv
    <3>4. j \in 1 .. Len(devres)
      BY <2>2, <3>1
    <3> QED
      BY <2>3, <3>3, <3>4
  <2> QED
    BY <2>4, <2>5 DEF Needs
<1> QED
  BY <1>1, Invariance, PTL

\* Nothing survives an unbind or a probe that failed half-way
\* (msi_wmi_platform_remove, msi_feat_charge_remove and devres).
THEOREM UnbindLeavesNothing == Spec => []NothingIsLeft
<1>1. ASSUME IInv PROVE NothingIsLeft
  <2> SUFFICES ASSUME pc \in Unused
               PROVE  open = {} /\ devres = <<>> /\ Quiet(Interfaces)
    BY DEF NothingIsLeft, Unused
  <2>1. devres = <<>>
    BY <1>1 DEF IInv, StackInv
  <2>2. Reach = {} /\ open = {}
    BY <1>1, <2>1, NothingReached
  <2>3. Quiet(Interfaces)
    BY <2>2, NoneAssumption DEF Quiet, Reach
  <2> QED
    BY <2>1, <2>2, <2>3
<1> QED
  BY <1>1, Invariance, PTL

\* Control is exposed only behind the gate of msi_control_supported.
THEOREM GateHolds == Spec => []ControlIsGated
<1>1. IInv => ControlIsGated
  BY DEF IInv, GateInv, ControlIsGated, ControlSupported
<1> QED
  BY <1>1, Invariance, PTL

\* The curve attributes exist only while their feature is enabled
\* (msi_wmi_platform_is_visible, msi_feat_fan_curves_setup).
THEOREM CurvesHaveTheirFeature == Spec => []PwmHasFanCurves
<1>1. IInv => PwmHasFanCurves
  BY DEF IInv, GateInv, PwmHasFanCurves
<1> QED
  BY <1>1, Invariance, PTL
=============================================================================
