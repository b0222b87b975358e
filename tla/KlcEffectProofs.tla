-------------------------- MODULE KlcEffectProofs --------------------------
(* Proofs about KlcEffect, for any commands.                               *)
EXTENDS KlcEffect, SequenceTheorems, TLAPS

Good(e) ==
  /\ e \in Effects
  /\ Len(e.colors) \in 1 .. MaxEffectColors

\* A section moves the light by way on a ramp of that height.
Approaches(way, ramp, speed) ==
  IF ramp >= 0 THEN way >= 0 /\ ramp - way >= 0 /\ ramp - way < speed
  ELSE way <= 0 /\ ramp - way <= 0 /\ -(ramp - way) < speed

-----------------------------------------------------------------------------
(* The arithmetic.                                                         *)

LEMMA GoodFields ==
  ASSUME NEW e, Good(e)
  PROVE  /\ e.type \in {"breathe", "colorshift"}
         /\ e.colors \in Seq(Byte) /\ Len(e.colors) \in 1 .. MaxEffectColors
         /\ e.positions \in Seq(0 .. 100)
         /\ e.speed \in U16
BY DEF Good, Effects

\* Division that rounds towards zero.
LEMMA QuotRounds ==
  ASSUME NEW x \in Int, NEW s \in Nat, s > 0
  PROVE  /\ Quot(x, s) \in Int
         /\ Approaches(s * Quot(x, s), x, s)
<1>1. \A a \in Nat : a \div s \in Nat /\ s * (a \div s) <= a /\ a - s * (a \div s) < s
  OBVIOUS
<1>2. CASE x >= 0
  BY <1>1, <1>2 DEF Quot, Approaches
<1>3. CASE x < 0
  <2>1. -x \in Nat /\ Quot(x, s) = -((-x) \div s)
    BY <1>3 DEF Quot
  <2> DEFINE q == (-x) \div s
  <2>2. q \in Nat /\ s * q <= -x /\ -x - s * q < s
    BY <1>1, <2>1
  <2>3. s * (-q) = -(s * q)
    BY <2>2
  <2> HIDE DEF q
  <2> QED
    BY <1>3, <2>1, <2>2, <2>3 DEF Approaches, q
<1> QED
  BY <1>2, <1>3

\* The least duration makes any delta fit.
LEMMA DeltaFits ==
  ASSUME NEW x \in Int, -4080 <= x, x <= 4080, NEW s \in Nat, s >= 33
  PROVE  -127 <= Quot(x, s) /\ Quot(x, s) <= 127
<1> DEFINE q == Quot(x, s)
<1>1. q \in Int /\ Approaches(s * q, x, s)
  BY QuotRounds
<1> HIDE DEF q
<1>2. s * q \in Int /\ -4080 <= s * q /\ s * q <= 4080
  BY <1>1 DEF Approaches
<1>3. ~ q >= 128
  <2> SUFFICES ASSUME q >= 128 PROVE FALSE
    OBVIOUS
  <2>1. s * q >= 33 * 128
    BY <1>1
  <2> QED
    BY <1>2, <2>1
<1>4. ~ q <= -128
  <2> SUFFICES ASSUME q <= -128 PROVE FALSE
    OBVIOUS
  <2>1. s * (-q) >= 33 * 128
    BY <1>1
  <2>2. s * (-q) = -(s * q)
    BY <1>1
  <2> QED
    BY <1>2, <2>1, <2>2
<1> QED
  BY <1>1, <1>3, <1>4 DEF q

\* The byte that is sent is the delta that is played.
LEMMA SignedByte ==
  ASSUME NEW q \in Int, -127 <= q, q <= 127
  PROVE  q % 256 \in Byte /\ Signed(q % 256) = q
<1>1. CASE q >= 0
  BY <1>1 DEF Byte, Signed
<1>2. CASE q < 0
  BY <1>2 DEF Byte, Signed
<1> QED
  BY <1>1, <1>2

LEMMA ScaledByte ==
  ASSUME NEW v \in Byte, NEW b \in Byte
  PROVE  Scaled(v, b) \in Byte
<1> DEFINE p == v * b
<1>1. v \in Int /\ b \in Int /\ 0 <= v /\ v <= 255 /\ 0 <= b /\ b <= 255
  BY DEF Byte
<1>2. p \in Int /\ 0 <= p /\ p <= 65025
  <2>1. p <= 255 * b
    BY <1>1
  <2> QED
    BY <1>1, <2>1
<1>3. 2 * v * b = 2 * p
  BY <1>1
<1> HIDE DEF p
<1>4. /\ (2 * p + 255) \div 510 \in Int
      /\ 0 <= (2 * p + 255) \div 510 /\ (2 * p + 255) \div 510 <= 255
  BY <1>2
<1> QED
  BY <1>3, <1>4 DEF Scaled, Byte

LEMMA U16Range ==
  ASSUME NEW x
  PROVE  x \in U16 <=> x \in Int /\ 0 <= x /\ x <= 65535
<1>1. MaxU16 \in Int
  BY DEF MaxU16
<1>2. x \in U16 <=> x \in Int /\ 0 <= x /\ x <= MaxU16
  BY <1>1 DEF U16
<1> QED
  BY <1>2 DEF MaxU16

LEMMA DurationFits ==
  ASSUME NEW e, e.speed \in U16, NEW percent \in Int, percent <= 100
  PROVE  /\ Duration(e, percent) \in Int
         /\ 33 <= Duration(e, percent) /\ Duration(e, percent) <= 65535
<1> DEFINE s == e.speed * percent
           q == Quot(s, 100)
<1>1. s \in Int /\ s <= 6553500
  <2>1. e.speed \in Int /\ 0 <= e.speed /\ e.speed <= 65535
    BY U16Range
  <2>2. e.speed * percent <= e.speed * 100
    BY <2>1
  <2> QED
    BY <2>1, <2>2
<1>2. q \in Int /\ Approaches(100 * q, s, 100)
  BY <1>1, QuotRounds
<1>3. Duration(e, percent) = IF q < 33 THEN 33 ELSE q
  BY DEF Duration
<1> HIDE DEF s, q
<1>4. q <= 65535
  BY <1>1, <1>2 DEF Approaches
<1> QED
  BY <1>2, <1>3, <1>4

\* A section that is computed with a duration from two colors.
LEMMA SectionApproaches ==
  ASSUME NEW e, Good(e), NEW k \in 0 .. Slots - 1, NEW initial \in Byte,
         NEW final \in Byte, NEW percent \in Int, percent <= 100
  PROVE  LET s == Section(e, k, initial, final, percent)
         IN  /\ s \in Sections /\ s.speed >= 33
             /\ Approaches(s.speed * Signed(s.diff), 16 * (final - initial), s.speed)
<1> DEFINE speed == Duration(e, percent)
           x == 16 * (final - initial)
           q == Quot(x, speed)
           n == IF Last(e, k) THEN 0 ELSE k + 1
<1>1. speed \in Int /\ 33 <= speed /\ speed <= 65535 /\ speed \in U16
  BY DurationFits, U16Range, GoodFields
<1>2. x \in Int /\ -4080 <= x /\ x <= 4080
  BY DEF Byte
<1>3. Section(e, k, initial, final, percent) =
        [speed |-> speed, diff |-> q % 256, next |-> n]
  BY DEF Section, ScaledUint8
<1>4. n \in 0 .. Slots
  BY DEF Slots
<1> HIDE DEF speed, x, n
<1>5. q \in Int /\ Approaches(speed * q, x, speed)
  BY <1>1, <1>2, QuotRounds
<1>6. -127 <= q /\ q <= 127
  BY <1>1, <1>2, DeltaFits
<1> HIDE DEF q
<1>7. q % 256 \in Byte /\ Signed(q % 256) = q
  BY <1>5, <1>6, SignedByte
<1> DEFINE s == Section(e, k, initial, final, percent)
<1>8. s \in Sections
  BY <1>1, <1>3, <1>4, <1>7 DEF Sections
<1>9. s.speed = speed /\ s.diff = q % 256
  BY <1>3
<1> HIDE DEF s
<1>10. Approaches(s.speed * Signed(s.diff), x, s.speed)
  BY <1>5, <1>7, <1>9
<1> QED
  BY <1>1, <1>8, <1>9, <1>10 DEF s, x

LEMMA ColorIsByte ==
  ASSUME NEW e, Good(e), NEW i \in Nat
  PROVE  Color(e, i) \in Byte /\ Position(e, i) \in 0 .. 100
<1>1. \A S, s : s \in Seq(S) /\ i < Len(s) => s[i + 1] \in S
  OBVIOUS
<1>2. i < Len(e.colors) => e.colors[i + 1] \in Byte
  BY <1>1, GoodFields
<1>3. i < Len(e.positions) => e.positions[i + 1] \in 0 .. 100
  BY Zenon, <1>1, GoodFields
<1> QED
  BY <1>2, <1>3 DEF Color, Position, Byte

-----------------------------------------------------------------------------
(* The effect and its sections.                                            *)

LEMMA MapIsSeq ==
  ASSUME NEW T, NEW n \in Nat, NEW f \in [1 .. n -> T]
  PROVE  f \in Seq(T) /\ Len(f) = n
BY SeqDef

LEMMA EffectIsGood ==
  ASSUME NEW c \in Commands, Valid(c)
  PROVE  Good(Effect(c))
<1>1. /\ c.colors \in Seq(Byte) /\ c.speed \in U16
      /\ c.positions \in Seq(Byte) /\ c.brightness \in Byte
  BY Zenon, EffectAssumption
<1> DEFINE n == Len(c.colors)
<1>2. n \in Nat /\ n \in 1 .. MaxEffectColors /\ DOMAIN c.colors = 1 .. n
  BY <1>1 DEF Valid
<1> HIDE DEF n
<1>3. Effect(c).colors \in Seq(Byte) /\ Len(Effect(c).colors) = n
  <2> DEFINE f == [i \in 1 .. n |-> Scaled(c.colors[i], c.brightness)]
  <2>1. f \in [1 .. n -> Byte]
    BY <1>1, <1>2, ScaledByte DEF n
  <2>2. Effect(c).colors = f
    BY <1>2 DEF Effect
  <2> HIDE DEF f
  <2> QED
    BY <1>2, <2>1, <2>2, MapIsSeq
<1>4. Positions(c) \in Seq(0 .. 100)
  <2>1. CASE c.positions # <<>>
    <3> DEFINE m == Len(c.positions)
    <3>1. /\ c.positions \in [1 .. m -> Byte] /\ m \in Nat
          /\ \A i \in 1 .. m : c.positions[i] <= 100
      BY <1>1, <2>1 DEF Valid
    <3>2. \A b \in Byte : b <= 100 => b \in 0 .. 100
      BY DEF Byte
    <3>3. c.positions \in [1 .. m -> 0 .. 100]
      BY Zenon, <3>1, <3>2
    <3> HIDE DEF m
    <3> QED
      BY <2>1, <3>1, <3>3, MapIsSeq DEF Positions
  <2>2. CASE c.positions = <<>>
    <3> DEFINE f == [i \in 1 .. n |-> ((i - 1) * 100) \div n]
    <3>1. ASSUME NEW i \in 1 .. n
          PROVE  ((i - 1) * 100) \div n \in 0 .. 100
      <4>1. \A a \in Nat, b \in Nat : b > 0 /\ a <= 100 * b => a \div b \in 0 .. 100
        OBVIOUS
      <4>2. (i - 1) * 100 \in Nat /\ (i - 1) * 100 <= 100 * n /\ n > 0
        BY <1>2, <3>1
      <4> QED
        BY <1>2, <4>1, <4>2
    <3>2. f \in [1 .. n -> 0 .. 100]
      BY <3>1
    <3>3. Positions(c) = f
      BY <1>2, <2>2 DEF Positions, n
    <3> HIDE DEF f
    <3> QED
      BY <1>2, <3>2, <3>3, MapIsSeq
  <2> QED
    BY <2>1, <2>2
<1> QED
  BY <1>1, <1>2, <1>3, <1>4 DEF Good, Effect, Effects

LEMMA NumSectionsType ==
  ASSUME NEW e, Good(e)
  PROVE  /\ Padding(e) \in {0, 1}
         /\ NumSections(e) \in Nat
         /\ e.type = "breathe" =>
              NumSections(e) = Padding(e) + 2 * Len(e.colors) /\ Len(e.colors) >= 1
<1>1. Len(e.colors) \in Nat /\ Len(e.colors) >= 1
  BY GoodFields
<1>2. Padding(e) \in {0, 1}
  BY DEF Padding
<1> QED
  BY <1>1, <1>2 DEF NumSections

LEMMA ColorshiftRamp ==
  ASSUME NEW e, Good(e), e.type = "colorshift", NEW k \in 0 .. Slots - 1,
         k < NumSections(e)
  PROVE  \E percent \in Int :
           /\ percent <= 100
           /\ SectionInfo(e, k) =
                Section(e, k, Keyframe(e, k), Keyframe(e, k + 1), percent)
<1> DEFINE p       == Padding(e)
           initial == IF k = 0 THEN 0 ELSE k - p
           final   == IF Last(e, k) THEN 0 ELSE k + 1 - p
           from    == IF k = 0 THEN 0 ELSE Position(e, initial)
           to      == IF Last(e, k) THEN 100 ELSE Position(e, final)
<1>1. p \in {0, 1} /\ NumSections(e) \in Nat
  BY NumSectionsType
<1>2. SectionInfo(e, k) = Section(e, k, Color(e, initial), Color(e, final), to - from)
  BY <1>1 DEF SectionInfo, ColorshiftSection
<1>3. initial \in Nat /\ final \in Nat
  BY <1>1 DEF Slots
<1>4. Color(e, initial) = Keyframe(e, k)
  BY <1>1 DEF Keyframe, Slots
<1>5. Color(e, final) = Keyframe(e, k + 1)
  BY <1>1 DEF Keyframe, Last, Slots
<1> HIDE DEF initial, final
<1>6. from \in 0 .. 100 /\ to \in 0 .. 100
  BY <1>3, ColorIsByte
<1>7. to - from \in Int /\ to - from <= 100
  BY <1>6
<1> QED
  BY <1>2, <1>4, <1>5, <1>7

LEMMA BreatheRamp ==
  ASSUME NEW e, Good(e), e.type = "breathe", NEW k \in 0 .. Slots - 1,
         k < NumSections(e)
  PROVE  \E percent \in Int :
           /\ percent <= 100
           /\ SectionInfo(e, k) =
                Section(e, k, Keyframe(e, k), Keyframe(e, k + 1), percent)
<1> DEFINE p       == Padding(e)
           n       == Len(e.colors)
           lead    == p = 1 /\ k = 0
           down    == ~lead /\ (k - p) % 2 = 0
           initial == IF lead THEN 0 ELSE (k - p) \div 2
           final   == IF Last(e, k) \/ lead THEN 0 ELSE initial + 1
           from    == IF k = 0 THEN 0 ELSE Position(e, initial)
           to      == IF k >= NumSections(e) - 2 THEN 100 ELSE Position(e, final)
           first   == IF down \/ lead THEN Color(e, initial) ELSE 0
           second  == IF down THEN 0 ELSE Color(e, final)
<1>1. p \in {0, 1} /\ n \in Nat /\ n >= 1 /\ NumSections(e) = p + 2 * n
  BY NumSectionsType, GoodFields
<1>2. SectionInfo(e, k) = Section(e, k, first, second, Quot(to - from, 2))
  BY <1>1 DEF SectionInfo, BreatheSection
<1>3. initial \in Nat /\ final \in Nat
  BY <1>1 DEF Slots
<1>4. \A i \in Nat :
        Keyframe(e, i) = IF i - p < 0 \/ i = NumSections(e) THEN Color(e, 0)
                         ELSE IF (i - p) % 2 = 0 THEN Color(e, (i - p) \div 2) ELSE 0
  BY DEF Keyframe
<1>5. first = Keyframe(e, k)
  BY <1>1, <1>4 DEF Slots
<1>6. second = Keyframe(e, k + 1)
  <2>1. CASE lead
    BY <1>1, <1>4, <2>1 DEF Last, Slots
  <2>2. CASE down
    <3>1. k + 1 # NumSections(e) /\ k - p >= 0 /\ (k + 1 - p) % 2 = 1
      BY <1>1, <2>2 DEF Slots
    <3>2. k + 1 \in Nat /\ p \in Int /\ ~ (k + 1) - p < 0
      BY <1>1, <3>1 DEF Slots
    <3>3. Keyframe(e, k + 1) = 0
      <4> HIDE DEF p
      <4> QED
        BY <1>4, <3>1, <3>2
    <3> QED
      BY <2>2, <3>3
  <2>3. CASE ~lead /\ ~down
    <3>1. k - p >= 0 /\ (k + 1 - p) % 2 = 0 /\ (k + 1 - p) \div 2 = (k - p) \div 2 + 1
      BY <1>1, <2>3 DEF Slots
    <3>2. k + 1 \in Nat /\ p \in Int /\ ~ (k + 1) - p < 0
      <4>1. p \in Int /\ k \in Int /\ k >= 0 /\ k - p >= 0
        BY <1>1, <3>1 DEF Slots
      <4> HIDE DEF p
      <4> QED
        BY <4>1
    <3>3. Last(e, k) <=> k + 1 = NumSections(e)
      <4>1. NumSections(e) \in Nat
        BY NumSectionsType
      <4> QED
        BY <4>1 DEF Last, Slots
    <3>4. initial = (k - p) \div 2 /\ second = Color(e, IF Last(e, k) THEN 0 ELSE initial + 1)
      BY <2>3
    <3>5. Keyframe(e, k + 1) = IF Last(e, k) THEN Color(e, 0)
                                ELSE Color(e, (k - p) \div 2 + 1)
      <4> HIDE DEF p
      <4> QED
        BY <1>4, <3>1, <3>2, <3>3
    <3> QED
      BY <3>4, <3>5
  <2> QED
    BY <2>1, <2>2, <2>3
<1> HIDE DEF initial, final, first, second
<1>7. from \in 0 .. 100 /\ to \in 0 .. 100
  BY <1>3, ColorIsByte
<1>8. Quot(to - from, 2) \in Int /\ Quot(to - from, 2) <= 100
  <2>1. to - from \in Int /\ to - from <= 100
    BY <1>7
  <2> HIDE DEF to, from
  <2> QED
    BY <2>1 DEF Quot
<1> QED
  BY <1>2, <1>5, <1>6, <1>8

LEMMA KeyframeIsByte ==
  ASSUME NEW e, Good(e), NEW k \in Nat
  PROVE  Keyframe(e, k) \in Byte
<1>1. Padding(e) \in {0, 1}
  BY NumSectionsType
<1>2. \A i \in Nat : Color(e, i) \in Byte
  BY ColorIsByte
<1>3. k - Padding(e) >= 0 =>
        k - Padding(e) \in Nat /\ (k - Padding(e)) \div 2 \in Nat
  BY <1>1
<1> QED
  BY <1>1, <1>2, <1>3 DEF Keyframe, Byte

\* Whatever was asked for, each section moves the light from one keyframe
\* towards the next.
LEMMA SectionRamp ==
  ASSUME NEW e, Good(e), NEW k \in 0 .. Slots - 1
  PROVE  LET s == SectionInfo(e, k)
         IN  /\ s \in Sections
             /\ k < NumSections(e) =>
                  /\ s.next = IF Last(e, k) THEN 0 ELSE k + 1
                  /\ s.speed >= 33
                  /\ Approaches(s.speed * Signed(s.diff),
                                16 * (Keyframe(e, k + 1) - Keyframe(e, k)), s.speed)
<1>1. CASE k >= NumSections(e)
  <2>1. ZeroSection \in Sections
    <3>1. 0 \in U16
      BY U16Range
    <3> QED
      BY <3>1 DEF ZeroSection, Sections, Byte, Slots
  <2>2. NumSections(e) \in Int
    BY NumSectionsType
  <2> QED
    BY <1>1, <2>1, <2>2 DEF SectionInfo, Slots
<1>2. CASE k < NumSections(e)
  <2>1. e.type = "colorshift" \/ e.type = "breathe"
    BY GoodFields
  <2>2. PICK percent \in Int :
          /\ percent <= 100
          /\ SectionInfo(e, k) =
               Section(e, k, Keyframe(e, k), Keyframe(e, k + 1), percent)
    BY <1>2, <2>1, ColorshiftRamp, BreatheRamp
  <2>3. Keyframe(e, k) \in Byte /\ Keyframe(e, k + 1) \in Byte
    BY KeyframeIsByte DEF Slots
  <2>4. Section(e, k, Keyframe(e, k), Keyframe(e, k + 1), percent).next =
          IF Last(e, k) THEN 0 ELSE k + 1
    BY DEF Section
  <2> QED
    BY <2>2, <2>3, <2>4, SectionApproaches
<1> QED
  <2>1. NumSections(e) \in Int
    BY NumSectionsType
  <2> QED
    BY <1>1, <1>2, <2>1 DEF Slots

-----------------------------------------------------------------------------
(* The invariant: what has been computed is of the command's effect, what  *)
(* the keyboard was sent is what has been computed, and the light is where *)
(* the program has brought it.                                             *)

EffectInv ==
  /\ cmd \in Commands
  /\ effect # NoEffect => Good(effect)

SectionsInv ==
  /\ sections \in Seq(Sections) /\ Len(sections) <= Slots
  /\ Len(sections) > 0 => effect # NoEffect
  /\ \A k \in 1 .. Len(sections) : sections[k] = SectionInfo(effect, k - 1)
  /\ ticks \in Nat /\ ticks <= Len(sections) * MaxU16

ProgramInv ==
  program # NoProgram =>
    /\ Len(sections) = Slots
    /\ program = [sections |-> sections, num |-> NumSections(effect),
                  ticks |-> ticks % (MaxU16 + 1), init |-> 16 * Color(effect, 0)]

LightInv ==
  /\ light \in Int /\ elapsed \in Nat /\ at \in 0 .. Slots
  /\ program = NoProgram => at = 0 /\ elapsed = 0
  /\ program # NoProgram =>
       /\ at < NumSections(effect)
       /\ -elapsed <= light - 16 * Keyframe(effect, at)
       /\ light - 16 * Keyframe(effect, at) <= elapsed

Inv == EffectInv /\ SectionsInv /\ ProgramInv /\ LightInv

LEMMA InitInv == Init => Inv
<1> SUFFICES ASSUME Init PROVE Inv
  OBVIOUS
<1>1. EffectInv
  BY DEF Init, EffectInv
<1>2. SectionsInv
  BY DEF Init, SectionsInv, Slots, MaxU16
<1>3. ProgramInv
  BY DEF Init, ProgramInv
<1>4. LightInv
  BY DEF Init, LightInv, Slots
<1> QED
  BY <1>1, <1>2, <1>3, <1>4 DEF Inv

LEMMA PrepareKeeps == Inv /\ Prepare => Inv'
<1> SUFFICES ASSUME Inv, Prepare PROVE Inv'
  OBVIOUS
<1>1. Len(sections) = 0 /\ sections \in Seq(Sections)
  BY DEF Inv, SectionsInv, Prepare
<1>2. program = NoProgram
  BY <1>1 DEF Inv, ProgramInv, Slots
<1>3. EffectInv'
  BY EffectIsGood DEF Inv, EffectInv, Prepare
<1>4. SectionsInv'
  BY <1>1 DEF Inv, SectionsInv, Prepare
<1>5. ProgramInv' /\ LightInv'
  BY <1>2 DEF Inv, ProgramInv, LightInv, Prepare
<1> QED
  BY <1>3, <1>4, <1>5 DEF Inv

LEMMA AddSectionKeeps == Inv /\ AddSection => Inv'
<1> SUFFICES ASSUME Inv, AddSection PROVE Inv'
  OBVIOUS
<1> DEFINE n == Len(sections)
           info == SectionInfo(effect, n)
<1>1. Good(effect) /\ sections \in Seq(Sections) /\ n \in 0 .. Slots - 1
  <2>1. Good(effect) /\ sections \in Seq(Sections) /\ n < Slots
    BY DEF Inv, EffectInv, SectionsInv, AddSection
  <2>2. n \in Nat
    BY <2>1
  <2> HIDE DEF n, info
  <2> QED
    BY <2>1, <2>2 DEF Slots
<1>2. info \in Sections
  BY <1>1, SectionRamp
<1>3. sections' = Append(sections, info) /\ ticks' = ticks + info.speed /\ effect' = effect
  BY DEF AddSection
<1>4. program = NoProgram
  <2>1. n # Slots
    <3> HIDE DEF n, info
    <3> QED
      BY <1>1 DEF Slots
  <2> QED
    BY <2>1 DEF Inv, ProgramInv
<1> HIDE DEF info
<1>5. EffectInv'
  BY DEF Inv, EffectInv, AddSection
<1>6. SectionsInv'
  <2>1. sections' \in Seq(Sections) /\ Len(sections') = n + 1
    BY <1>1, <1>2, <1>3
  <2>2. \A k \in 1 .. n + 1 : sections'[k] = SectionInfo(effect, k - 1)
    <3>1. \A k \in 1 .. n : sections'[k] = sections[k]
      BY <1>1, <1>2, <1>3
    <3>2. sections'[n + 1] = info /\ (n + 1) - 1 = n
      BY <1>1, <1>2, <1>3
    <3>3. \A k \in 1 .. n : sections[k] = SectionInfo(effect, k - 1)
      BY DEF Inv, SectionsInv
    <3>4. ASSUME NEW k \in 1 .. n + 1
          PROVE  k \in 1 .. n \/ k = n + 1
      <4>1. n \in Nat
        BY <1>1
      <4> HIDE DEF n
      <4> QED
        BY <4>1
    <3> QED
      BY Zenon, <3>1, <3>2, <3>3, <3>4 DEF info
  <2>3. ticks' \in Nat /\ ticks' <= (n + 1) * MaxU16
    <3>1. info.speed \in Int /\ 0 <= info.speed /\ info.speed <= MaxU16
      BY <1>2, U16Range DEF Sections, MaxU16
    <3>2. ticks \in Nat /\ ticks <= n * MaxU16 /\ (n + 1) * MaxU16 = n * MaxU16 + MaxU16
      BY <1>1 DEF Inv, SectionsInv, MaxU16
    <3> QED
      BY <1>1, <1>3, <3>1, <3>2 DEF MaxU16
  <2>4. effect # NoEffect
    BY DEF AddSection
  <2> QED
    <3>1. Len(sections') <= Slots
      <4> HIDE DEF n
      <4> QED
        BY <1>1, <2>1 DEF Slots
    <3> QED
      BY <1>3, <2>1, <2>2, <2>3, <2>4, <3>1 DEF SectionsInv
<1>7. ProgramInv' /\ LightInv'
  BY <1>4 DEF Inv, ProgramInv, LightInv, AddSection
<1> QED
  BY <1>5, <1>6, <1>7 DEF Inv

\* A loop begins at the first color.
LEMMA LoopStart ==
  ASSUME NEW e, Good(e)
  PROVE  Keyframe(e, 0) = Color(e, 0) /\ Color(e, 0) \in Byte /\ NumSections(e) >= 1
<1>1. Padding(e) \in {0, 1} /\ e.type \in {"breathe", "colorshift"} /\ Len(e.colors) >= 1
  BY NumSectionsType, GoodFields
<1>2. Len(e.colors) \in Nat
  BY GoodFields
<1>3. NumSections(e) >= 1
  BY <1>1, <1>2 DEF NumSections
<1>4. Keyframe(e, 0) = Color(e, 0)
  BY <1>1 DEF Keyframe
<1> QED
  BY <1>3, <1>4, ColorIsByte

LEMMA UploadKeeps == Inv /\ Upload => Inv'
<1> SUFFICES ASSUME Inv, Upload PROVE Inv'
  OBVIOUS
<1>1. Good(effect)
  BY DEF Inv, EffectInv, SectionsInv, Upload, Slots
<1>2. at = 0 /\ elapsed = 0
  BY DEF Inv, LightInv, Upload
<1>3. EffectInv' /\ SectionsInv'
  BY DEF Inv, EffectInv, SectionsInv, Upload
<1>4. ProgramInv'
  BY DEF ProgramInv, Upload
<1>5. LightInv'
  <2>1. /\ Keyframe(effect, 0) = Color(effect, 0) /\ Color(effect, 0) \in Int
        /\ NumSections(effect) >= 1 /\ NumSections(effect) \in Nat
    <3>1. Color(effect, 0) \in Byte
      BY <1>1, LoopStart
    <3>2. \A b \in Byte : b \in Int
      BY DEF Byte
    <3> QED
      BY <1>1, <3>1, <3>2, LoopStart, NumSectionsType
  <2>2. /\ light' = 16 * Color(effect, 0) /\ effect' = effect
        /\ at' = 0 /\ elapsed' = 0 /\ program' # NoProgram
    <3>1. program' # NoProgram
      <4>1. "init" \in DOMAIN program' /\ "init" \notin DOMAIN NoProgram
        BY DEF Upload, NoProgram
      <4> QED
        BY <4>1
    <3> QED
      BY <1>2, <3>1 DEF Upload
  <2> QED
    BY <2>1, <2>2 DEF LightInv, Slots
<1> QED
  BY <1>3, <1>4, <1>5 DEF Inv

LEMMA PlayKeeps == Inv /\ Play => Inv'
<1> SUFFICES ASSUME Inv, Play PROVE Inv'
  OBVIOUS
<1> DEFINE s == program.sections[at + 1]
           way == s.speed * Signed(s.diff)
<1>1. /\ Len(sections) = Slots /\ program.sections = sections
      /\ program.init = 16 * Color(effect, 0) /\ program # NoProgram
  BY DEF Inv, ProgramInv, Play
<1>2. Good(effect) /\ at \in 0 .. Slots - 1 /\ at < NumSections(effect)
  BY <1>1 DEF Inv, EffectInv, SectionsInv, LightInv, Play, Slots
<1>3. s = SectionInfo(effect, at)
  <2>1. at + 1 \in 1 .. Len(sections) /\ (at + 1) - 1 = at
    BY <1>1, <1>2 DEF Slots
  <2> QED
    BY <1>1, <2>1 DEF Inv, SectionsInv
<1>4. /\ s.next = IF Last(effect, at) THEN 0 ELSE at + 1
      /\ s \in Sections
      /\ Approaches(way, 16 * (Keyframe(effect, at + 1) - Keyframe(effect, at)), s.speed)
  BY <1>2, <1>3, SectionRamp
<1>5. /\ at' = s.next
      /\ light' = IF s.next = 0 THEN program.init ELSE light + way
      /\ elapsed' = IF s.next = 0 THEN 0 ELSE elapsed + s.speed
      /\ effect' = effect /\ program' = program
  BY DEF Play
<1>6. s.speed \in Nat /\ way \in Int /\ s.next \in 0 .. Slots
  <2>1. s.speed \in Nat /\ s.diff \in Int /\ s.next \in 0 .. Slots
    BY <1>4, U16Range DEF Sections, Byte
  <2> QED
    BY <2>1 DEF Signed
<1>7. /\ Keyframe(effect, at) \in Int /\ Keyframe(effect, at + 1) \in Int
      /\ Keyframe(effect, 0) = Color(effect, 0) /\ Color(effect, 0) \in Int
      /\ NumSections(effect) \in Nat /\ NumSections(effect) >= 1
  <2>1. at \in Nat /\ at + 1 \in Nat
    BY <1>2 DEF Slots
  <2>2. /\ Keyframe(effect, at) \in Byte /\ Keyframe(effect, at + 1) \in Byte
        /\ Keyframe(effect, 0) = Color(effect, 0) /\ Color(effect, 0) \in Byte
        /\ NumSections(effect) \in Nat /\ NumSections(effect) >= 1
    BY <1>2, <2>1, KeyframeIsByte, LoopStart, NumSectionsType
  <2> QED
    BY <2>2 DEF Byte
<1>8. EffectInv' /\ SectionsInv' /\ ProgramInv'
  BY DEF Inv, EffectInv, SectionsInv, ProgramInv, Play
<1>9. /\ light \in Int /\ elapsed \in Nat
      /\ -elapsed <= light - 16 * Keyframe(effect, at)
      /\ light - 16 * Keyframe(effect, at) <= elapsed
  BY <1>1 DEF Inv, LightInv
<1> HIDE DEF s, way
<1>10. LightInv'
  <2>1. CASE s.next = 0
    BY <1>1, <1>5, <1>7, <2>1 DEF LightInv, Slots
  <2>2. CASE s.next # 0
    <3>1. at' = at + 1 /\ at + 1 < NumSections(effect)
      BY <1>2, <1>4, <1>5, <1>7, <2>2 DEF Last
    <3>2. light' = light + way /\ elapsed' = elapsed + s.speed
      BY <1>5, <2>2
    <3>3. /\ -elapsed' <= light' - 16 * Keyframe(effect, at + 1)
          /\ light' - 16 * Keyframe(effect, at + 1) <= elapsed'
      BY <1>4, <1>6, <1>7, <1>9, <3>2 DEF Approaches
    <3> QED
      BY <1>1, <1>5, <1>6, <1>9, <3>1, <3>2, <3>3 DEF LightInv
  <2> QED
    BY <2>1, <2>2
<1> QED
  BY <1>8, <1>10 DEF Inv

THEOREM Invariance == Spec => []Inv
<1>1. Inv /\ UNCHANGED vars => Inv'
  BY DEF Inv, EffectInv, SectionsInv, ProgramInv, LightInv, vars
<1>2. Inv /\ [Next]_vars => Inv'
  BY <1>1, PrepareKeeps, AddSectionKeeps, UploadKeeps, PlayKeeps DEF Next
<1> QED
  BY InitInv, <1>2, PTL DEF Spec

\* What is computed, sent and played has its types, whatever is asked for.
THEOREM TypeCorrect == Spec => []TypeOK
<1>1. Inv => TypeOK
  <2> SUFFICES ASSUME Inv PROVE TypeOK
    OBVIOUS
  <2>1. cmd \in Commands /\ effect \in Effects \union {NoEffect}
    BY DEF Inv, EffectInv, Good
  <2>2. sections \in Seq(Sections) /\ Len(sections) <= Slots
    BY DEF Inv, SectionsInv
  <2>3. ticks \in 0 .. Slots * MaxU16
    <3>1. Len(sections) \in Nat /\ MaxU16 \in Nat /\ Slots \in Nat
      BY <2>2 DEF MaxU16, Slots
    <3>2. Len(sections) * MaxU16 <= Slots * MaxU16
      BY <2>2, <3>1
    <3> QED
      BY <3>1, <3>2 DEF Inv, SectionsInv
  <2>4. program # NoProgram =>
          program \in [sections : Seq(Sections), num : 0 .. 2 * MaxEffectColors + 1,
                       ticks : U16, init : {16 * b : b \in Byte}]
    <3> SUFFICES ASSUME program # NoProgram
                 PROVE  /\ NumSections(effect) \in 0 .. 2 * MaxEffectColors + 1
                        /\ ticks % (MaxU16 + 1) \in U16
                        /\ Color(effect, 0) \in Byte
      BY <2>2 DEF Inv, ProgramInv
    <3>1. Good(effect)
      <4>1. Len(sections) = Slots /\ Slots > 0
        BY DEF Inv, ProgramInv, Slots
      <4> QED
        BY <4>1 DEF Inv, EffectInv, SectionsInv
    <3>2. NumSections(effect) \in 0 .. 2 * MaxEffectColors + 1
      <4> DEFINE n == Len(effect.colors)
                 p == Padding(effect)
      <4>1. p \in {0, 1}
        BY DEF Padding
      <4>2. n \in 1 .. 14
        BY <3>1 DEF Good, MaxEffectColors
      <4>3. NumSections(effect) = p + 2 * n \/ NumSections(effect) = p + n
        BY DEF NumSections
      <4> HIDE DEF n, p
      <4>4. p + 2 * n \in 0 .. 29 /\ p + n \in 0 .. 29
        BY <4>1, <4>2
      <4> QED
        BY <4>3, <4>4 DEF MaxEffectColors
    <3>3. ticks % (MaxU16 + 1) \in U16
      <4>1. ticks \in Nat /\ MaxU16 \in Nat
        BY DEF Inv, SectionsInv, MaxU16
      <4> QED
        BY <4>1 DEF U16
    <3> QED
      BY <3>1, <3>2, <3>3, LoopStart
  <2>5. at \in 0 .. Slots /\ light \in Int /\ elapsed \in Nat
    BY DEF Inv, LightInv
  <2> QED
    BY <2>1, <2>2, <2>3, <2>4, <2>5 DEF TypeOK
<1> QED
  BY Invariance, <1>1, PTL

\* Whatever colors, positions and speed are asked for, a section's delta fits
\* its byte: it moves the light towards the next keyframe and never beyond.
THEOREM DeltasAlwaysFit == Spec => []DeltasFit
<1>1. Inv => DeltasFit
  <2> SUFFICES ASSUME Inv, NEW k \in 1 .. Len(sections), k <= NumSections(effect)
               PROVE  Approaches(sections[k].speed * Signed(sections[k].diff),
                                 16 * (Keyframe(effect, k) - Keyframe(effect, k - 1)),
                                 sections[k].speed)
    BY DEF DeltasFit, Approaches
  <2>1. Good(effect) /\ k - 1 \in 0 .. Slots - 1 /\ sections[k] = SectionInfo(effect, k - 1)
    BY DEF Inv, EffectInv, SectionsInv, Slots
  <2>2. k - 1 < NumSections(effect) /\ (k - 1) + 1 = k
    BY <2>1, NumSectionsType
  <2> QED
    BY <2>1, <2>2, SectionRamp
<1> QED
  BY Invariance, <1>1, PTL

\* So the light is at the right keyframe when a section begins, but for what
\* rounding has lost.
THEOREM LightIsRight == Spec => []LightFollowsKeyframes
<1>1. Inv => LightFollowsKeyframes
  BY DEF Inv, LightInv, LightFollowsKeyframes
<1> QED
  BY Invariance, <1>1, PTL

-----------------------------------------------------------------------------
(* The length of a loop.  Induction over the sections is done step by step, *)
(* as they are computed: there is a clock, the ticks before each section,   *)
(* which ends at the sum and by which the keyboard plays.                   *)

ClockOf(clock) ==
  /\ clock \in [0 .. Slots -> Nat]
  /\ clock[0] = 0 /\ clock[Len(sections)] = ticks
  /\ \A k \in 1 .. Len(sections) : clock[k] = clock[k - 1] + sections[k].speed

\* It stands still once all sections that are played are over.
StandsStill(clock) ==
  effect # NoEffect =>
    \A k \in 0 .. Len(sections) : k >= NumSections(effect) => clock[k] = ticks

PlaysBy(clock) == program # NoProgram /\ at < Slots => clock[at] = elapsed

ClockInv == \E clock : ClockOf(clock) /\ StandsStill(clock) /\ PlaysBy(clock)

LEMMA ClockInit == Init => ClockInv
<1> SUFFICES ASSUME Init PROVE ClockInv
  OBVIOUS
<1> DEFINE zero == [k \in 0 .. Slots |-> 0]
<1>1. Len(sections) = 0 /\ ticks = 0 /\ effect = NoEffect /\ program = NoProgram
  BY DEF Init
<1>2. ClockOf(zero)
  BY <1>1 DEF ClockOf, Slots
<1>3. StandsStill(zero) /\ PlaysBy(zero)
  BY <1>1 DEF StandsStill, PlaysBy
<1> QED
  BY <1>2, <1>3 DEF ClockInv

LEMMA PrepareKeepsClock == Inv /\ ClockInv /\ Prepare => ClockInv'
<1> SUFFICES ASSUME Inv, ClockInv, Prepare PROVE ClockInv'
  OBVIOUS
<1>1. PICK clock : ClockOf(clock) /\ StandsStill(clock) /\ PlaysBy(clock)
  BY DEF ClockInv
<1>2. Len(sections) = 0
  BY DEF Inv, SectionsInv, Prepare
<1>3. program = NoProgram
  BY <1>2 DEF Inv, ProgramInv, Slots
<1>4. ClockOf(clock)'
  BY <1>1 DEF ClockOf, Prepare
<1>5. StandsStill(clock)'
  BY <1>1, <1>2 DEF StandsStill, ClockOf, Prepare
<1>6. PlaysBy(clock)'
  BY <1>3 DEF PlaysBy, Prepare
<1> QED
  BY <1>4, <1>5, <1>6 DEF ClockInv

LEMMA AddSectionKeepsClock == Inv /\ ClockInv /\ AddSection => ClockInv'
<1> SUFFICES ASSUME Inv, ClockInv, AddSection PROVE ClockInv'
  OBVIOUS
<1>1. PICK clock : ClockOf(clock) /\ StandsStill(clock) /\ PlaysBy(clock)
  BY DEF ClockInv
<1> DEFINE n == Len(sections)
           info == SectionInfo(effect, n)
<1>2. Good(effect) /\ sections \in Seq(Sections) /\ n \in 0 .. Slots - 1
  <2>1. Good(effect) /\ sections \in Seq(Sections) /\ n < Slots
    BY DEF Inv, EffectInv, SectionsInv, AddSection
  <2>2. n \in Nat
    BY <2>1
  <2> HIDE DEF n, info
  <2> QED
    BY <2>1, <2>2 DEF Slots
<1>3. info \in Sections /\ info.speed \in Nat
  BY <1>2, SectionRamp, U16Range DEF Sections
<1>4. n >= NumSections(effect) => info.speed = 0
  BY DEF SectionInfo, ZeroSection
<1>5. /\ sections' = Append(sections, info) /\ ticks' = ticks + info.speed
      /\ effect' = effect /\ program' = program /\ effect # NoEffect
  BY DEF AddSection
<1>6. program = NoProgram
  <2>1. n # Slots
    <3> HIDE DEF n, info
    <3> QED
      BY <1>2 DEF Slots
  <2> QED
    BY <2>1 DEF Inv, ProgramInv
<1>7. ticks \in Nat
  BY DEF Inv, SectionsInv
<1> HIDE DEF info
<1>8. Len(sections') = n + 1 /\ sections'[n + 1] = info
  BY <1>2, <1>3, <1>5
<1>9. \A k \in 1 .. n : sections'[k] = sections[k]
  BY <1>2, <1>3, <1>5
<1>10. /\ clock \in [0 .. Slots -> Nat] /\ clock[0] = 0 /\ clock[n] = ticks
       /\ \A k \in 1 .. n : clock[k] = clock[k - 1] + sections[k].speed
  BY <1>1 DEF ClockOf
<1>11. \A k \in 0 .. n : k >= NumSections(effect) => clock[k] = ticks
  BY <1>1, <1>5 DEF StandsStill
<1>12. NumSections(effect) \in Int
  BY <1>2, NumSectionsType
<1> HIDE DEF n
<1>13. PICK next : /\ next \in [0 .. Slots -> Nat] /\ next[n + 1] = ticks'
                   /\ \A k \in 0 .. n : next[k] = clock[k]
  <2> DEFINE later == [k \in 0 .. Slots |-> IF k = n + 1 THEN ticks' ELSE clock[k]]
  <2>1. ticks' \in Nat
    BY <1>3, <1>5, <1>7
  <2>2. later \in [0 .. Slots -> Nat]
    BY <1>10, <2>1
  <2>3. n + 1 \in 0 .. Slots /\ \A k \in 0 .. n : k \in 0 .. Slots /\ k # n + 1
    BY <1>2 DEF Slots
  <2>4. later[n + 1] = ticks' /\ \A k \in 0 .. n : later[k] = clock[k]
    BY <2>3
  <2> HIDE DEF later
  <2> QED
    BY <2>2, <2>4
<1>14. ClockOf(next)'
  <2>1. ASSUME NEW k \in 1 .. n + 1
        PROVE  next[k] = next[k - 1] + sections'[k].speed
    <3>1. CASE k = n + 1
      <4>1. k - 1 = n /\ n \in 0 .. n
        BY <1>2, <3>1 DEF Slots
      <4> QED
        BY <1>5, <1>8, <1>10, <1>13, <3>1, <4>1
    <3>2. CASE k # n + 1
      <4>1. k \in 1 .. n /\ k \in 0 .. n /\ k - 1 \in 0 .. n
        BY <1>2, <3>2 DEF Slots
      <4> QED
        BY <1>9, <1>10, <1>13, <4>1
    <3> QED
      BY <3>1, <3>2
  <2>2. 0 \in 0 .. n
    BY <1>2 DEF Slots
  <2> QED
    BY <1>8, <1>10, <1>13, <2>1, <2>2 DEF ClockOf
<1>15. StandsStill(next)'
  <2>1. ASSUME NEW k \in 0 .. n + 1, k >= NumSections(effect)
        PROVE  next[k] = ticks'
    <3>1. CASE k = n + 1
      BY <1>13, <3>1
    <3>2. CASE k # n + 1
      <4>1. k \in 0 .. n /\ n >= NumSections(effect)
        BY <1>2, <1>12, <2>1, <3>2 DEF Slots
      <4> QED
        BY <1>4, <1>5, <1>7, <1>11, <1>13, <2>1, <4>1 DEF n
    <3> QED
      BY <3>1, <3>2
  <2> QED
    BY <1>5, <1>8, <2>1 DEF StandsStill
<1>16. PlaysBy(next)'
  BY <1>5, <1>6 DEF PlaysBy
<1> QED
  BY <1>14, <1>15, <1>16 DEF ClockInv

LEMMA UploadKeepsClock == Inv /\ ClockInv /\ Upload => ClockInv'
<1> SUFFICES ASSUME Inv, ClockInv, Upload PROVE ClockInv'
  OBVIOUS
<1>1. PICK clock : ClockOf(clock) /\ StandsStill(clock) /\ PlaysBy(clock)
  BY DEF ClockInv
<1>2. at' = 0 /\ elapsed' = 0
  BY DEF Inv, LightInv, Upload
<1>3. ClockOf(clock)' /\ StandsStill(clock)'
  BY <1>1 DEF ClockOf, StandsStill, Upload
<1>4. PlaysBy(clock)'
  BY <1>2, <1>3 DEF PlaysBy, ClockOf
<1> QED
  BY <1>3, <1>4 DEF ClockInv

\* What the keyboard plays is a section that was computed.
LEMMA PlaysSection ==
  ASSUME Inv, Play
  PROVE  LET s == program.sections[at + 1]
         IN  /\ Good(effect) /\ at \in 0 .. Slots - 1 /\ Len(sections) = Slots
             /\ program.ticks = ticks % (MaxU16 + 1)
             /\ s = sections[at + 1] /\ s.speed \in Nat
             /\ s.next = IF Last(effect, at) THEN 0 ELSE at + 1
<1>1. /\ Len(sections) = Slots /\ program.sections = sections
      /\ program.ticks = ticks % (MaxU16 + 1) /\ program # NoProgram
  BY DEF Inv, ProgramInv, Play
<1>2. Good(effect) /\ at \in 0 .. Slots - 1 /\ at < NumSections(effect)
  BY <1>1 DEF Inv, EffectInv, SectionsInv, LightInv, Play, Slots
<1>3. sections[at + 1] = SectionInfo(effect, at)
  <2>1. at + 1 \in 1 .. Len(sections) /\ (at + 1) - 1 = at
    BY <1>1, <1>2 DEF Slots
  <2> QED
    BY <1>1, <2>1 DEF Inv, SectionsInv
<1>4. /\ SectionInfo(effect, at).next = IF Last(effect, at) THEN 0 ELSE at + 1
      /\ SectionInfo(effect, at) \in Sections
  BY <1>2, SectionRamp
<1>5. SectionInfo(effect, at).speed \in Nat
  BY <1>4, U16Range DEF Sections
<1> QED
  BY <1>1, <1>2, <1>3, <1>4, <1>5

LEMMA PlayKeepsClock == Inv /\ ClockInv /\ Play => ClockInv'
<1> SUFFICES ASSUME Inv, ClockInv, Play PROVE ClockInv'
  OBVIOUS
<1>1. PICK clock : ClockOf(clock) /\ StandsStill(clock) /\ PlaysBy(clock)
  BY DEF ClockInv
<1> DEFINE s == program.sections[at + 1]
<1>2. /\ at' = s.next
      /\ elapsed' = IF s.next = 0 THEN 0 ELSE elapsed + s.speed
      /\ program # NoProgram /\ at < Slots
  BY DEF Play
<1>3. /\ at \in 0 .. Slots - 1 /\ Len(sections) = Slots /\ s = sections[at + 1]
      /\ s.next = IF Last(effect, at) THEN 0 ELSE at + 1
  BY PlaysSection
<1>4. ClockOf(clock)' /\ StandsStill(clock)'
  BY <1>1 DEF ClockOf, StandsStill, Play
<1>5. clock[0] = 0 /\ clock[at + 1] = clock[at] + sections[at + 1].speed
  <2>1. at + 1 \in 1 .. Len(sections) /\ (at + 1) - 1 = at
    BY <1>3 DEF Slots
  <2> QED
    BY <1>1, <2>1 DEF ClockOf
<1>6. clock[at] = elapsed
  BY <1>1, <1>2 DEF PlaysBy
<1> HIDE DEF s
<1>7. clock[at'] = elapsed'
  BY <1>2, <1>3, <1>5, <1>6
<1>8. PlaysBy(clock)'
  BY <1>7 DEF PlaysBy
<1> QED
  BY <1>4, <1>8 DEF ClockInv

\* Whatever is asked for, there is such a clock in every reachable state.
THEOREM ClockExists == Spec => []ClockInv
<1>1. Inv /\ ClockInv /\ UNCHANGED vars => ClockInv'
  <2> SUFFICES ASSUME ClockInv, UNCHANGED vars PROVE ClockInv'
    OBVIOUS
  <2>1. PICK clock : ClockOf(clock) /\ StandsStill(clock) /\ PlaysBy(clock)
    BY DEF ClockInv
  <2>2. ClockOf(clock)' /\ StandsStill(clock)' /\ PlaysBy(clock)'
    BY <2>1 DEF ClockOf, StandsStill, PlaysBy, vars
  <2> QED
    BY <2>2 DEF ClockInv
<1>2. Inv /\ ClockInv /\ [Next]_vars => ClockInv'
  BY <1>1, PrepareKeepsClock, AddSectionKeepsClock, UploadKeepsClock, PlayKeepsClock
     DEF Next
<1> QED
  BY ClockInit, Invariance, <1>2, PTL DEF Spec

\* A loop takes as long as the trailer says, for all colors, positions and
\* speeds whose durations come to no more than sixteen bits can say.
THEOREM LoopIsOnTime == Spec => LoopTakesItsTime
<1>1. ASSUME Inv, ClockInv, Play, at' = 0, ticks <= MaxU16
      PROVE  elapsed + program.sections[at + 1].speed = program.ticks
  <2>1. PICK clock : ClockOf(clock) /\ StandsStill(clock) /\ PlaysBy(clock)
    BY <1>1 DEF ClockInv
  <2> DEFINE s == program.sections[at + 1]
  <2>2. /\ Good(effect) /\ at \in 0 .. Slots - 1 /\ Len(sections) = Slots
        /\ program.ticks = ticks % (MaxU16 + 1) /\ s = sections[at + 1]
        /\ s.next = IF Last(effect, at) THEN 0 ELSE at + 1
    BY <1>1, PlaysSection
  <2>3. at' = s.next /\ program # NoProgram /\ at < Slots /\ effect # NoEffect
    BY <1>1, <2>2 DEF Play, Inv, SectionsInv, Slots
  <2>4. at + 1 = NumSections(effect)
    <3>1. NumSections(effect) \in Int
      BY <2>2, NumSectionsType
    <3>2. Last(effect, at)
      BY <1>1, <2>2, <2>3 DEF Slots
    <3> QED
      BY <2>2, <3>1, <3>2 DEF Last, Slots
  <2>5. /\ at + 1 \in 1 .. Len(sections) /\ at + 1 \in 0 .. Len(sections)
        /\ (at + 1) - 1 = at /\ at + 1 >= NumSections(effect)
    BY <2>2, <2>4 DEF Slots
  <2>6. clock[at + 1] = ticks /\ clock[at + 1] = clock[at] + s.speed /\ clock[at] = elapsed
    BY <2>1, <2>2, <2>3, <2>5 DEF ClockOf, StandsStill, PlaysBy
  <2>7. ticks % (MaxU16 + 1) = ticks
    BY <1>1 DEF Inv, SectionsInv, MaxU16
  <2> QED
    BY <2>2, <2>6, <2>7
<1>2. Inv /\ ClockInv /\ [Next]_vars =>
        [Play /\ at' = 0 /\ ticks <= MaxU16 =>
           elapsed + program.sections[at + 1].speed = program.ticks]_vars
  BY <1>1
<1> QED
  BY <1>2, Invariance, ClockExists, PTL DEF Spec, LoopTakesItsTime

\* Where the finding of the run effect_long ends: an effect of no more sections
\* than the program has room for never leads the keyboard out of it.  That is
\* breathe up to 8 colors, or 7 with a padding section; all 14 of a colorshift.
THEOREM ShortProgramsStay ==
  Spec => [](program # NoProgram /\ NumSections(effect) <= Slots => StaysInProgram)
<1>1. ASSUME Inv, program # NoProgram, NumSections(effect) <= Slots
      PROVE  StaysInProgram
  <2>1. at \in Int /\ at < NumSections(effect) /\ Slots \in Int
    BY <1>1 DEF Inv, LightInv, Slots
  <2>2. NumSections(effect) \in Int
    <3>0. SectionsInv /\ Len(sections) = Slots
      BY <1>1 DEF Inv, ProgramInv
    <3>1. effect # NoEffect
      BY <3>0 DEF SectionsInv, Slots
    <3>2. Good(effect)
      BY <1>1, <3>1 DEF Inv, EffectInv
    <3> QED
      BY <3>2, NumSectionsType
  <2> QED
    BY <1>1, <2>1, <2>2 DEF StaysInProgram
<1>2. Inv => (program # NoProgram /\ NumSections(effect) <= Slots => StaysInProgram)
  BY <1>1
<1> QED
  BY <1>2, Invariance, PTL
=============================================================================
