----------------------------- MODULE KlcEffect -----------------------------
(***************************************************************************)
(* msi-klc effect: the program of sections that `breathe`, `colorshift`    *)
(* and `wave` upload, and the light the keyboard makes of it.              *)
(*                                                                         *)
(* The three color channels are computed alike and apart: a color here is  *)
(* one channel.  External: the keyboard's interpolator, as KLC-PROTOCOL.md *)
(* has it, which adds a section's delta to the light at each tick, goes on *)
(* to the section's next and snaps to the initial color at section 0.      *)
(***************************************************************************)
EXTENDS Integers, Sequences

CONSTANTS
  Commands    \* what users ask for: mode, colors, speed, positions, and the
              \*   brightness it is rendered at

Byte   == 0 .. 255
MaxU16 == 65535
U16    == 0 .. MaxU16

Modes == {"breathe", "colorshift", "wave"}

ASSUME EffectAssumption ==
  \A c \in Commands :
    /\ c.mode \in Modes
    /\ c.colors \in Seq(Byte)
    /\ c.speed \in U16
    /\ c.positions \in Seq(Byte)
    /\ c.brightness \in Byte

MaxEffectColors == 14
Slots == 16             \* sections in a program

VARIABLES
  cmd,        \* the command
  effect,     \* the LightingEffect, or NoEffect
  sections,   \* the sections computed so far
  ticks,      \* the sum of their durations
  program,    \* what the keyboard has been sent: sections, their number, the
              \*   length of a loop and the initial color; or NoProgram
  at,         \* the section the keyboard is about to play
  light,      \* its light, in sixteenths of a level
  elapsed     \* the ticks it has played since it last snapped

vars == <<cmd, effect, sections, ticks, program, at, light, elapsed>>

NoEffect  == [type |-> "disabled"]
NoProgram == [num |-> 0]

-----------------------------------------------------------------------------
(* The arithmetic.                                                         *)

\* Rust's / rounds towards zero.
Quot(a, b) == IF a >= 0 THEN a \div b ELSE -((-a) \div b)

\* scale_channel: v * brightness/255, rounded.
Scaled(v, brightness) == (2 * v * brightness + 255) \div 510

\* Mutant: a negative delta is not wrapped.
ScaledUnwrapped(initial, final, speed) == Quot(16 * (final - initial), speed)

ScaledUint8(initial, final, speed) == Quot(16 * (final - initial), speed) % 256

\* What the keyboard makes of such a byte.
Signed(b) == IF b < 128 THEN b ELSE b - 256

\* validate_command
Valid(c) ==
  /\ Len(c.colors) \in 1 .. MaxEffectColors
  /\ c.positions # <<>> =>
       /\ Len(c.positions) = Len(c.colors)
       /\ \A i \in DOMAIN c.positions : c.positions[i] <= 100

\* command_to_frame: keyframes are spaced evenly unless they are given.
Positions(c) ==
  IF c.positions # <<>> THEN c.positions
  ELSE [i \in DOMAIN c.colors |-> ((i - 1) * 100) \div Len(c.colors)]

\* apply_effect: the palette dims with the brightness.
Effect(c) ==
  [type |-> IF c.mode = "breathe" THEN "breathe" ELSE "colorshift",
   colors |-> [i \in DOMAIN c.colors |-> Scaled(c.colors[i], c.brightness)],
   speed |-> c.speed,
   positions |-> Positions(c)]

\* to_bytes: unused colors and positions are 0.
Color(e, i)    == IF i < Len(e.colors) THEN e.colors[i + 1] ELSE 0
Position(e, i) == IF i < Len(e.positions) THEN e.positions[i + 1] ELSE 0

\* 1 if a first section leads up to a first position other than 0.
Padding(e) == IF Position(e, 0) # 0 THEN 1 ELSE 0

NumSections(e) ==
  Padding(e) + IF e.type = "breathe" THEN 2 * Len(e.colors) ELSE Len(e.colors)

\* Mutant: no limit.
DurationUnlimited(e, percent) ==
  LET speed == Quot(e.speed * percent, 100)
  IN  IF speed < 1 THEN 1 ELSE speed

\* Not faster than 33 ticks, whose deltas just fit a signed byte.
Duration(e, percent) ==
  LET speed == Quot(e.speed * percent, 100)
  IN  IF speed < 33 THEN 33 ELSE speed

Last(e, k) == k = NumSections(e) - 1

Section(e, k, initial, final, percent) ==
  LET speed == Duration(e, percent) IN
  [speed |-> speed,
   diff  |-> ScaledUint8(initial, final, speed),
   next  |-> IF Last(e, k) THEN 0 ELSE k + 1]

ZeroSection == [speed |-> 0, diff |-> 0, next |-> 0]

\* Mutant: the padding section is forgotten in the colors.
ColorshiftUnpadded(e, k) ==
  LET p       == Padding(e)
      initial == IF k = 0 THEN 0 ELSE k - p
      final   == IF Last(e, k) THEN 0 ELSE k + 1 - p
      from    == IF k = 0 THEN 0 ELSE Position(e, initial)
      to      == IF Last(e, k) THEN 100 ELSE Position(e, final)
  IN  Section(e, k, Color(e, k), Color(e, final), to - from)

\* colorshift_section_info: from a keyframe to the next.
ColorshiftSection(e, k) ==
  LET p       == Padding(e)
      initial == IF k = 0 THEN 0 ELSE k - p
      final   == IF Last(e, k) THEN 0 ELSE k + 1 - p
      from    == IF k = 0 THEN 0 ELSE Position(e, initial)
      to      == IF Last(e, k) THEN 100 ELSE Position(e, final)
  IN  Section(e, k, Color(e, initial), Color(e, final), to - from)

\* breathe_section_info: from a keyframe down to black, or up from black to the
\* next; the padding section stays at the first color.
BreatheSection(e, k) ==
  LET p       == Padding(e)
      lead    == p = 1 /\ k = 0
      down    == ~lead /\ (k - p) % 2 = 0
      initial == IF lead THEN 0 ELSE (k - p) \div 2
      final   == IF Last(e, k) \/ lead THEN 0 ELSE initial + 1
      from    == IF k = 0 THEN 0 ELSE Position(e, initial)
      to      == IF k >= NumSections(e) - 2 THEN 100 ELSE Position(e, final)
  IN  Section(e, k, IF down \/ lead THEN Color(e, initial) ELSE 0,
                    IF down THEN 0 ELSE Color(e, final),
                    Quot(to - from, 2))

SectionInfo(e, k) ==
  IF k >= NumSections(e) THEN ZeroSection
  ELSE IF e.type = "breathe" THEN BreatheSection(e, k) ELSE ColorshiftSection(e, k)

-----------------------------------------------------------------------------

Init ==
  /\ cmd \in Commands
  /\ effect = NoEffect /\ sections = <<>> /\ ticks = 0 /\ program = NoProgram
  /\ at = 0 /\ light = 0 /\ elapsed = 0

\* An invalid command is refused and nothing is sent.
Prepare ==
  /\ effect = NoEffect /\ Valid(cmd)
  /\ effect' = Effect(cmd)
  /\ UNCHANGED <<cmd, sections, ticks, program, at, light, elapsed>>

AddSection ==
  /\ effect # NoEffect /\ Len(sections) < Slots
  /\ LET info == SectionInfo(effect, Len(sections)) IN
       /\ sections' = Append(sections, info)
       /\ ticks' = ticks + info.speed
  /\ UNCHANGED <<cmd, effect, program, at, light, elapsed>>

\* Mutant: the length asked for is announced, not what the sections come to.
UploadAsked ==
  /\ Len(sections) = Slots /\ program = NoProgram
  /\ program' = [sections |-> sections, num |-> NumSections(effect),
                 ticks |-> effect.speed, init |-> 16 * Color(effect, 0)]
  /\ light' = 16 * Color(effect, 0)
  /\ UNCHANGED <<cmd, effect, sections, ticks, at, elapsed>>

\* effect_bytes_trailer, the upload and its commit.
Upload ==
  /\ Len(sections) = Slots /\ program = NoProgram
  /\ program' = [sections |-> sections, num |-> NumSections(effect),
                 ticks |-> ticks % (MaxU16 + 1), init |-> 16 * Color(effect, 0)]
  /\ light' = 16 * Color(effect, 0)
  /\ UNCHANGED <<cmd, effect, sections, ticks, at, elapsed>>

\* The keyboard plays a section of the program.
Play ==
  /\ program # NoProgram /\ at < Slots
  /\ LET s == program.sections[at + 1] IN
       /\ at' = s.next
       /\ light' = IF s.next = 0 THEN program.init ELSE light + s.speed * Signed(s.diff)
       /\ elapsed' = IF s.next = 0 THEN 0 ELSE elapsed + s.speed
  /\ UNCHANGED <<cmd, effect, sections, ticks, program>>

Next == Prepare \/ AddSection \/ Upload \/ Play

Spec == Init /\ [][Next]_vars

-----------------------------------------------------------------------------
(* Properties.                                                             *)

Effects  == [type : {"breathe", "colorshift"}, colors : Seq(Byte), speed : U16,
             positions : Seq(0 .. 100)]
Sections == [speed : U16, diff : Byte, next : 0 .. Slots]

TypeOK ==
  /\ cmd \in Commands
  /\ effect \in Effects \union {NoEffect}
  /\ sections \in Seq(Sections) /\ Len(sections) <= Slots
  /\ ticks \in 0 .. Slots * MaxU16
  /\ program = NoProgram \/
       program \in [sections : Seq(Sections), num : 0 .. 2 * MaxEffectColors + 1,
                    ticks : U16, init : {16 * b : b \in Byte}]
  /\ at \in 0 .. Slots
  /\ light \in Int
  /\ elapsed \in Nat

\* The color a user has asked for where section k begins: with the padding
\* section it stays at the first color, then come the colors in turn, in
\* breathe each with black after it, and in the end the first again.
Keyframe(e, k) ==
  LET j == k - Padding(e)
  IN  IF j < 0 \/ k = NumSections(e) THEN Color(e, 0)
      ELSE IF e.type = "colorshift" THEN Color(e, j)
      ELSE IF j % 2 = 0 THEN Color(e, j \div 2) ELSE 0

\* protocol.rs: "Speed can't go below 33 because the deltas would exceed the
\* -127..127 range."  So a section moves the light towards the next keyframe,
\* never beyond, and stops short by less than a sixteenth of a level a tick.
DeltasFit ==
  \A k \in 1 .. Len(sections) :
    k <= NumSections(effect) =>
      LET way  == sections[k].speed * Signed(sections[k].diff)
          ramp == 16 * (Keyframe(effect, k) - Keyframe(effect, k - 1))
          rest == ramp - way
      IN  IF ramp >= 0 THEN way >= 0 /\ rest >= 0 /\ rest < sections[k].speed
          ELSE way <= 0 /\ rest <= 0 /\ -rest < sections[k].speed

\* Whatever colors, positions and speed were asked for, the light is at the
\* right keyframe when a section begins, but for what rounding has lost since
\* the loop began: a sixteenth of a level a tick.
LightFollowsKeyframes ==
  program # NoProgram /\ at < Slots =>
    LET miss == light - 16 * Keyframe(effect, at)
    IN  -elapsed <= miss /\ miss <= elapsed

\* A loop, from a first section to the return to it, takes as long as the trailer
\* says, whatever was cut off and however short a section has become; unless that
\* is longer than sixteen bits can say.
LoopTakesItsTime ==
  [][Play /\ at' = 0 /\ ticks <= MaxU16 =>
       elapsed + program.sections[at + 1].speed = program.ticks]_vars

\* main.rs: "Colors for the effect (hex RRGGBB), up to 14."  The program has a
\* section for whatever comes next.
StaysInProgram == program # NoProgram => at < Slots
=============================================================================
