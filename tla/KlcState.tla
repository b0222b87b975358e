------------------------------ MODULE KlcState ------------------------------
(***************************************************************************)
(* msi-klc: the commands that light the keyboard, the daemon that follows  *)
(* the desktop's brightness slider, and what they share: the controller,   *)
(* which shows on commit whatever reports anybody has sent it, the state   *)
(* file, which each of them loads, works on and saves without a lock, and  *)
(* the uleds LED.                                                          *)
(*                                                                         *)
(* External: the controller, the uleds module (a read returns the current  *)
(* value once it has changed) and systemd's SIGTERM.                       *)
(***************************************************************************)
EXTENDS Naturals, FiniteSets

CONSTANTS
  Clis,       \* processes that run a command at a time
  Daemon,     \* the process that runs `msi-klc daemon`
  NParts,     \* parts of the keyboard, one report each (six region groups)
  Frames,     \* logical frames: the parts a frame has reports for
  NoFrame,    \* no frame was applied yet
  Full,       \* brightness 255
  MaxSteps,   \* --max-steps of the daemon
  Raw,        \* unscaled
  NoLed,      \* there is no uleds LED
  Commands    \* what the users run

Procs  == Clis \union {Daemon}
Parts  == 1 .. NParts
Levels == 0 .. Full

States == [brightness : Levels, frame : Frames \union {NoFrame}]
Lights == [frame : Frames, level : Levels \union {Raw}]

Applies     == [op : {"apply"}, frame : Frames, raw : BOOLEAN]
Brightness  == [op : {"brightness"}, level : Levels]

ASSUME KlcAssumption ==
  /\ Daemon \notin Clis
  /\ NParts \in Nat
  /\ Frames \subseteq SUBSET Parts
  /\ NoFrame \notin Frames
  /\ Full \in Nat /\ MaxSteps \in Nat
  /\ Raw \notin Levels /\ NoLed \notin 0 .. MaxSteps
  /\ Commands \subseteq Applies \union Brightness

VARIABLES
  file,       \* state.json: a set of at most one state, empty when it is
              \*   absent, truncated or not yet written
  staged,     \* the controller's color buffer, by part; {} where never set
  shown,      \* what is lit, by part
  led,        \* the LED's brightness, or NoLed
  fresh,      \* the LED changed since the daemon read it
  terminated, \* the daemon's TERMINATE flag
  pc, cmd,    \* of each process: where it is and what it runs
  st,         \* of each process: the state it loaded
  scale,      \* of each process: the brightness it renders at
  todo,       \* of each process: the parts it has not sent yet
  alone,      \* (history) the processes nobody has run beside since they started
  synced,     \* (history) a run has made the file and the LED agree, and nothing
              \*   has gone wrong since
  last        \* (history) the frame the last command stored, if no runs have
              \*   overlapped and none has failed since it began

world     == <<file, staged, shown>>
ledVars   == <<led, fresh, terminated>>
history   == <<alone, synced, last>>
localVars == <<cmd, st, scale, todo>>
vars == <<world, ledVars, pc, localVars, history>>

Default == [brightness |-> Full, frame |-> NoFrame]
Nothing == [op |-> "none"]
Light(p) == [frame |-> st[p].frame, level |-> scale[p]]

Idle    == {"idle", "down", "loop", "reading", "finish"}
Active  == {p \in Procs : pc[p] \notin Idle}

Init ==
  /\ file = {}
  /\ staged = [i \in Parts |-> {}] /\ shown = [i \in Parts |-> {}]
  /\ led = NoLed /\ fresh = FALSE /\ terminated = FALSE
  /\ pc = [p \in Procs |-> IF p = Daemon THEN "down" ELSE "idle"]
  /\ cmd = [p \in Procs |-> Nothing]
  /\ st = [p \in Procs |-> Default]
  /\ scale = [p \in Procs |-> Full]
  /\ todo = [p \in Procs |-> {}]
  /\ alone = {} /\ synced = FALSE /\ last = NoFrame

Goto(p, l) == pc' = [pc EXCEPT ![p] = l]

\* A run begins: whoever else is active is no longer alone.
Begin(p, c, l) ==
  /\ cmd' = [cmd EXCEPT ![p] = c]
  /\ Goto(p, l)
  /\ alone' = IF Active = {} THEN {p} ELSE {}
  /\ synced' = (synced /\ Active = {})
  /\ last' = IF Active = {} THEN last ELSE NoFrame

-----------------------------------------------------------------------------
(* A run of a command, or of apply_brightness in the daemon.               *)

\* main: what is valid and finds its device starts.
Invoke(p, c) ==
  /\ p \in Clis /\ pc[p] = "idle"
  /\ Begin(p, c, IF c.op = "brightness" THEN "peek" ELSE "load")
  /\ UNCHANGED <<world, ledVars, st, scale, todo>>

\* Mutant: the frame of a stored state is not read back.
LoadedFrameless(s) ==
  IF file = {} THEN s = Default ELSE \E f \in file : s = [f EXCEPT !.frame = NoFrame]

\* state::load: a missing or unreadable file is full brightness and no frame.
Loaded(s) == IF file = {} THEN s = Default ELSE s \in file

\* cmd_brightness_set looks for a frame first.  Without one it loads again and
\* saves.
Peek(p) ==
  /\ pc[p] = "peek"
  /\ \E s \in States :
       /\ Loaded(s)
       /\ Goto(p, IF s.frame = NoFrame THEN "store" ELSE "load")
  /\ UNCHANGED <<world, ledVars, localVars, history>>

LoadToStore(p) ==
  /\ pc[p] = "store"
  /\ \E s \in States :
       /\ Loaded(s)
       /\ st' = [st EXCEPT ![p] = [s EXCEPT !.brightness = cmd[p].level]]
  /\ Goto(p, "truncate")
  /\ UNCHANGED <<world, ledVars, cmd, scale, todo, history>>

\* Mutant: --raw stores full brightness with its frame.
LoadRaw(p) ==
  /\ pc[p] = "load" /\ cmd[p].op = "apply"
  /\ \E s \in States :
       /\ Loaded(s)
       /\ st' = [st EXCEPT ![p] =
                   [brightness |-> IF cmd[p].raw THEN Full ELSE s.brightness,
                    frame |-> cmd[p].frame]]
       /\ scale' = [scale EXCEPT ![p] = IF cmd[p].raw THEN Raw ELSE s.brightness]
  /\ todo' = [todo EXCEPT ![p] = cmd[p].frame]
  /\ Goto(p, "send")
  /\ UNCHANGED <<world, ledVars, cmd, history>>

\* A command that applies a frame: at the stored brightness, or with --raw at none.
LoadToApply(p) ==
  /\ pc[p] = "load" /\ cmd[p].op = "apply"
  /\ \E s \in States :
       /\ Loaded(s)
       /\ st' = [st EXCEPT ![p] = [s EXCEPT !.frame = cmd[p].frame]]
       /\ scale' = [scale EXCEPT ![p] = IF cmd[p].raw THEN Raw ELSE s.brightness]
  /\ todo' = [todo EXCEPT ![p] = cmd[p].frame]
  /\ Goto(p, "send")
  /\ UNCHANGED <<world, ledVars, cmd, history>>

\* apply_brightness: the stored frame, if there is one, at a new brightness.
LoadToDim(p) ==
  /\ pc[p] = "load" /\ cmd[p].op = "brightness"
  /\ \E s \in States :
       /\ Loaded(s)
       /\ st' = [st EXCEPT ![p] = [s EXCEPT !.brightness = cmd[p].level]]
       /\ scale' = [scale EXCEPT ![p] = cmd[p].level]
       /\ IF s.frame = NoFrame
            THEN Goto(p, "truncate") /\ UNCHANGED todo
            ELSE Goto(p, "send") /\ todo' = [todo EXCEPT ![p] = s.frame]
  /\ UNCHANGED <<world, ledVars, cmd, history>>

\* One feature report, for the next part in order.
Send(p) ==
  /\ pc[p] = "send"
  /\ \E i \in todo[p] :
       /\ \A j \in todo[p] : i <= j
       /\ staged' = [staged EXCEPT ![i] = {Light(p)}]
       /\ todo' = [todo EXCEPT ![p] = @ \ {i}]
  /\ UNCHANGED <<file, shown, ledVars, pc, cmd, st, scale, history>>

\* Mutant: the commit goes out before the last report.
CommitEarly(p) ==
  /\ pc[p] = "send" /\ Cardinality(todo[p]) <= 1
  /\ shown' = staged
  /\ todo' = [todo EXCEPT ![p] = {}]
  /\ Goto(p, "truncate")
  /\ UNCHANGED <<file, staged, ledVars, cmd, st, scale, history>>

\* The commit shows the whole buffer, whoever has sent it.
Commit(p) ==
  /\ pc[p] = "send" /\ todo[p] = {}
  /\ shown' = staged
  /\ Goto(p, "truncate")
  /\ UNCHANGED <<file, staged, ledVars, localVars, history>>

\* std::fs::write truncates the file and then writes it.
Truncate(p) ==
  /\ pc[p] = "truncate"
  /\ file' = {}
  /\ Goto(p, "write")
  /\ UNCHANGED <<staged, shown, ledVars, localVars, history>>

Write(p) ==
  /\ pc[p] = "write"
  /\ file' = {st[p]}
  /\ Goto(p, IF p \in Clis /\ cmd[p].op = "brightness" THEN "mirror" ELSE "finish")
  /\ synced' = (synced \/ (p = Daemon /\ p \in alone))
  /\ last' = IF p \notin alone THEN NoFrame
             ELSE IF cmd[p].op = "apply" THEN cmd[p].frame ELSE last
  /\ UNCHANGED <<staged, shown, ledVars, localVars, alone>>

\* The uleds module reports a value only when it differs.
SetLed(v) ==
  /\ led' = v
  /\ fresh' = (fresh \/ v # led)
  /\ UNCHANGED terminated

Least(a, b) == IF a < b THEN a ELSE b

\* sync_led_sysfs, if the LED is there; the LED core clips to max_brightness.
Mirror(p) ==
  /\ pc[p] = "mirror"
  /\ IF led = NoLed THEN UNCHANGED ledVars ELSE SetLed(Least(cmd[p].level, MaxSteps))
  /\ Goto(p, "finish")
  /\ synced' = (p \in alone /\ led # NoLed)
  /\ UNCHANGED <<world, localVars, alone, last>>

\* What the LED core refuses is only a message.
MirrorFails(p) ==
  /\ pc[p] = "mirror" /\ led # NoLed
  /\ Goto(p, "finish")
  /\ synced' = FALSE
  /\ UNCHANGED <<world, ledVars, localVars, alone, last>>

\* A run ends, at l.
Leave(p, l) ==
  /\ Goto(p, l)
  /\ cmd' = [cmd EXCEPT ![p] = Nothing]
  /\ st' = [st EXCEPT ![p] = Default]
  /\ scale' = [scale EXCEPT ![p] = Full]
  /\ todo' = [todo EXCEPT ![p] = {}]

Rest(p) == IF p = Daemon THEN "loop" ELSE "idle"

Finish(p) ==
  /\ pc[p] = "finish"
  /\ Leave(p, Rest(p))
  /\ UNCHANGED <<world, ledVars, history>>

GiveUp(p) ==
  /\ alone' = alone \ {p}
  /\ synced' = FALSE
  /\ last' = NoFrame

\* The device cannot be opened, a report or the commit fails, or the file
\* cannot be opened or written: what was done stays done.
Fail(p) ==
  /\ pc[p] \in {"load", "send", "truncate", "write"}
  /\ Leave(p, Rest(p))
  /\ GiveUp(p)
  /\ UNCHANGED <<world, ledVars>>

-----------------------------------------------------------------------------
(* The daemon.                                                             *)

\* register_uleds.  The module may report its initial 0 at once.
Register ==
  /\ pc[Daemon] = "down"
  /\ led' = 0
  /\ fresh' \in BOOLEAN
  /\ terminated' = FALSE
  /\ Goto(Daemon, "loop")
  /\ synced' = FALSE
  /\ UNCHANGED <<world, localVars, alone, last>>

EnterRead ==
  /\ pc[Daemon] = "loop"
  /\ Goto(Daemon, "reading")
  /\ UNCHANGED <<world, ledVars, localVars, history>>

\* Mutant: a value above 255 is taken as it is.
ReadUnclamped ==
  /\ pc[Daemon] = "reading" /\ fresh
  /\ fresh' = FALSE
  /\ Begin(Daemon, [op |-> "brightness", level |-> led], "load")
  /\ UNCHANGED <<world, led, terminated, st, scale, todo>>

Read ==
  /\ pc[Daemon] = "reading" /\ fresh
  /\ fresh' = FALSE
  /\ Begin(Daemon, [op |-> "brightness", level |-> Least(led, Full)], "load")
  /\ UNCHANGED <<world, led, terminated, st, scale, todo>>

\* Closing /dev/uleds removes the LED.
RemoveLed == led' = NoLed /\ fresh' = FALSE

\* SIGTERM.  Only a read that it interrupts looks at the flag, and one that has
\* a value to return is not interrupted.
Terminate ==
  /\ pc[Daemon] # "down" /\ ~terminated
  /\ terminated' = TRUE
  /\ IF pc[Daemon] = "reading" /\ ~fresh
       THEN Goto(Daemon, "down") /\ RemoveLed /\ synced' = FALSE
       ELSE UNCHANGED <<led, fresh, pc, synced>>
  /\ UNCHANGED <<world, localVars, alone, last>>

\* A crash, SIGKILL, or an interrupt of a command.
Kill(p) ==
  /\ pc[p] \notin {"idle", "down"}
  /\ IF p = Daemon THEN RemoveLed ELSE UNCHANGED <<led, fresh>>
  /\ Leave(p, IF p = Daemon THEN "down" ELSE "idle")
  /\ GiveUp(p)
  /\ UNCHANGED <<world, terminated>>

\* The desktop moves its slider.
SetBrightness(v) ==
  /\ led # NoLed
  /\ SetLed(v)
  /\ UNCHANGED <<world, pc, localVars, history>>

Step(p) ==
  \/ Peek(p)
  \/ LoadToStore(p)
  \/ LoadToApply(p)
  \/ LoadToDim(p)
  \/ Send(p)
  \/ Commit(p)
  \/ Truncate(p)
  \/ Write(p)
  \/ Mirror(p)
  \/ MirrorFails(p)
  \/ Finish(p)
  \/ Fail(p)

Next ==
  \/ \E p \in Procs : Step(p) \/ Kill(p)
  \/ \E c \in Clis, k \in Commands : Invoke(c, k)
  \/ \E v \in 0 .. MaxSteps : SetBrightness(v)
  \/ Register
  \/ EnterRead
  \/ Read
  \/ Terminate

Spec == Init /\ [][Next]_vars

-----------------------------------------------------------------------------
(* Properties.                                                             *)

TypeOK ==
  /\ file = {} \/ \E s \in States : file = {s}
  /\ staged \in [Parts -> SUBSET Lights] /\ shown \in [Parts -> SUBSET Lights]
  /\ led \in 0 .. MaxSteps \union {NoLed}
  /\ fresh \in BOOLEAN /\ terminated \in BOOLEAN
  /\ DOMAIN pc = Procs
  /\ cmd \in [Procs -> Applies \union Brightness \union {Nothing}]
  /\ st \in [Procs -> States]
  /\ scale \in [Procs -> Levels \union {Raw}]
  /\ todo \in [Procs -> SUBSET Parts]
  /\ alone \subseteq Procs
  /\ synced \in BOOLEAN
  /\ last \in Frames \union {NoFrame}

\* A run that nobody ran beside has lit every part of its frame at its level,
\* and that is what it has stored, whatever half-done runs, crashes and
\* truncated files came before it.
SoloRunsApply ==
  \A p \in alone :
    pc[p] = "finish" =>
      /\ file = {st[p]}
      /\ st[p].frame # NoFrame => \A i \in st[p].frame : shown[i] = {Light(p)}

Quiet == Active = {} /\ ~fresh

\* Once a brightness has come through, the slider shows the stored brightness
\* through any commands, as long as no two runs overlap and none fails.
OsdInSync ==
  Quiet /\ synced => \E s \in file : s.brightness = Least(led, Full)

\* state.rs: "Last applied logical frame (pre-brightness), if any has been
\* applied."  A frame that a command has stored stays stored, through every
\* brightness that commands and the daemon store after it, as long as no two
\* runs overlap and none fails.
LastFrameIsKept ==
  Quiet /\ last # NoFrame => \E s \in file : s.frame = last
=============================================================================
