--------------------------- MODULE KlcStateProofs ---------------------------
(* Proofs about KlcState, for any commands, frames and parts, and any      *)
(* number of processes that run commands.                                  *)
EXTENDS KlcState, TLAPS

Pcs == {"idle", "peek", "store", "load", "send", "truncate", "write", "mirror",
        "finish", "down", "loop", "reading"}

PcInv ==
  /\ pc \in [Procs -> Pcs]
  /\ \A p \in Procs :
       /\ pc[p] = "idle" => p # Daemon
       /\ pc[p] \in {"down", "loop", "reading"} => p = Daemon

Working == {"load", "send", "truncate", "write"}

\* What a process has in hand at each step of a run.
RunInv == \A p \in Procs :
  /\ pc[p] \in {"peek", "store", "mirror"} => p # Daemon /\ cmd[p] \in Brightness
  /\ pc[p] \in Working => cmd[p] \in Applies \union Brightness
  /\ pc[p] \in Working /\ p = Daemon => cmd[p] \in Brightness
  /\ pc[p] = "send" => st[p].frame \in Frames /\ todo[p] \subseteq st[p].frame
  /\ pc[p] \in {"send", "truncate", "write", "mirror"} /\ cmd[p].op = "brightness" =>
       st[p].brightness = cmd[p].level

\* While a run is alone nobody else is active.
AloneInv == \A p \in alone : \A q \in Procs \ {p} : pc[q] \in Idle

\* A run that is alone finds the file as it left it, and its reports in the
\* controller.
SoloInv == \A p \in alone :
  /\ pc[p] = "store" => \A s \in file : s.frame = NoFrame
  /\ pc[p] = "send" => \A i \in st[p].frame \ todo[p] : staged[i] = {Light(p)}
  /\ pc[p] \in {"truncate", "write", "mirror", "finish"} /\ st[p].frame # NoFrame =>
       \A i \in st[p].frame : shown[i] = {Light(p)}
  /\ pc[p] \in {"mirror", "finish"} => file = {st[p]}

\* The LED is there while the daemon is.
LedInv ==
  /\ pc[Daemon] = "down" <=> led = NoLed
  /\ fresh => led # NoLed

\* What the slider shows, as a brightness.
Slider == Least(led, Full)

\* What the daemon has read is what the slider shows, or it will read again.
DaemonInv == pc[Daemon] \in Working => fresh \/ cmd[Daemon].level = Slider

InSync == fresh \/ \E s \in file : s.brightness = Slider

\* Once the file and the LED agree only a run can make them differ, and it is
\* alone.  A command that keeps the brightness it has loaded stores it again.
\* This takes a slider with at least as many steps as brightnesses: with fewer
\* the LED core clips what a command mirrors.
SyncInv == synced /\ MaxSteps >= Full =>
  /\ led # NoLed
  /\ Active \subseteq alone
  /\ Active = {} => InSync
  /\ \A p \in Active : cmd[p].op = "apply" =>
       /\ pc[p] = "load" => InSync
       /\ pc[p] \in {"send", "truncate", "write"} =>
            fresh \/ st[p].brightness = Slider

IInv == TypeOK /\ PcInv /\ RunInv /\ AloneInv /\ SoloInv /\ LedInv /\ DaemonInv /\ SyncInv

-----------------------------------------------------------------------------

LEMMA InitInv == Init => IInv
<1> SUFFICES ASSUME Init PROVE IInv
  OBVIOUS
<1> USE KlcAssumption DEF Init
<1>1. TypeOK
  <2>1. Default \in States /\ Full \in Levels
    BY DEF States, Default, Levels
  <2>2. st \in [Procs -> States] /\ scale \in [Procs -> Levels \union {Raw}]
    BY <2>1
  <2>3. cmd \in [Procs -> Applies \union Brightness \union {Nothing}]
    OBVIOUS
  <2> QED
    BY <2>2, <2>3 DEF TypeOK, Procs
<1>2. PcInv
  BY DEF PcInv, Pcs, Procs
<1>3. RunInv
  BY DEF RunInv, Working, Procs
<1>4. AloneInv /\ SoloInv
  BY DEF AloneInv, SoloInv
<1>5. LedInv /\ DaemonInv /\ SyncInv
  BY DEF LedInv, DaemonInv, SyncInv, Working, Procs
<1> QED
  BY <1>1, <1>2, <1>3, <1>4, <1>5 DEF IInv

\* What state::load returns is a state.
LEMMA LoadedState ==
  ASSUME TypeOK, NEW s, Loaded(s)
  PROVE  s \in States
  BY KlcAssumption DEF TypeOK, Loaded, States, Default, Levels

\* A run that begins makes no difference but to itself.
LEMMA BeginInv ==
  ASSUME IInv, NEW p \in Procs, pc[p] \in {"idle", "reading"},
         NEW c \in Applies \union Brightness, NEW l \in {"peek", "load"},
         l = "peek" \/ p = Daemon => c \in Brightness,
         l = "peek" => p # Daemon,
         p = Daemon => c.level = Slider,
         Begin(p, c, l), UNCHANGED <<world, led, terminated, st, scale, todo>>,
         fresh' \in BOOLEAN, p # Daemon => fresh' = fresh, fresh' => fresh
  PROVE  IInv'
<1> USE DEF IInv, Begin, Goto, world
<1>1. TypeOK'
  BY DEF TypeOK
<1>2. PcInv'
  BY DEF PcInv, Pcs
<1>3. RunInv'
  BY DEF RunInv, PcInv, TypeOK, Working
<1>4. AloneInv'
  BY DEF AloneInv, PcInv, Active, Idle
<1>5. SoloInv'
  BY DEF SoloInv, PcInv
<1>6. LedInv'
  BY DEF LedInv, PcInv
<1>7. DaemonInv'
  BY DEF DaemonInv, Working, PcInv, TypeOK, Slider
<1>8. SyncInv'
  <2> SUFFICES ASSUME synced', MaxSteps >= Full PROVE SyncInv'
    BY DEF SyncInv
  <2>1. synced /\ Active = {} /\ InSync /\ led # NoLed
    BY DEF SyncInv
  <2>2. Active' = {p} /\ alone' = {p}
    BY <2>1 DEF Active, PcInv, Idle
  <2>3. pc'[p] = l /\ cmd'[p] = c
    BY DEF PcInv, TypeOK
  <2>4. c.op = "apply" => InSync'
    BY <2>1 DEF InSync, Slider, Brightness
  <2> QED
    BY <2>1, <2>2, <2>3, <2>4 DEF SyncInv
<1> QED
  BY <1>1, <1>2, <1>3, <1>4, <1>5, <1>6, <1>7, <1>8

LEMMA InvokeInv ==
  ASSUME IInv, NEW p \in Clis, NEW c \in Commands, Invoke(p, c)
  PROVE  IInv'
<1>1. /\ c \in Applies \union Brightness
      /\ c.op = "brightness" => c \in Brightness
      /\ p \in Procs /\ p # Daemon
  BY KlcAssumption DEF Applies, Brightness, Procs
<1>2. pc[p] = "idle"
  BY DEF Invoke
<1>3. UNCHANGED <<world, led, terminated, st, scale, todo>> /\ fresh' = fresh
  BY DEF Invoke, ledVars
<1>4. Begin(p, c, IF c.op = "brightness" THEN "peek" ELSE "load")
  BY DEF Invoke
<1>5. fresh' \in BOOLEAN
  BY <1>3 DEF IInv, TypeOK
<1> QED
  BY <1>1, <1>2, <1>3, <1>4, <1>5, BeginInv

LEMMA ReadInv ==
  ASSUME IInv, Read
  PROVE  IInv'
<1> DEFINE c == [op |-> "brightness", level |-> Least(led, Full)]
<1>1. Daemon \in Procs /\ pc[Daemon] = "reading"
  BY DEF Read, Procs
<1>2. led \in 0 .. MaxSteps
  BY <1>1 DEF IInv, TypeOK, LedInv
<1>3. Least(led, Full) \in Levels
  BY <1>2, KlcAssumption DEF Least, Levels
<1>4. c \in Brightness /\ c.level = Slider
  BY <1>3 DEF Brightness, Slider
<1>5. UNCHANGED <<world, led, terminated, st, scale, todo>> /\ fresh' = FALSE
  BY DEF Read
<1>6. Begin(Daemon, c, "load")
  BY DEF Read
<1> HIDE DEF c
<1> QED
  BY <1>1, <1>4, <1>5, <1>6, BeginInv

-----------------------------------------------------------------------------
(* Each of the other steps keeps the invariant.                            *)

LEMMA PeekInv ==
  ASSUME IInv, NEW p \in Procs, Peek(p)
  PROVE  IInv'
<1> USE DEF IInv, Peek, world, ledVars, history, localVars, Goto
<1>1. TypeOK'
  BY LoadedState DEF TypeOK
<1>2. PcInv'
  BY DEF PcInv, Pcs
<1>3. RunInv'
  BY LoadedState DEF RunInv
<1>4. AloneInv'
  BY DEF AloneInv, Idle
<1>5. SoloInv'
  BY DEF SoloInv, TypeOK, Light, Loaded
<1>6. LedInv'
  BY DEF LedInv
<1>7. DaemonInv'
  BY DEF RunInv, DaemonInv, Slider
<1>8. SyncInv'
  BY DEF SyncInv, RunInv, InSync, Slider, Active, Idle, Brightness
<1> QED
  BY <1>1, <1>2, <1>3, <1>4, <1>5, <1>6, <1>7, <1>8

LEMMA LoadToStoreInv ==
  ASSUME IInv, NEW p \in Procs, LoadToStore(p)
  PROVE  IInv'
<1> USE DEF IInv, LoadToStore, world, ledVars, history, localVars, Goto
<1>1. TypeOK'
  BY LoadedState DEF TypeOK, RunInv, States, Brightness
<1>2. PcInv'
  BY DEF PcInv, Pcs
<1>3. RunInv'
  BY LoadedState DEF RunInv, TypeOK
<1>4. AloneInv'
  BY DEF AloneInv, Idle
<1>5. SoloInv'
  BY DEF SoloInv, TypeOK, Light, Loaded, Default
<1>6. LedInv'
  BY DEF LedInv
<1>7. DaemonInv'
  BY DEF RunInv, DaemonInv, Slider
<1>8. SyncInv'
  BY DEF SyncInv, RunInv, InSync, Slider, Active, Idle, Brightness
<1> QED
  BY <1>1, <1>2, <1>3, <1>4, <1>5, <1>6, <1>7, <1>8

LEMMA LoadToApplyInv ==
  ASSUME IInv, NEW p \in Procs, LoadToApply(p)
  PROVE  IInv'
<1> USE DEF IInv, LoadToApply, world, ledVars, history, localVars, Goto
<1>1. TypeOK'
  BY KlcAssumption, LoadedState DEF TypeOK, RunInv, States, Applies,
     Brightness, Working
<1>2. PcInv'
  BY DEF PcInv, Pcs
<1>3. RunInv'
  BY LoadedState DEF RunInv, TypeOK, Working, Applies, Brightness
<1>4. AloneInv'
  BY DEF AloneInv, Idle
<1>5. SoloInv'
  BY DEF SoloInv, TypeOK, Light
<1>6. LedInv'
  BY DEF LedInv
<1>7. DaemonInv'
  BY DEF DaemonInv, Working, Slider
<1>8. SyncInv'
  BY DEF Loaded, SyncInv, TypeOK, InSync, Slider, Active, Idle
<1> QED
  BY <1>1, <1>2, <1>3, <1>4, <1>5, <1>6, <1>7, <1>8

LEMMA LoadToDimInv ==
  ASSUME IInv, NEW p \in Procs, LoadToDim(p)
  PROVE  IInv'
<1> USE DEF IInv, LoadToDim, world, ledVars, history, localVars, Goto
<1>1. TypeOK'
  BY KlcAssumption, LoadedState DEF TypeOK, RunInv, States, Applies,
     Brightness, Procs, Working
<1>2. PcInv'
  BY DEF PcInv, Pcs
<1>3. RunInv'
  BY LoadedState DEF RunInv, TypeOK, Working, States
<1>4. AloneInv'
  BY DEF AloneInv, PcInv, Idle
<1>5. SoloInv'
  BY DEF SoloInv, TypeOK, Light
<1>6. LedInv'
  BY DEF LedInv, PcInv, Procs
<1>7. DaemonInv'
  BY DEF DaemonInv, Working, TypeOK, Slider, Procs
<1>8. SyncInv'
  BY DEF SyncInv, TypeOK, InSync, Slider, Active, Idle
<1> QED
  BY <1>1, <1>2, <1>3, <1>4, <1>5, <1>6, <1>7, <1>8

LEMMA SendInv ==
  ASSUME IInv, NEW p \in Procs, Send(p)
  PROVE  IInv'
<1> USE DEF IInv, Send, world, ledVars, history, localVars, Goto
<1>1. TypeOK'
  BY DEF TypeOK, RunInv, Lights, Light
<1>2. PcInv'
  BY DEF PcInv
<1>3. RunInv'
  BY DEF RunInv
<1>4. AloneInv'
  BY DEF AloneInv
<1>5. SoloInv'
  BY DEF SoloInv, AloneInv, TypeOK, Light, Idle
<1>6. LedInv'
  BY DEF LedInv
<1>7. DaemonInv'
  BY DEF DaemonInv, Slider
<1>8. SyncInv'
  BY DEF SyncInv, InSync, Slider, Active
<1> QED
  BY <1>1, <1>2, <1>3, <1>4, <1>5, <1>6, <1>7, <1>8

LEMMA CommitInv ==
  ASSUME IInv, NEW p \in Procs, Commit(p)
  PROVE  IInv'
<1> USE DEF IInv, Commit, world, ledVars, history, localVars, Goto
<1>1. TypeOK'
  BY DEF TypeOK
<1>2. PcInv'
  BY DEF PcInv, Pcs
<1>3. RunInv'
  BY DEF RunInv, Working
<1>4. AloneInv'
  BY DEF AloneInv, Idle
<1>5. SoloInv'
  BY DEF SoloInv, AloneInv, Light, Idle
<1>6. LedInv'
  BY DEF LedInv
<1>7. DaemonInv'
  BY DEF DaemonInv, Working, Slider
<1>8. SyncInv'
  BY DEF SyncInv, InSync, Slider, Active, Idle
<1> QED
  BY <1>1, <1>2, <1>3, <1>4, <1>5, <1>6, <1>7, <1>8

LEMMA TruncateInv ==
  ASSUME IInv, NEW p \in Procs, Truncate(p)
  PROVE  IInv'
<1> USE DEF IInv, Truncate, world, ledVars, history, localVars, Goto
<1>1. TypeOK'
  BY DEF TypeOK
<1>2. PcInv'
  BY DEF PcInv, Pcs
<1>3. RunInv'
  BY DEF RunInv, Working
<1>4. AloneInv'
  BY DEF AloneInv, Idle
<1>5. SoloInv'
  BY DEF SoloInv, AloneInv, Light, Idle
<1>6. LedInv'
  BY DEF LedInv
<1>7. DaemonInv'
  BY DEF DaemonInv, Working, Slider
<1>8. SyncInv'
  BY DEF SyncInv, AloneInv, Slider, Active, Idle
<1> QED
  BY <1>1, <1>2, <1>3, <1>4, <1>5, <1>6, <1>7, <1>8

LEMMA WriteInv ==
  ASSUME IInv, NEW p \in Procs, Write(p)
  PROVE  IInv'
<1> USE DEF IInv, Write, world, ledVars, history, localVars, Goto
<1>1. TypeOK'
  BY DEF TypeOK, RunInv, Applies, Brightness, Working
<1>2. PcInv'
  BY DEF PcInv, Pcs
<1>3. RunInv'
  BY KlcAssumption DEF RunInv, Working, Applies
<1>4. AloneInv'
  BY DEF AloneInv, Idle
<1>5. SoloInv'
  BY DEF SoloInv, AloneInv, Light, Idle
<1>6. LedInv'
  BY DEF LedInv
<1>7. DaemonInv'
  BY DEF DaemonInv, Working, Slider
<1>8. SyncInv'
  BY DEF SyncInv, AloneInv, RunInv, DaemonInv, LedInv, TypeOK, InSync, Slider,
     Active, Idle, Working, Applies, Brightness, Procs
<1> QED
  BY <1>1, <1>2, <1>3, <1>4, <1>5, <1>6, <1>7, <1>8

LEMMA MirrorInv ==
  ASSUME IInv, NEW p \in Procs, Mirror(p)
  PROVE  IInv'
<1> USE DEF IInv, Mirror, world, ledVars, history, localVars, Goto, SetLed, Least
<1>0. cmd[p].level \in Nat /\ Least(cmd[p].level, MaxSteps) \in 0 .. MaxSteps
  BY KlcAssumption DEF RunInv, Brightness, Levels
<1>1. TypeOK'
  BY <1>0 DEF TypeOK
<1>2. PcInv'
  BY DEF PcInv, Pcs
<1>3. RunInv'
  BY DEF RunInv
<1>4. AloneInv'
  BY DEF AloneInv, Idle
<1>5. SoloInv'
  BY DEF SoloInv, Light
<1>6. LedInv'
  BY KlcAssumption, <1>0 DEF LedInv
<1>7. DaemonInv'
  BY DEF DaemonInv, Working, TypeOK, Slider, Procs
<1>8. SyncInv'
  BY KlcAssumption, <1>0 DEF SoloInv, Levels, SyncInv, AloneInv, RunInv,
     PcInv, TypeOK, InSync, Slider, Active, Idle, Brightness, Procs
<1> QED
  BY <1>1, <1>2, <1>3, <1>4, <1>5, <1>6, <1>7, <1>8

LEMMA MirrorFailsInv ==
  ASSUME IInv, NEW p \in Procs, MirrorFails(p)
  PROVE  IInv'
<1> USE DEF IInv, MirrorFails, world, ledVars, history, localVars, Goto
<1>1. TypeOK'
  BY DEF TypeOK
<1>2. PcInv'
  BY DEF PcInv, Pcs
<1>3. RunInv'
  BY DEF RunInv
<1>4. AloneInv'
  BY DEF AloneInv, Idle
<1>5. SoloInv'
  BY DEF SoloInv, Light
<1>6. LedInv'
  BY DEF LedInv
<1>7. DaemonInv'
  BY DEF DaemonInv, Working, Slider
<1>8. SyncInv'
  BY DEF SyncInv
<1> QED
  BY <1>1, <1>2, <1>3, <1>4, <1>5, <1>6, <1>7, <1>8

LEMMA FinishInv ==
  ASSUME IInv, NEW p \in Procs, Finish(p)
  PROVE  IInv'
<1> USE DEF IInv, Finish, world, ledVars, history, localVars, Goto, Leave, GiveUp, Rest
<1>1. TypeOK'
  BY KlcAssumption DEF TypeOK, States, Default, Levels
<1>2. PcInv'
  BY DEF PcInv, Pcs
<1>3. RunInv'
  BY DEF RunInv, Working
<1>4. AloneInv'
  BY DEF AloneInv, Idle
<1>5. SoloInv'
  BY DEF SoloInv, TypeOK, Light
<1>6. LedInv'
  BY DEF LedInv
<1>7. DaemonInv'
  BY DEF DaemonInv, Working, Slider
<1>8. SyncInv'
  BY DEF SyncInv, InSync, Slider, Active, Idle
<1> QED
  BY <1>1, <1>2, <1>3, <1>4, <1>5, <1>6, <1>7, <1>8

LEMMA FailInv ==
  ASSUME IInv, NEW p \in Procs, Fail(p)
  PROVE  IInv'
<1> USE DEF IInv, Fail, world, ledVars, history, localVars, Goto, Leave, GiveUp, Rest
<1>0. Default \in States /\ Full \in Levels
  BY KlcAssumption DEF States, Default, Levels
<1>1. TypeOK'
  BY <1>0 DEF TypeOK
<1>2. PcInv'
  BY DEF PcInv, Pcs
<1>3. RunInv'
  BY DEF RunInv, TypeOK, Working
<1>4. AloneInv'
  BY DEF AloneInv, Idle
<1>5. SoloInv'
  BY DEF SoloInv, Light
<1>6. LedInv'
  BY DEF LedInv
<1>7. DaemonInv'
  BY DEF DaemonInv, Working, TypeOK, Slider
<1>8. SyncInv'
  BY DEF SyncInv
<1> QED
  BY <1>1, <1>2, <1>3, <1>4, <1>5, <1>6, <1>7, <1>8

LEMMA RegisterInv ==
  ASSUME IInv, Register
  PROVE  IInv'
<1> USE DEF IInv, Register, world, ledVars, history, localVars, Goto
<1>1. TypeOK'
  <2>1. led' \in 0 .. MaxSteps
    <3>1. 0 \in 0 .. MaxSteps
      BY KlcAssumption
    <3> QED
      BY <3>1
  <2>2. fresh' \in BOOLEAN /\ terminated' \in BOOLEAN
    OBVIOUS
  <2>3. DOMAIN pc' = Procs /\ synced' \in BOOLEAN
    BY DEF TypeOK
  <2> QED
    BY <2>1, <2>2, <2>3 DEF TypeOK
<1>2. PcInv'
  BY DEF PcInv, Pcs
<1>3. RunInv'
  BY DEF RunInv, Working
<1>4. AloneInv'
  BY DEF AloneInv, Idle
<1>5. SoloInv'
  BY DEF SoloInv, Light
<1>6. LedInv'
  BY KlcAssumption DEF LedInv, PcInv, Procs
<1>7. DaemonInv'
  BY DEF DaemonInv, Working
<1>8. SyncInv'
  BY DEF SyncInv
<1> QED
  BY <1>1, <1>2, <1>3, <1>4, <1>5, <1>6, <1>7, <1>8

LEMMA EnterReadInv ==
  ASSUME IInv, EnterRead
  PROVE  IInv'
<1> USE DEF IInv, EnterRead, world, ledVars, history, localVars, Goto
<1>1. TypeOK'
  BY DEF TypeOK
<1>2. PcInv'
  BY DEF PcInv, Pcs
<1>3. RunInv'
  BY DEF RunInv, Working
<1>4. AloneInv'
  BY DEF AloneInv, Idle
<1>5. SoloInv'
  BY DEF SoloInv, Light
<1>6. LedInv'
  BY DEF LedInv
<1>7. DaemonInv'
  BY DEF DaemonInv, Working
<1>8. SyncInv'
  BY DEF SyncInv, InSync, Slider, Active, Idle
<1> QED
  BY <1>1, <1>2, <1>3, <1>4, <1>5, <1>6, <1>7, <1>8

LEMMA TerminateInv ==
  ASSUME IInv, Terminate
  PROVE  IInv'
<1> USE DEF IInv, Terminate, world, ledVars, history, localVars, Goto, RemoveLed
<1>1. TypeOK'
  BY DEF TypeOK
<1>2. PcInv'
  BY DEF PcInv, Pcs
<1>3. RunInv'
  BY DEF RunInv, TypeOK, Working
<1>4. AloneInv'
  BY DEF AloneInv, PcInv, Idle
<1>5. SoloInv'
  BY DEF SoloInv, TypeOK, Light
<1>6. LedInv'
  BY DEF LedInv, PcInv, Procs
<1>7. DaemonInv'
  BY DEF DaemonInv, Working, TypeOK, Slider, Procs
<1>8. SyncInv'
  BY KlcAssumption DEF SyncInv, TypeOK, InSync, Slider, Active
<1> QED
  BY <1>1, <1>2, <1>3, <1>4, <1>5, <1>6, <1>7, <1>8

LEMMA KillInv ==
  ASSUME IInv, NEW p \in Procs, Kill(p)
  PROVE  IInv'
<1> USE DEF IInv, Kill, world, ledVars, history, localVars, Goto, Leave, GiveUp, Rest, RemoveLed
<1>0. Default \in States /\ Full \in Levels
  BY KlcAssumption DEF States, Default, Levels
<1>1. TypeOK'
  BY <1>0 DEF TypeOK
<1>2. PcInv'
  BY DEF PcInv, Pcs
<1>3. RunInv'
  BY DEF RunInv, TypeOK, Working
<1>4. AloneInv'
  BY DEF AloneInv, Idle
<1>5. SoloInv'
  BY DEF SoloInv, Light
<1>6. LedInv'
  BY DEF LedInv, PcInv
<1>7. DaemonInv'
  BY DEF DaemonInv, Working, TypeOK, Slider
<1>8. SyncInv'
  BY DEF SyncInv
<1> QED
  BY <1>1, <1>2, <1>3, <1>4, <1>5, <1>6, <1>7, <1>8

LEMMA SetBrightnessInv ==
  ASSUME IInv, NEW v \in 0 .. MaxSteps, SetBrightness(v)
  PROVE  IInv'
<1> USE DEF IInv, SetBrightness, world, ledVars, history, localVars, Goto, SetLed, Least
<1>1. TypeOK'
  BY DEF TypeOK
<1>2. PcInv'
  BY DEF PcInv
<1>3. RunInv'
  BY DEF RunInv
<1>4. AloneInv'
  BY DEF AloneInv
<1>5. SoloInv'
  BY DEF SoloInv, Light
<1>6. LedInv'
  BY KlcAssumption DEF LedInv
<1>7. DaemonInv'
  BY DEF DaemonInv, Slider
<1>8. SyncInv'
  BY KlcAssumption DEF SyncInv, AloneInv, PcInv, InSync, Slider, Active
<1> QED
  BY <1>1, <1>2, <1>3, <1>4, <1>5, <1>6, <1>7, <1>8

LEMMA StepInv ==
  ASSUME IInv, [Next]_vars
  PROVE  IInv'
<1>1. ASSUME NEW p \in Procs, Step(p)
      PROVE  IInv'
  BY <1>1, PeekInv, LoadToStoreInv, LoadToApplyInv, LoadToDimInv, SendInv,
     CommitInv, TruncateInv, WriteInv, MirrorInv, MirrorFailsInv, FinishInv, FailInv DEF Step
<1>2. ASSUME NEW p \in Procs, Kill(p)
      PROVE  IInv'
  BY <1>2, KillInv
<1>3. ASSUME NEW p \in Clis, NEW c \in Commands, Invoke(p, c)
      PROVE  IInv'
  BY <1>3, InvokeInv
<1>4. ASSUME NEW v \in 0 .. MaxSteps, SetBrightness(v)
      PROVE  IInv'
  BY <1>4, SetBrightnessInv
<1>5. CASE Register
  BY <1>5, RegisterInv
<1>6. CASE EnterRead
  BY <1>6, EnterReadInv
<1>7. CASE Read
  BY <1>7, ReadInv
<1>8. CASE Terminate
  BY <1>8, TerminateInv
<1>9. CASE UNCHANGED vars
  <2>1. UNCHANGED <<file, staged, shown, led, fresh, terminated, pc, cmd, st,
                    scale, todo, alone, synced, last>>
    BY <1>9 DEF vars, world, ledVars, history, localVars
  <2>2. TypeOK' /\ PcInv' /\ RunInv'
    BY <2>1 DEF IInv, TypeOK, PcInv, RunInv
  <2>3. AloneInv' /\ SoloInv' /\ LedInv' /\ DaemonInv'
    BY <2>1 DEF IInv, AloneInv, SoloInv, LedInv, DaemonInv, Light, Slider
  <2>4. SyncInv'
    BY <2>1 DEF IInv, SyncInv, InSync, Slider, Active
  <2> QED
    BY <2>2, <2>3, <2>4 DEF IInv
<1> QED
  BY <1>1, <1>2, <1>3, <1>4, <1>5, <1>6, <1>7, <1>8, <1>9 DEF Next

\* The inductive invariant holds of every run.
THEOREM Invariance == Spec => []IInv
<1>1. Init => IInv
  BY InitInv
<1>2. IInv /\ [Next]_vars => IInv'
  BY StepInv
<1> QED
  BY <1>1, <1>2, PTL DEF Spec

\* Every variable stays within its type (state.rs State, daemon.rs, main.rs).
THEOREM TypeCorrect == Spec => []TypeOK
<1>1. IInv => TypeOK
  BY DEF IInv
<1> QED
  BY <1>1, Invariance, PTL

\* A command, or the daemon's apply_brightness, that nobody ran beside has lit
\* every part of the frame it stores at its brightness (main.rs apply_*,
\* daemon.rs apply_brightness, state.rs save).
THEOREM SoloRunsAreWhole == Spec => []SoloRunsApply
<1>1. IInv => SoloRunsApply
  BY DEF IInv, SoloInv, SoloRunsApply
<1> QED
  BY <1>1, Invariance, PTL

\* With a slider of at least 255 steps, the desktop shows the stored brightness
\* whenever nothing is under way (daemon.rs run, sync_led_sysfs).
THEOREM OsdStaysInSync ==
  ASSUME MaxSteps >= Full
  PROVE  Spec => []OsdInSync
<1>1. IInv => OsdInSync
  BY DEF IInv, SyncInv, InSync, Slider, OsdInSync, Quiet
<1> QED
  BY <1>1, Invariance, PTL

-----------------------------------------------------------------------------
(* The last frame.                                                         *)

Holds == \E s \in file : s.frame = last

\* Where the last frame is while a run, which is alone, has the file in hand.
LastInv ==
  /\ last # NoFrame =>
       /\ Active \subseteq alone
       /\ Active = {} => Holds
       /\ \A p \in Active :
            /\ pc[p] \in {"peek", "store", "load", "mirror"} => Holds
            /\ pc[p] \in {"send", "truncate", "write"} /\ cmd[p].op = "brightness" =>
                 st[p].frame = last
  /\ \A p \in Procs :
       pc[p] \in {"send", "truncate", "write"} /\ cmd[p].op = "apply" =>
         st[p].frame = cmd[p].frame

LEMMA LastInit == Init => LastInv
  BY DEF Init, LastInv, Active, Idle

LEMMA LastBegin ==
  ASSUME IInv, LastInv, NEW p \in Procs, pc[p] \in {"idle", "reading"},
         NEW c, NEW l \in {"peek", "load"},
         Begin(p, c, l), UNCHANGED <<file, st>>
  PROVE  LastInv'
<1>1. pc' = [pc EXCEPT ![p] = l] /\ cmd' = [cmd EXCEPT ![p] = c]
      /\ pc \in [Procs -> Pcs] /\ DOMAIN cmd = Procs
  BY DEF Begin, Goto, IInv, PcInv, TypeOK
<1>2. \A q \in Procs :
        pc'[q] \in {"send", "truncate", "write"} => q # p /\ pc'[q] = pc[q] /\ cmd'[q] = cmd[q]
  BY <1>1
<1>3. ASSUME last' # NoFrame
      PROVE  /\ Active' \subseteq alone' /\ Active' # {}
             /\ \A q \in Active' : q = p /\ Holds'
  <2>1. Active = {} /\ last' = last /\ alone' = {p} /\ last # NoFrame
    BY <1>3 DEF Begin
  <2>2. Active' = {p}
    BY <1>1, <2>1 DEF Active, Idle
  <2>3. Holds'
    BY <2>1 DEF LastInv, Holds
  <2> QED
    BY <2>1, <2>2, <2>3
<1> QED
  BY <1>1, <1>2, <1>3 DEF LastInv

LEMMA LastStep ==
  ASSUME IInv, LastInv, NEW p \in Procs, Step(p)
  PROVE  LastInv'
<1>0. TypeOK /\ PcInv /\ RunInv /\ AloneInv /\ SoloInv
  BY DEF IInv
<1> USE DEF LastInv, Holds, world, ledVars, history, localVars, Goto
<1>1. CASE Peek(p)
  BY <1>0, <1>1 DEF Peek, PcInv, Active, Idle
<1>2. CASE LoadToStore(p)
  BY <1>0, <1>2 DEF LoadToStore, SoloInv, PcInv, TypeOK, RunInv, Active, Idle, Brightness
<1>3. CASE LoadToApply(p)
  BY <1>0, <1>3 DEF LoadToApply, PcInv, TypeOK, Active, Idle
<1>4. CASE LoadToDim(p)
  BY <1>0, <1>4 DEF LoadToDim, Loaded, PcInv, TypeOK, Active, Idle
<1>5. CASE Send(p)
  BY <1>0, <1>5 DEF Send, PcInv, Active, Idle
<1>6. CASE Commit(p)
  BY <1>0, <1>6 DEF Commit, PcInv, Active, Idle
<1>7. CASE Truncate(p)
  BY <1>0, <1>7 DEF Truncate, AloneInv, PcInv, Active, Idle
<1>8. CASE Write(p)
  BY <1>0, <1>8 DEF Write, AloneInv, PcInv, RunInv, Working, Active, Idle, Applies, Brightness
<1>9. CASE Mirror(p)
  BY <1>0, <1>9 DEF Mirror, AloneInv, PcInv, Active, Idle
<1>10. CASE MirrorFails(p)
  BY <1>0, <1>10 DEF MirrorFails, AloneInv, PcInv, Active, Idle
<1>11. CASE Finish(p)
  BY <1>0, <1>11 DEF Finish, Leave, Rest, PcInv, TypeOK, Active, Idle
<1>12. CASE Fail(p)
  BY <1>0, <1>12 DEF Fail, Leave, GiveUp, Rest, PcInv, TypeOK
<1> QED
  BY <1>1, <1>2, <1>3, <1>4, <1>5, <1>6, <1>7, <1>8, <1>9, <1>10, <1>11, <1>12 DEF Step

\* A frame that a command has stored stays stored through later brightnesses, as
\* long as no two runs overlap and none fails (daemon.rs apply_brightness,
\* main.rs cmd_brightness_set, state.rs load and save).
THEOREM LastFrameStays == Spec => []LastFrameIsKept
<1>1. Init => LastInv
  BY LastInit
<1>2. ASSUME IInv, LastInv, [Next]_vars
      PROVE  LastInv'
  <2>1. ASSUME NEW p \in Procs, Step(p)
        PROVE  LastInv'
    BY <1>2, <2>1, LastStep
  <2>2. ASSUME NEW p \in Procs, Kill(p)
        PROVE  LastInv'
    BY <1>2, <2>2 DEF Kill, Leave, GiveUp, Goto, LastInv, IInv, PcInv, TypeOK
  <2>3. ASSUME NEW p \in Clis, NEW c \in Commands, Invoke(p, c)
        PROVE  LastInv'
    BY <1>2, <2>3, LastBegin DEF Invoke, Procs, world
  <2>4. ASSUME NEW v \in 0 .. MaxSteps, SetBrightness(v)
        PROVE  LastInv'
    BY <1>2, <2>4 DEF SetBrightness, LastInv, Holds, Active, world, localVars, history
  <2>5. CASE Register
    BY <1>2, <2>5 DEF Register, Goto, LastInv, Holds, IInv, PcInv, Active, Idle, world, localVars
  <2>6. CASE EnterRead
    BY <1>2, <2>6 DEF EnterRead, Goto, LastInv, Holds, IInv, PcInv, Active, Idle, world,
       localVars, history
  <2>7. CASE Read
    BY <1>2, <2>7, LastBegin DEF Read, Procs, world
  <2>8. CASE Terminate
    BY <1>2, <2>8 DEF Terminate, Goto, LastInv, Holds, IInv, PcInv, Active, Idle, world,
       localVars
  <2>9. CASE UNCHANGED vars
    BY <1>2, <2>9 DEF vars, world, ledVars, history, localVars, LastInv, Holds, Active
  <2> QED
    BY <1>2, <2>1, <2>2, <2>3, <2>4, <2>5, <2>6, <2>7, <2>8, <2>9 DEF Next
<1>3. LastInv => LastFrameIsKept
  BY DEF LastInv, Holds, LastFrameIsKept, Quiet
<1> QED
  BY <1>1, <1>2, <1>3, Invariance, PTL DEF Spec
=============================================================================
