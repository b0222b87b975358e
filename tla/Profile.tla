------------------------------ MODULE Profile ------------------------------
(***************************************************************************)
(* The platform profile of msi-wmi-platform.c: the EC's shift register,    *)
(* the driver's cached copy of it (data->cur_profile), the tasks that set  *)
(* a profile, the seed that probe takes after the profile interface is up, *)
(* and the sleeps after which the driver puts the cached profile back.     *)
(***************************************************************************)
EXTENDS Naturals

CONSTANTS
  Tasks,      \* tasks that write the platform_profile attribute
  Profiles,   \* those of enum platform_profile_option the driver knows
  Choices,    \* those msi_wmi_platform_profile_probe offers: all but "custom"
  Balanced,   \* PLATFORM_PROFILE_BALANCED
  Unknown,    \* any value of the register that is none of MSI_PLATFORM_SHIFT_*
  Nobody

ASSUME ProfileAssumption ==
  /\ Choices \subseteq Profiles
  /\ Balanced \in Choices
  /\ Unknown \notin Profiles
  /\ Nobody \notin Tasks

Shifts == Profiles \union {Unknown}

VARIABLES
  shift,      \* the register MSI_PLATFORM_SHIFT_ADDR, by the profile it means
  cur,        \* data->cur_profile
  pc,         \* how far the driver is: "unbound", "seed", "seeded", "bound"
  seen,       \* the profile that profile_read decoded for the seed
  setter,     \* who is in profile_store, under the core's profile_lock
  step,       \* where: "apply" or "cache", "none" if nobody is
  option,     \* the profile it sets
  pm,         \* "up", "asleep", "reset" (woken by firmware), "woken"
  doubt       \* what may keep cur from the register: {} or some of
              \*   "call" (a call of unknown effect, or no seed), "race"

profileVars == <<shift, cur, pc, seen, setter, step, option, pm, doubt>>

ProfileInit ==
  /\ shift \in Shifts
  /\ cur = Balanced
  /\ pc = "unbound"
  /\ seen = Balanced
  /\ setter = Nobody
  /\ step = "none"
  /\ option = Balanced
  /\ pm = "up"
  /\ doubt = {}

-----------------------------------------------------------------------------
(* Probe and removal.                                                      *)

\* Probe sets cur_profile, and profile_setup registers the interface.
Register ==
  /\ pc = "unbound" /\ pm = "up"
  /\ cur' = Balanced
  /\ doubt' = {}
  /\ pc' = "seed"
  /\ UNCHANGED <<shift, seen, setter, step, option, pm>>

\* Mutant: the switch has no default.
SeedReadAny ==
  /\ pc = "seed"
  /\ seen' = shift
  /\ pc' = "seeded"
  /\ UNCHANGED <<shift, cur, setter, step, option, pm, doubt>>

\* profile_read of the seed: the query, and then, without wmi_lock, the
\* assignment to cur_profile.
SeedRead ==
  /\ pc = "seed"
  /\ shift \in Profiles
  /\ seen' = shift
  /\ pc' = "seeded"
  /\ UNCHANGED <<shift, cur, setter, step, option, pm, doubt>>

\* Its error, the one for a value it does not know included, is ignored.
SeedFails ==
  /\ pc = "seed"
  /\ pc' = "bound"
  /\ doubt' = doubt \union {"call"}
  /\ UNCHANGED <<shift, cur, seen, setter, step, option, pm>>

SeedStore ==
  /\ pc = "seeded"
  /\ cur' = seen
  /\ pc' = "bound"
  /\ UNCHANGED <<shift, seen, setter, step, option, pm, doubt>>

\* devres unregisters the interface once nobody is in it.
Unregister ==
  /\ pc = "bound" /\ pm = "up" /\ setter = Nobody
  /\ pc' = "unbound"
  /\ UNCHANGED <<shift, cur, seen, setter, step, option, pm, doubt>>

-----------------------------------------------------------------------------
(* profile_set.                                                            *)

\* The core takes profile_lock and calls the driver with one of its choices.
Store(t, p) ==
  /\ pc # "unbound" /\ pm = "up" /\ setter = Nobody
  /\ setter' = t
  /\ option' = p
  /\ step' = "apply"
  /\ UNCHANGED <<shift, cur, pc, seen, pm, doubt>>

\* A set in the middle of the seed.
Raced == IF pc = "bound" THEN {} ELSE {"race"}

\* profile_apply: the EC takes the value.  Of older doubts none is left once
\* it is cached.
Apply ==
  /\ step = "apply"
  /\ shift' = option
  /\ doubt' = Raced
  /\ step' = "cache"
  /\ UNCHANGED <<cur, pc, seen, setter, option, pm>>

Leave ==
  /\ setter' = Nobody
  /\ step' = "none"

\* Mutant: the profile is cached although the EC has refused it.
RefusedCached ==
  /\ step = "apply"
  /\ cur' = option
  /\ Leave
  /\ UNCHANGED <<shift, pc, seen, option, pm, doubt>>

\* The EC refuses the call (a zero status byte), and the write fails.
Refused ==
  /\ step = "apply"
  /\ Leave
  /\ UNCHANGED <<shift, cur, pc, seen, option, pm, doubt>>

\* The call fails after the EC took the value (no or a malformed reply).
ReplyLost ==
  /\ step = "apply"
  /\ shift' = option
  /\ doubt' = doubt \union {"call"} \union Raced
  /\ Leave
  /\ UNCHANGED <<cur, pc, seen, option, pm>>

Cache ==
  /\ step = "cache"
  /\ cur' = option
  /\ Leave
  /\ UNCHANGED <<shift, pc, seen, option, pm, doubt>>

-----------------------------------------------------------------------------
(* Sleep.                                                                  *)

\* User tasks are frozen outside profile_store, and probing is blocked.
FallAsleep ==
  /\ pc \in {"unbound", "bound"} /\ pm = "up" /\ setter = Nobody
  /\ pm' = "asleep"
  /\ UNCHANGED <<shift, cur, pc, seen, setter, step, option, doubt>>

\* s2idle, or a hibernation that is called off: .resume and .thaw do nothing.
WakeKept ==
  /\ pm = "asleep"
  /\ pm' = "woken"
  /\ UNCHANGED <<shift, cur, pc, seen, setter, step, option, doubt>>

\* S3 and hibernation leave the register as the firmware sets it.
WakeReset ==
  /\ pm = "asleep"
  /\ shift' \in Shifts
  /\ pm' = "reset"
  /\ UNCHANGED <<cur, pc, seen, setter, step, option, doubt>>

\* profile_resume; without a driver the register stays as it is.
Reapply ==
  /\ pm = "reset"
  /\ shift' = IF pc = "bound" THEN cur ELSE shift
  /\ pm' = "woken"
  /\ UNCHANGED <<cur, pc, seen, setter, step, option, doubt>>

\* Its error is ignored.
ReapplyFails ==
  /\ pm = "reset" /\ pc = "bound"
  /\ pm' = "woken"
  /\ doubt' = doubt \union {"call"}
  /\ UNCHANGED <<shift, cur, pc, seen, setter, step, option>>

Thaw ==
  /\ pm = "woken"
  /\ pm' = "up"
  /\ UNCHANGED <<shift, cur, pc, seen, setter, step, option, doubt>>

ProfileNext ==
  \/ Register
  \/ SeedRead
  \/ SeedFails
  \/ SeedStore
  \/ Unregister
  \/ \E t \in Tasks, p \in Choices : Store(t, p)
  \/ Apply
  \/ Refused
  \/ ReplyLost
  \/ Cache
  \/ FallAsleep
  \/ WakeKept
  \/ WakeReset
  \/ Reapply
  \/ ReapplyFails
  \/ Thaw

ProfileSpec == ProfileInit /\ [][ProfileNext]_profileVars

-----------------------------------------------------------------------------
(* Properties.                                                             *)

ProfileTypeOK ==
  /\ shift \in Shifts
  /\ cur \in Profiles
  /\ pc \in {"unbound", "seed", "seeded", "bound"}
  /\ seen \in Profiles
  /\ setter \in Tasks \union {Nobody}
  /\ step \in {"none", "apply", "cache"}
  /\ option \in Choices
  /\ pm \in {"up", "asleep", "reset", "woken"}
  /\ doubt \subseteq {"call", "race"}

\* The driver is bound, nobody sets a profile and the machine is awake.
Settled == pc = "bound" /\ setter = Nobody /\ pm = "up"

\* Through every sequence of sets, sleeps and rebinds, the machine runs in the
\* profile the driver would put back after the next sleep, unless a call has
\* failed or a set met the seed, and no set has succeeded since.  (The cache
\* is written only after, and in the order of, the writes of the EC.)
CacheFollowsEc == Settled /\ doubt = {} => shift = cur
=============================================================================
