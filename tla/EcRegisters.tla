---------------------------- MODULE EcRegisters ----------------------------
(***************************************************************************)
(* What the driver promises to the callers of its register helpers and of  *)
(* its debugfs files: each call takes effect at one instant between its    *)
(* start and its return, with no locks and no firmware method in between.  *)
(* WmiAccess implements this specification.                                *)
(***************************************************************************)
CONSTANTS
  Tasks,      \* the threads that call the driver
  Addrs,      \* EC registers
  Bits        \* the bits of a register

Vals  == [Bits -> BOOLEAN]
Files == {"get_data", "set_data"}

Request ==
  [op : {"get"}, addr : Addrs]
    \union [op : {"set"}, addr : Addrs, val : Vals]
    \union [op : {"update"}, addr : Addrs, bit : Bits, on : BOOLEAN]
    \union [op : {"raw"}, file : Files, addr : Addrs, val : Vals]
    \union [op : {"show"}, file : Files]

\* What a buffer holds, or a caller is given.
Contents == [from : {"nothing", "payload", "reply"}, val : Vals]
Nothing  == [from |-> "nothing", val |-> [b \in Bits |-> FALSE]]
Payload(v) == [from |-> "payload", val |-> v]
Reply(v)   == [from |-> "reply", val |-> v]

VARIABLES
  ec,         \* the registers
  file,       \* what a reader of a debugfs file is shown
  stage,      \* of each task: "idle", "called" or "served"
  call,       \* its request
  result      \* [ok, got]: the outcome of its call once served

vars == <<ec, file, stage, call, result>>

Init ==
  /\ ec \in [Addrs -> Vals]
  /\ file = [f \in Files |-> Nothing]
  /\ stage = [t \in Tasks |-> "idle"]
  /\ call \in [Tasks -> Request]
  /\ result = [t \in Tasks |-> [ok |-> FALSE, got |-> Nothing]]

\* The registers after request r.
After(r) ==
  CASE r.op = "set"    -> [ec EXCEPT ![r.addr] = r.val]
    [] r.op = "update" -> [ec EXCEPT ![r.addr][r.bit] = r.on]
    [] r.op = "raw" /\ r.file = "set_data" -> [ec EXCEPT ![r.addr] = r.val]
    [] OTHER -> ec

\* What a task is given for request r.
Answer(r) ==
  CASE r.op = "get"  -> Reply(ec[r.addr])
    [] r.op = "show" -> file[r.file]
    [] r.op = "raw" /\ r.file = "get_data" -> Reply(ec[r.addr])
    [] r.op = "raw" /\ r.file = "set_data" -> Reply(r.val)
    [] OTHER -> Nothing

Invoke(t) ==
  /\ stage[t] = "idle"
  /\ \E r \in Request : call' = [call EXCEPT ![t] = r]
  /\ stage' = [stage EXCEPT ![t] = "called"]
  /\ UNCHANGED <<ec, file, result>>

Serve(t, ok, got) ==
  /\ stage[t] = "called"
  /\ stage' = [stage EXCEPT ![t] = "served"]
  /\ result' = [result EXCEPT ![t] = [ok |-> ok, got |-> got]]
  /\ UNCHANGED call

Succeed(t) ==
  LET r == call[t]
  IN  /\ Serve(t, TRUE, Answer(r))
      /\ ec' = After(r)
      /\ file' = IF r.op = "raw" THEN [file EXCEPT ![r.file] = Answer(r)] ELSE file

\* A failing call may still have taken effect.  A failing raw call leaves what
\* was written in its file, unless it was refused.
Fail(t) ==
  LET r == call[t]
  IN  /\ r.op # "show"
      /\ Serve(t, FALSE, Nothing)
      /\ ec' \in {ec, After(r)}
      /\ \/ UNCHANGED file
         \/ r.op = "raw" /\ file' = [file EXCEPT ![r.file] = Payload(r.val)]

Return(t) ==
  /\ stage[t] = "served"
  /\ stage' = [stage EXCEPT ![t] = "idle"]
  /\ result' = [result EXCEPT ![t] = [ok |-> FALSE, got |-> Nothing]]
  /\ UNCHANGED <<ec, file, call>>

Next == \E t \in Tasks : Invoke(t) \/ Succeed(t) \/ Fail(t) \/ Return(t)

Spec == Init /\ [][Next]_vars
=============================================================================
