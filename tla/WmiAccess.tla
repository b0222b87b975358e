----------------------------- MODULE WmiAccess -----------------------------
(***************************************************************************)
(* How msi-wmi-platform.c reaches the EC: one ACPI method that is not      *)
(* thread-safe, called under wmi_lock by the register helpers (ec_get,     *)
(* ec_set, ec_update_bit) and by the debugfs files, whose buffers have a   *)
(* reader/writer lock of their own.                                        *)
(***************************************************************************)
EXTENDS Naturals

CONSTANTS
  Tasks, Addrs, Bits,   \* as in EcRegisters
  Requests,             \* what the tasks ask for
  Nobody                \* no task

Vals  == [Bits -> BOOLEAN]
Files == {"get_data", "set_data"}

Request ==
  [op : {"get"}, addr : Addrs]
    \union [op : {"set"}, addr : Addrs, val : Vals]
    \union [op : {"update"}, addr : Addrs, bit : Bits, on : BOOLEAN]
    \union [op : {"raw"}, file : Files, addr : Addrs, val : Vals]
    \union [op : {"show"}, file : Files]

ASSUME WmiAssumption ==
  /\ Requests \subseteq Request
  /\ Nobody \notin Tasks

Contents == [from : {"nothing", "payload", "reply"}, val : Vals]
Zero     == [b \in Bits |-> FALSE]
Nothing  == [from |-> "nothing", val |-> Zero]
Payload(v) == [from |-> "payload", val |-> v]
Reply(v)   == [from |-> "reply", val |-> v]

\* The in-buffer of a method call, where the firmware keeps it.
Input == [method : Files, addr : Addrs, val : Vals]

VARIABLES
  ec,         \* the registers
  input,      \* the firmware's copy of the input: one for all callers
  lock,       \* who holds wmi_lock
  pc,         \* where each task is
  req,        \* its request
  rd,         \* its buffer: the register it has read
  result,     \* its outcome
  buffer,     \* data->buffer of each debugfs file
  writer,     \* who holds buffer_lock of a file for writing
  readers,    \* who hold it for reading
  was         \* (history) the buffer before its writer came, if it has one

locks == <<lock, writer, readers>>
vars == <<ec, input, locks, pc, req, rd, result, buffer, was>>

Init ==
  /\ ec \in [Addrs -> Vals]
  /\ input \in [method : {"get_data"}, addr : Addrs, val : {Zero}]
  /\ lock = Nobody
  /\ pc = [t \in Tasks |-> "idle"]
  /\ req \in [Tasks -> Requests]
  /\ rd = [t \in Tasks |-> Zero]
  /\ result = [t \in Tasks |-> [ok |-> FALSE, got |-> Nothing]]
  /\ buffer = [f \in Files |-> Nothing]
  /\ writer = [f \in Files |-> Nobody]
  /\ readers = [f \in Files |-> {}]
  /\ was = buffer

GoTo(t, l) == pc' = [pc EXCEPT ![t] = l]

Outcome(t, ok, got) == result' = [result EXCEPT ![t] = [ok |-> ok, got |-> got]]

-----------------------------------------------------------------------------
(* Entering the driver.                                                    *)

Call(t) ==
  /\ pc[t] = "idle"
  /\ \E r \in Requests :
       /\ req' = [req EXCEPT ![t] = r]
       /\ GoTo(t, CASE r.op = "raw"  -> "down_write"
                    [] r.op = "show" -> "down_read"
                    [] OTHER -> "mutex")
  /\ UNCHANGED <<ec, input, locks, rd, result, buffer, was>>

\* Lockdown, an offset, or a length other than the buffer's.
Refuse(t) ==
  /\ pc[t] = "down_write"
  /\ Outcome(t, FALSE, Nothing)
  /\ GoTo(t, "done")
  /\ UNCHANGED <<ec, input, locks, req, rd, buffer, was>>

DownWrite(t) ==
  LET f == req[t].file
  IN  /\ pc[t] = "down_write"
      /\ writer[f] = Nobody /\ readers[f] = {}
      /\ writer' = [writer EXCEPT ![f] = t]
      /\ buffer' = [buffer EXCEPT ![f] = Payload(req[t].val)]
      /\ was' = [was EXCEPT ![f] = buffer[f]]
      /\ GoTo(t, "mutex")
      /\ UNCHANGED <<ec, input, lock, req, rd, result, readers>>

DownRead(t) ==
  LET f == req[t].file
  IN  /\ pc[t] = "down_read"
      /\ writer[f] = Nobody
      /\ readers' = [readers EXCEPT ![f] = @ \union {t}]
      /\ GoTo(t, "show")
      /\ UNCHANGED <<ec, input, lock, req, rd, result, buffer, writer, was>>

\* seq_write and up_read.
Show(t) ==
  LET f == req[t].file
  IN  /\ pc[t] = "show"
      /\ Outcome(t, TRUE, buffer[f])
      /\ readers' = [readers EXCEPT ![f] = @ \ {t}]
      /\ GoTo(t, "done")
      /\ UNCHANGED <<ec, input, lock, req, rd, buffer, writer, was>>

-----------------------------------------------------------------------------
(* A query: wmi_lock, the input, and the method itself.                    *)

Lock(t) ==
  /\ pc[t] = "mutex"
  /\ lock = Nobody
  /\ lock' = t
  /\ GoTo(t, "input")
  /\ UNCHANGED <<ec, input, req, rd, result, buffer, writer, readers, was>>

\* Whether the register is read (or else written) by the next method call.
Reads(t) ==
  \/ req[t].op = "get"
  \/ req[t].op = "update" /\ pc[t] \in {"input", "read"}
  \/ req[t].op = "raw" /\ req[t].file = "get_data"

\* The value of the register after ec_update_bit.
Updated(t) == [rd[t] EXCEPT ![req[t].bit] = req[t].on]

\* The second byte of the buffer that is passed.
Passed(t) ==
  CASE req[t].op = "update" /\ pc[t] = "input2" -> Updated(t)
    [] req[t].op \in {"set", "raw"}             -> req[t].val
    [] OTHER                                    -> Zero

\* Mutant: the method is taken from the request.
PassInputBy(t) ==
  /\ pc[t] \in {"input", "input2"}
  /\ input' = [method |-> req[t].op, addr |-> req[t].addr, val |-> Passed(t)]
  /\ GoTo(t, IF Reads(t) THEN "read" ELSE "write")
  /\ UNCHANGED <<ec, locks, req, rd, result, buffer, was>>

PassInput(t) ==
  /\ pc[t] \in {"input", "input2"}
  /\ input' = [method |-> IF Reads(t) THEN "get_data" ELSE "set_data",
               addr   |-> req[t].addr,
               val    |-> Passed(t)]
  /\ GoTo(t, IF Reads(t) THEN "read" ELSE "write")
  /\ UNCHANGED <<ec, locks, req, rd, result, buffer, was>>

\* The reply to a raw request is copied to the buffer of its file.
Answered(t, v) ==
  buffer' = IF req[t].op = "raw" THEN [buffer EXCEPT ![req[t].file] = Reply(v)]
                                 ELSE buffer

\* Mutant: ec_update_bit drops wmi_lock between its two calls.
ReadRegisterUnlock(t) ==
  LET v == ec[input.addr]
  IN  /\ pc[t] = "read"
      /\ input.method = "get_data"
      /\ rd' = [rd EXCEPT ![t] = v]
      /\ Answered(t, v)
      /\ IF req[t].op = "update"
           THEN GoTo(t, "input2") /\ UNCHANGED result /\ lock' = Nobody
           ELSE GoTo(t, "unlock") /\ Outcome(t, TRUE, Reply(v)) /\ UNCHANGED lock
      /\ UNCHANGED <<ec, input, writer, readers, req, was>>

ReadRegister(t) ==
  LET v == ec[input.addr]
  IN  /\ pc[t] = "read"
      /\ input.method = "get_data"
      /\ rd' = [rd EXCEPT ![t] = v]
      /\ Answered(t, v)
      /\ IF req[t].op = "update"
           THEN GoTo(t, "input2") /\ UNCHANGED result
           ELSE GoTo(t, "unlock") /\ Outcome(t, TRUE, Reply(v))
      /\ UNCHANGED <<ec, input, locks, req, was>>

WriteRegister(t) ==
  /\ pc[t] = "write"
  /\ input.method = "set_data"
  /\ ec' = [ec EXCEPT ![input.addr] = input.val]
  /\ Answered(t, input.val)
  /\ GoTo(t, "unlock")
  /\ Outcome(t, TRUE, IF req[t].op = "raw" THEN Reply(input.val) ELSE Nothing)
  /\ UNCHANGED <<input, locks, req, rd, was>>

\* Mutant: the error path of a query leaves with the lock.
MethodFailsLocked(t) ==
  /\ pc[t] \in {"read", "write"}
  /\ ec' \in {ec} \union IF pc[t] = "write" THEN {[ec EXCEPT ![input.addr] = input.val]} ELSE {}
  /\ Outcome(t, FALSE, Nothing)
  /\ GoTo(t, "up_write")
  /\ UNCHANGED <<input, locks, req, rd, buffer, was>>

\* The method fails, or its reply is no good though it had its effect.
MethodFails(t) ==
  /\ pc[t] \in {"read", "write"}
  /\ ec' \in {ec} \union IF pc[t] = "write" THEN {[ec EXCEPT ![input.addr] = input.val]} ELSE {}
  /\ Outcome(t, FALSE, Nothing)
  /\ GoTo(t, "unlock")
  /\ UNCHANGED <<input, locks, req, rd, buffer, was>>

Unlock(t) ==
  /\ pc[t] = "unlock"
  /\ lock' = Nobody
  /\ GoTo(t, "up_write")
  /\ UNCHANGED <<ec, input, req, rd, result, buffer, writer, readers, was>>

UpWrite(t) ==
  /\ pc[t] = "up_write"
  /\ IF req[t].op = "raw"
       THEN /\ writer' = [writer EXCEPT ![req[t].file] = Nobody]
            /\ was' = [was EXCEPT ![req[t].file] = Nothing]
       ELSE UNCHANGED <<writer, was>>
  /\ GoTo(t, "done")
  /\ UNCHANGED <<ec, input, lock, req, rd, result, buffer, readers>>

\* The buffers of the call were on its stack.
Return(t) ==
  /\ pc[t] = "done"
  /\ rd' = [rd EXCEPT ![t] = Zero]
  /\ Outcome(t, FALSE, Nothing)
  /\ GoTo(t, "idle")
  /\ UNCHANGED <<ec, input, locks, req, buffer, was>>

Acquire(t) == DownWrite(t) \/ DownRead(t) \/ Lock(t)

Proceed(t) ==
  \/ Show(t)
  \/ PassInput(t)
  \/ ReadRegister(t)
  \/ WriteRegister(t)
  \/ MethodFails(t)
  \/ Unlock(t)
  \/ UpWrite(t)
  \/ Return(t)

Next == \E t \in Tasks : Call(t) \/ Refuse(t) \/ Acquire(t) \/ Proceed(t)

Spec == Init /\ [][Next]_vars

\* A task in the kernel runs on, and mutexes and rwsems hand themselves to the
\* tasks that wait for them.
FairSpec ==
  /\ Spec
  /\ \A t \in Tasks : WF_vars(Proceed(t)) /\ SF_vars(Acquire(t))

-----------------------------------------------------------------------------
(* Properties.                                                             *)

TypeOK ==
  /\ ec \in [Addrs -> Vals]
  /\ input \in Input
  /\ lock \in Tasks \union {Nobody}
  /\ pc \in [Tasks -> {"idle", "down_write", "down_read", "show", "mutex", "input",
                       "read", "input2", "write", "unlock", "up_write", "done"}]
  /\ req \in [Tasks -> Requests]
  /\ rd \in [Tasks -> Vals]
  /\ result \in [Tasks -> [ok : BOOLEAN, got : Contents]]
  /\ buffer \in [Files -> Contents]
  /\ writer \in [Files -> Tasks \union {Nobody}]
  /\ readers \in [Files -> SUBSET Tasks]
  /\ was \in [Files -> Contents]

\* A request has its effect when its last method call runs: until then the
\* file of a raw request still counts as what it was.
Served(t) == pc[t] \in {"unlock", "up_write", "done"}

Shown == [f \in Files |-> IF writer[f] # Nobody /\ ~Served(writer[f]) THEN was[f] ELSE buffer[f]]

Stage == [t \in Tasks |-> CASE pc[t] = "idle" -> "idle"
                            [] Served(t) -> "served"
                            [] OTHER -> "called"]

Abstract == INSTANCE EcRegisters WITH
  file <- Shown, stage <- Stage, call <- req

\* Every helper and every debugfs access is atomic: wmi_lock held over the
\* method calls of a request (both of ec_update_bit's) and buffer_lock held
\* over a raw request leave no trace of the steps in between.
ImplementsEcRegisters == Abstract!Spec

\* Whoever calls the driver returns, whatever the method answers: no error
\* path keeps a lock, and buffer_lock and wmi_lock are taken in one order.
CallsReturn == \A t \in Tasks : pc[t] # "idle" ~> pc[t] = "idle"
=============================================================================
