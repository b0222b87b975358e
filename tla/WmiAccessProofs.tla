-------------------------- MODULE WmiAccessProofs --------------------------
(* Proofs about WmiAccess, for all tasks, registers, bits and requests.    *)
EXTENDS WmiAccess, TLAPS

Pcs == {"idle", "down_write", "down_read", "show", "mutex", "input",
        "read", "input2", "write", "unlock", "up_write", "done"}

\* Who holds wmi_lock.
LockInv == \A t \in Tasks :
  lock = t <=> pc[t] \in {"input", "read", "input2", "write", "unlock"}

\* Which steps belong to which requests.
PathInv == \A t \in Tasks :
  /\ pc[t] = "down_write" => req[t].op = "raw"
  /\ pc[t] \in {"down_read", "show"} => req[t].op = "show"
  /\ pc[t] \in {"mutex", "input", "read", "input2", "write", "unlock", "up_write"} =>
       req[t].op # "show"
  /\ pc[t] = "read" => Reads(t)
  /\ pc[t] = "input2" => req[t].op = "update"
  /\ pc[t] = "write" => req[t].op # "get" /\ ~Reads(t)

\* The firmware works on the input of the task whose method it runs, and what
\* ec_update_bit has read is still in the register.
InputInv == \A t \in Tasks :
  /\ pc[t] \in {"read", "write"} => input.addr = req[t].addr
  /\ pc[t] = "read" => input.method = "get_data"
  /\ pc[t] = "write" => /\ input.method = "set_data"
                        /\ input.val = IF req[t].op = "update" THEN Updated(t)
                                                               ELSE req[t].val
  /\ pc[t] \in {"input2", "write"} /\ req[t].op = "update" => rd[t] = ec[req[t].addr]

\* Who holds the buffer_lock of which file.
Writing(t, f) ==
  /\ pc[t] \in {"mutex", "input", "read", "input2", "write", "unlock", "up_write"}
  /\ req[t].op = "raw" /\ req[t].file = f

BufferInv == \A f \in Files :
  /\ \A t \in Tasks : writer[f] = t <=> Writing(t, f)
  /\ \A t \in Tasks : t \in readers[f] <=> pc[t] = "show" /\ req[t].file = f
  /\ writer[f] # Nobody => readers[f] = {}
  /\ \A t \in Tasks : writer[f] = t /\ ~Served(t) => buffer[f] = Payload(req[t].val)

IInv == TypeOK /\ LockInv /\ PathInv /\ InputInv /\ BufferInv

-----------------------------------------------------------------------------
(* What the values are.                                                    *)

LEMMA RequestParts ==
  ASSUME NEW r \in Request
  PROVE  /\ r.op \in {"get", "set", "update", "raw", "show"}
         /\ r.op # "show" => r.addr \in Addrs
         /\ r.op \in {"set", "raw"} => r.val \in Vals
         /\ r.op = "update" => r.bit \in Bits /\ r.on \in BOOLEAN
         /\ r.op \in {"raw", "show"} => r.file \in Files
  BY DEF Request

LEMMA RequestFacts ==
  ASSUME TypeOK, NEW t \in Tasks
  PROVE  /\ req[t].op \in {"get", "set", "update", "raw", "show"}
         /\ req[t].op # "show" => req[t].addr \in Addrs
         /\ req[t].op \in {"set", "raw"} => req[t].val \in Vals
         /\ req[t].op = "update" => req[t].bit \in Bits /\ req[t].on \in BOOLEAN
         /\ req[t].op \in {"raw", "show"} => req[t].file \in Files
<1>1. req[t] \in Request
  BY WmiAssumption DEF TypeOK
<1> QED
  BY <1>1, RequestParts

LEMMA ContentsFacts ==
  /\ Zero \in Vals
  /\ Nothing \in Contents
  /\ \A v \in Vals : Payload(v) \in Contents /\ Reply(v) \in Contents
  BY DEF Zero, Vals, Nothing, Contents, Payload, Reply

LEMMA UpdatedType ==
  ASSUME TypeOK, NEW t \in Tasks, req[t].op = "update"
  PROVE  Updated(t) \in Vals
<1>1. rd[t] \in [Bits -> BOOLEAN] /\ req[t].bit \in Bits /\ req[t].on \in BOOLEAN
  BY RequestFacts DEF TypeOK, Vals
<1> QED
  BY <1>1 DEF Updated, Vals

LEMMA PassedType ==
  ASSUME TypeOK, NEW t \in Tasks
  PROVE  Passed(t) \in Vals
  BY RequestFacts, ContentsFacts, UpdatedType DEF Passed

-----------------------------------------------------------------------------
(* The inductive invariant.                                                *)

LEMMA InitInv == Init => IInv
<1> SUFFICES ASSUME Init PROVE IInv
  OBVIOUS
<1>1. TypeOK
  BY ContentsFacts DEF Init, TypeOK, Input, Files
<1>2. LockInv /\ PathInv /\ InputInv
  BY WmiAssumption DEF Init, LockInv, PathInv, InputInv, Reads
<1>3. BufferInv
  BY WmiAssumption DEF Init, BufferInv, Writing, Served
<1> QED
  BY <1>1, <1>2, <1>3 DEF IInv

LEMMA StepType == IInv /\ [Next]_vars => TypeOK'
<1> SUFFICES ASSUME IInv, [Next]_vars PROVE TypeOK'
  OBVIOUS
<1> USE DEF IInv, GoTo, Outcome, locks
<1>1. ASSUME NEW t \in Tasks, Call(t) PROVE TypeOK'
  BY <1>1 DEF Call, TypeOK
<1>2. ASSUME NEW t \in Tasks, Refuse(t) PROVE TypeOK'
  BY <1>2, ContentsFacts DEF Refuse, TypeOK
<1>3. ASSUME NEW t \in Tasks, DownWrite(t) PROVE TypeOK'
  <2>1. req[t].file \in Files /\ Payload(req[t].val) \in Contents
    BY <1>3, RequestFacts, ContentsFacts DEF DownWrite, PathInv
  <2> QED
    BY <1>3, <2>1 DEF DownWrite, TypeOK
<1>4. ASSUME NEW t \in Tasks, DownRead(t) PROVE TypeOK'
  <2>1. req[t].file \in Files
    BY <1>4, RequestFacts DEF DownRead, PathInv
  <2> QED
    BY <1>4, <2>1 DEF DownRead, TypeOK
<1>5. ASSUME NEW t \in Tasks, Lock(t) PROVE TypeOK'
  BY <1>5 DEF Lock, TypeOK
<1>6. ASSUME NEW t \in Tasks, Show(t) PROVE TypeOK'
  <2>1. req[t].file \in Files
    BY <1>6, RequestFacts DEF Show, PathInv
  <2> QED
    BY <1>6, <2>1 DEF Show, TypeOK
<1>7. ASSUME NEW t \in Tasks, PassInput(t) PROVE TypeOK'
  <2>1. req[t].addr \in Addrs
    BY <1>7, RequestFacts DEF PassInput, PathInv
  <2>2. input' \in Input
    BY <1>7, <2>1, PassedType DEF PassInput, Input, Files
  <2> QED
    BY <1>7, <2>2 DEF PassInput, TypeOK
<1>8. ASSUME NEW t \in Tasks, ReadRegister(t) PROVE TypeOK'
  <2>1. ec[input.addr] \in Vals
    BY DEF TypeOK, Input
  <2>2. buffer' \in [Files -> Contents]
    BY <1>8, <2>1, ContentsFacts, RequestFacts DEF ReadRegister, Answered, TypeOK
  <2>3. [ok |-> TRUE, got |-> Reply(ec[input.addr])] \in [ok : BOOLEAN, got : Contents]
    BY <2>1, ContentsFacts
  <2>4. result' \in [Tasks -> [ok : BOOLEAN, got : Contents]]
    BY <1>8, <2>3 DEF ReadRegister, TypeOK
  <2> QED
    BY <1>8, <2>1, <2>2, <2>4 DEF ReadRegister, TypeOK
<1>9. ASSUME NEW t \in Tasks, WriteRegister(t) PROVE TypeOK'
  <2>1. input.addr \in Addrs /\ input.val \in Vals
    BY DEF TypeOK, Input
  <2>2. buffer' \in [Files -> Contents]
    BY <1>9, <2>1, ContentsFacts, RequestFacts DEF WriteRegister, Answered, TypeOK
  <2>3. result' \in [Tasks -> [ok : BOOLEAN, got : Contents]]
    BY <1>9, <2>1, ContentsFacts DEF WriteRegister, TypeOK
  <2> QED
    BY <1>9, <2>1, <2>2, <2>3 DEF WriteRegister, TypeOK
<1>10. ASSUME NEW t \in Tasks, MethodFails(t) PROVE TypeOK'
  <2>1. input.addr \in Addrs /\ input.val \in Vals
    BY DEF TypeOK, Input
  <2>2. ec' \in [Addrs -> Vals]
    BY <1>10, <2>1 DEF MethodFails, TypeOK
  <2> QED
    BY <1>10, <2>2, ContentsFacts DEF MethodFails, TypeOK
<1>11. ASSUME NEW t \in Tasks, Unlock(t) PROVE TypeOK'
  BY <1>11 DEF Unlock, TypeOK
<1>12. ASSUME NEW t \in Tasks, UpWrite(t) PROVE TypeOK'
  BY <1>12, ContentsFacts, RequestFacts DEF UpWrite, TypeOK
<1>13. ASSUME NEW t \in Tasks, Return(t) PROVE TypeOK'
  BY <1>13, ContentsFacts DEF Return, TypeOK
<1>14. CASE UNCHANGED vars
  BY <1>14 DEF vars, TypeOK
<1> QED
  BY <1>1, <1>2, <1>3, <1>4, <1>5, <1>6, <1>7, <1>8, <1>9, <1>10, <1>11, <1>12,
     <1>13, <1>14 DEF Next, Acquire, Proceed

LEMMA StepLock == IInv /\ [Next]_vars => LockInv'
<1> SUFFICES ASSUME IInv, [Next]_vars PROVE LockInv'
  OBVIOUS
<1> USE WmiAssumption DEF IInv, TypeOK, GoTo, Outcome, locks, LockInv
<1>1. ASSUME NEW t \in Tasks, Call(t) PROVE LockInv'
  BY <1>1 DEF Call
<1>2. ASSUME NEW t \in Tasks, Refuse(t) PROVE LockInv'
  BY <1>2 DEF Refuse
<1>3. ASSUME NEW t \in Tasks, DownWrite(t) PROVE LockInv'
  BY <1>3 DEF DownWrite
<1>4. ASSUME NEW t \in Tasks, DownRead(t) PROVE LockInv'
  BY <1>4 DEF DownRead
<1>5. ASSUME NEW t \in Tasks, Lock(t) PROVE LockInv'
  BY <1>5 DEF Lock
<1>6. ASSUME NEW t \in Tasks, Show(t) PROVE LockInv'
  BY <1>6 DEF Show
<1>7. ASSUME NEW t \in Tasks, PassInput(t) PROVE LockInv'
  BY <1>7 DEF PassInput
<1>8. ASSUME NEW t \in Tasks, ReadRegister(t) PROVE LockInv'
  BY <1>8 DEF ReadRegister
<1>9. ASSUME NEW t \in Tasks, WriteRegister(t) PROVE LockInv'
  BY <1>9 DEF WriteRegister
<1>10. ASSUME NEW t \in Tasks, MethodFails(t) PROVE LockInv'
  BY <1>10 DEF MethodFails
<1>11. ASSUME NEW t \in Tasks, Unlock(t) PROVE LockInv'
  BY <1>11 DEF Unlock
<1>12. ASSUME NEW t \in Tasks, UpWrite(t) PROVE LockInv'
  BY <1>12 DEF UpWrite
<1>13. ASSUME NEW t \in Tasks, Return(t) PROVE LockInv'
  BY <1>13 DEF Return
<1>14. CASE UNCHANGED vars
  BY <1>14 DEF vars
<1> QED
  BY <1>1, <1>2, <1>3, <1>4, <1>5, <1>6, <1>7, <1>8,
     <1>9, <1>10, <1>11, <1>12, <1>13, <1>14 DEF Next, Acquire, Proceed

LEMMA StepPath == IInv /\ [Next]_vars => PathInv'
<1> SUFFICES ASSUME IInv, [Next]_vars PROVE PathInv'
  OBVIOUS
<1> USE WmiAssumption DEF IInv, TypeOK, GoTo, Outcome, locks, LockInv, PathInv, Reads
<1>1. ASSUME NEW t \in Tasks, Call(t) PROVE PathInv'
  BY <1>1 DEF Call
<1>2. ASSUME NEW t \in Tasks, Refuse(t) PROVE PathInv'
  BY <1>2 DEF Refuse
<1>3. ASSUME NEW t \in Tasks, DownWrite(t) PROVE PathInv'
  BY <1>3 DEF DownWrite
<1>4. ASSUME NEW t \in Tasks, DownRead(t) PROVE PathInv'
  BY <1>4 DEF DownRead
<1>5. ASSUME NEW t \in Tasks, Lock(t) PROVE PathInv'
  BY <1>5 DEF Lock
<1>6. ASSUME NEW t \in Tasks, Show(t) PROVE PathInv'
  BY <1>6 DEF Show
<1>7. ASSUME NEW t \in Tasks, PassInput(t) PROVE PathInv'
  BY <1>7 DEF PassInput
<1>8. ASSUME NEW t \in Tasks, ReadRegister(t) PROVE PathInv'
  BY <1>8 DEF ReadRegister
<1>9. ASSUME NEW t \in Tasks, WriteRegister(t) PROVE PathInv'
  BY <1>9 DEF WriteRegister
<1>10. ASSUME NEW t \in Tasks, MethodFails(t) PROVE PathInv'
  BY <1>10 DEF MethodFails
<1>11. ASSUME NEW t \in Tasks, Unlock(t) PROVE PathInv'
  BY <1>11 DEF Unlock
<1>12. ASSUME NEW t \in Tasks, UpWrite(t) PROVE PathInv'
  BY <1>12 DEF UpWrite
<1>13. ASSUME NEW t \in Tasks, Return(t) PROVE PathInv'
  BY <1>13 DEF Return
<1>14. CASE UNCHANGED vars
  BY <1>14 DEF vars
<1> QED
  BY <1>1, <1>2, <1>3, <1>4, <1>5, <1>6, <1>7, <1>8,
     <1>9, <1>10, <1>11, <1>12, <1>13, <1>14 DEF Next, Acquire, Proceed

LEMMA StepInput == IInv /\ [Next]_vars => InputInv'
<1> SUFFICES ASSUME IInv, [Next]_vars PROVE InputInv'
  OBVIOUS
<1> USE WmiAssumption DEF IInv, TypeOK, GoTo, Outcome, locks, LockInv, PathInv, InputInv, Reads, Updated
<1>1. ASSUME NEW t \in Tasks, Call(t) PROVE InputInv'
  <2> SUFFICES ASSUME NEW u \in Tasks PROVE InputInv!(u)'
    BY DEF InputInv
  <2>1. CASE u = t
    BY <1>1, <2>1 DEF Call
  <2>2. CASE u # t
    <3>1. pc'[u] = pc[u] /\ req'[u] = req[u]
      BY <1>1, <2>2 DEF Call
    <3>2. UNCHANGED <<input, ec, rd>>
      BY <1>1 DEF Call
    <3> QED
      BY <3>1, <3>2
  <2> QED
    BY <2>1, <2>2
<1>2. ASSUME NEW t \in Tasks, Refuse(t) PROVE InputInv'
  BY <1>2 DEF Refuse
<1>3. ASSUME NEW t \in Tasks, DownWrite(t) PROVE InputInv'
  BY <1>3 DEF DownWrite
<1>4. ASSUME NEW t \in Tasks, DownRead(t) PROVE InputInv'
  BY <1>4 DEF DownRead
<1>5. ASSUME NEW t \in Tasks, Lock(t) PROVE InputInv'
  BY <1>5 DEF Lock
<1>6. ASSUME NEW t \in Tasks, Show(t) PROVE InputInv'
  BY <1>6 DEF Show
<1>7. ASSUME NEW t \in Tasks, PassInput(t) PROVE InputInv'
  <2> SUFFICES ASSUME NEW u \in Tasks PROVE InputInv!(u)'
    BY DEF InputInv
  <2>1. lock = t
    BY <1>7 DEF PassInput
  <2>2. UNCHANGED <<ec, rd, req>>
    BY <1>7 DEF PassInput
  <2>3. CASE u # t
    <3>1. pc'[u] = pc[u] /\ pc[u] \notin {"read", "write", "input2"}
      BY <1>7, <2>1, <2>3 DEF PassInput
    <3> QED
      BY <2>2, <3>1
  <2>4. CASE u = t
    <3>1. input'.addr = req[t].addr /\ input'.val = Passed(t)
          /\ input'.method = IF Reads(t) THEN "get_data" ELSE "set_data"
      BY <1>7 DEF PassInput
    <3>2. pc'[t] = IF Reads(t) THEN "read" ELSE "write"
      BY <1>7 DEF PassInput
    <3>3. CASE Reads(t)
      BY <2>2, <2>4, <3>1, <3>2, <3>3
    <3>4. CASE ~Reads(t)
      <4>1. req[t].op \in {"set", "raw"} \/ (req[t].op = "update" /\ pc[t] = "input2")
        BY <1>7, <3>4, RequestFacts DEF PassInput
      <4>2. Passed(t) = IF req[t].op = "update" THEN Updated(t) ELSE req[t].val
        BY <4>1 DEF Passed
      <4>3. req[t].op = "update" => rd[t] = ec[req[t].addr]
        BY <4>1
      <4> QED
        BY <2>2, <2>4, <3>1, <3>2, <3>4, <4>2, <4>3
    <3> QED
      BY <3>3, <3>4
  <2> QED
    BY <2>3, <2>4
<1>8. ASSUME NEW t \in Tasks, ReadRegister(t) PROVE InputInv'
  BY <1>8 DEF ReadRegister
<1>9. ASSUME NEW t \in Tasks, WriteRegister(t) PROVE InputInv'
  BY <1>9 DEF WriteRegister
<1>10. ASSUME NEW t \in Tasks, MethodFails(t) PROVE InputInv'
  BY <1>10 DEF MethodFails
<1>11. ASSUME NEW t \in Tasks, Unlock(t) PROVE InputInv'
  BY <1>11 DEF Unlock
<1>12. ASSUME NEW t \in Tasks, UpWrite(t) PROVE InputInv'
  BY <1>12 DEF UpWrite
<1>13. ASSUME NEW t \in Tasks, Return(t) PROVE InputInv'
  BY <1>13 DEF Return
<1>14. CASE UNCHANGED vars
  BY <1>14 DEF vars
<1> QED
  BY <1>1, <1>2, <1>3, <1>4, <1>5, <1>6, <1>7, <1>8,
     <1>9, <1>10, <1>11, <1>12, <1>13, <1>14 DEF Next, Acquire, Proceed

LEMMA StepBuffer == IInv /\ [Next]_vars => BufferInv'
<1> SUFFICES ASSUME IInv, [Next]_vars PROVE BufferInv'
  OBVIOUS
<1> USE WmiAssumption DEF IInv, TypeOK, GoTo, Outcome, locks, LockInv, PathInv, BufferInv, Writing, Served
<1>1. ASSUME NEW t \in Tasks, Call(t) PROVE BufferInv'
  BY <1>1 DEF Call
<1>2. ASSUME NEW t \in Tasks, Refuse(t) PROVE BufferInv'
  BY <1>2 DEF Refuse
<1>3. ASSUME NEW t \in Tasks, DownWrite(t) PROVE BufferInv'
  BY <1>3 DEF DownWrite
<1>4. ASSUME NEW t \in Tasks, DownRead(t) PROVE BufferInv'
  BY <1>4 DEF DownRead
<1>5. ASSUME NEW t \in Tasks, Lock(t) PROVE BufferInv'
  BY <1>5 DEF Lock
<1>6. ASSUME NEW t \in Tasks, Show(t) PROVE BufferInv'
  BY <1>6 DEF Show
<1>7. ASSUME NEW t \in Tasks, PassInput(t) PROVE BufferInv'
  BY <1>7 DEF PassInput
<1>8. ASSUME NEW t \in Tasks, ReadRegister(t) PROVE BufferInv'
  <2> SUFFICES ASSUME NEW f \in Files PROVE BufferInv!(f)'
    BY DEF BufferInv
  <2>1. pc[t] = "read" /\ pc' = [pc EXCEPT ![t] = pc'[t]]
        /\ pc'[t] \in {"input2", "unlock"} /\ UNCHANGED <<req, writer, readers>>
    BY <1>8 DEF ReadRegister
  <2>2. \A u \in Tasks : Writing(u, f)' <=> Writing(u, f)
    BY <2>1
  <2>3. \A u \in Tasks : (pc[u] = "show")' <=> pc[u] = "show"
    BY <2>1
  <2>4. ASSUME NEW u \in Tasks, writer'[f] = u, ~Served(u)' PROVE buffer'[f] = Payload(req'[u].val)
    <3>1. writer[f] = u /\ ~Served(u) /\ req'[u] = req[u]
      BY <2>1, <2>4
    <3>2. CASE u = t
      <4>1. req[t].op = "raw" /\ req[t].file = f
        BY <3>1, <3>2
      <4> QED
        BY <1>8, <2>4, <3>2, <4>1 DEF ReadRegister
    <3>3. CASE u # t
      <4>1. req[t].op = "raw" => req[t].file # f
        BY <2>1, <3>1, <3>3
      <4>2. buffer'[f] = buffer[f]
        BY <1>8, <4>1 DEF ReadRegister, Answered
      <4> QED
        BY <3>1, <4>2
    <3> QED
      BY <3>2, <3>3
  <2> QED
    BY <2>1, <2>2, <2>3, <2>4
<1>9. ASSUME NEW t \in Tasks, WriteRegister(t) PROVE BufferInv'
  <2> SUFFICES ASSUME NEW f \in Files PROVE BufferInv!(f)'
    BY DEF BufferInv
  <2>1. pc[t] = "write" /\ pc' = [pc EXCEPT ![t] = pc'[t]]
        /\ pc'[t] \in {"input2", "unlock"} /\ UNCHANGED <<req, writer, readers>>
    BY <1>9 DEF WriteRegister
  <2>2. \A u \in Tasks : Writing(u, f)' <=> Writing(u, f)
    BY <2>1
  <2>3. \A u \in Tasks : (pc[u] = "show")' <=> pc[u] = "show"
    BY <2>1
  <2>4. ASSUME NEW u \in Tasks, writer'[f] = u, ~Served(u)' PROVE buffer'[f] = Payload(req'[u].val)
    <3>1. writer[f] = u /\ ~Served(u) /\ req'[u] = req[u]
      BY <2>1, <2>4
    <3>2. CASE u = t
      <4>1. req[t].op = "raw" /\ req[t].file = f
        BY <3>1, <3>2
      <4> QED
        BY <1>9, <2>4, <3>2, <4>1 DEF WriteRegister
    <3>3. CASE u # t
      <4>1. req[t].op = "raw" => req[t].file # f
        BY <2>1, <3>1, <3>3
      <4>2. buffer'[f] = buffer[f]
        BY <1>9, <4>1 DEF WriteRegister, Answered
      <4> QED
        BY <3>1, <4>2
    <3> QED
      BY <3>2, <3>3
  <2> QED
    BY <2>1, <2>2, <2>3, <2>4
<1>10. ASSUME NEW t \in Tasks, MethodFails(t) PROVE BufferInv'
  BY <1>10 DEF MethodFails
<1>11. ASSUME NEW t \in Tasks, Unlock(t) PROVE BufferInv'
  BY <1>11 DEF Unlock
<1>12. ASSUME NEW t \in Tasks, UpWrite(t) PROVE BufferInv'
  BY <1>12 DEF UpWrite
<1>13. ASSUME NEW t \in Tasks, Return(t) PROVE BufferInv'
  BY <1>13 DEF Return
<1>14. CASE UNCHANGED vars
  BY <1>14 DEF vars
<1> QED
  BY <1>1, <1>2, <1>3, <1>4, <1>5, <1>6, <1>7, <1>8,
     <1>9, <1>10, <1>11, <1>12, <1>13, <1>14 DEF Next, Acquire, Proceed

\* The inductive invariant holds in every reachable state.
THEOREM Invariance == Spec => []IInv
<1>1. IInv /\ [Next]_vars => IInv'
  BY StepType, StepLock, StepPath, StepInput, StepBuffer DEF IInv
<1> QED
  BY <1>1, InitInv, PTL DEF Spec

\* Every variable keeps its type, for every number of tasks and registers.
THEOREM TypeCorrect == Spec => []TypeOK
<1>1. IInv => TypeOK
  BY DEF IInv
<1> QED
  BY <1>1, Invariance, PTL

-----------------------------------------------------------------------------
(* The refinement.                                                         *)

StageOf(l) == CASE l = "idle" -> "idle"
                [] l \in {"unlock", "up_write", "done"} -> "served"
                [] OTHER -> "called"

LEMMA StageIs == \A t \in Tasks : Stage[t] = StageOf(pc[t])
  BY DEF Stage, StageOf, Served

LEMMA StageStep ==
  ASSUME TypeOK, NEW t \in Tasks, NEW l \in Pcs, pc' = [pc EXCEPT ![t] = l]
  PROVE  Stage' = [Stage EXCEPT ![t] = StageOf(l)]
<1>1. \A u \in Tasks : pc'[u] = IF u = t THEN l ELSE pc[u]
  BY DEF TypeOK
<1>2. Stage' = [u \in Tasks |-> StageOf(pc'[u])]
  BY DEF Stage, StageOf, Served
<1>3. Stage = [u \in Tasks |-> StageOf(pc[u])]
  BY DEF Stage, StageOf, Served
<1> QED
  BY <1>1, <1>2, <1>3

\* A step within a stage is not seen.
LEMMA StageSame ==
  ASSUME TypeOK, NEW t \in Tasks, NEW l \in Pcs, pc' = [pc EXCEPT ![t] = l],
         StageOf(l) = StageOf(pc[t])
  PROVE  Stage' = Stage
<1>1. Stage' = [Stage EXCEPT ![t] = Stage[t]]
  BY StageStep, StageIs
<1> QED
  BY <1>1 DEF Stage

\* A step of a task that holds no buffer_lock, or that serves nothing, shows
\* nothing either.
LEMMA ShownSame ==
  ASSUME IInv, NEW t \in Tasks, NEW l \in Pcs, pc' = [pc EXCEPT ![t] = l],
         UNCHANGED <<buffer, writer, was>>,
         (l \in {"unlock", "up_write", "done"} <=> Served(t))
           \/ \A f \in Files : writer[f] # t
  PROVE  Shown' = Shown
<1>1. \A f \in Files : writer[f] # Nobody =>
        writer[f] \in Tasks /\ (Served(writer[f])' <=> Served(writer[f]))
  BY DEF IInv, TypeOK, Served
<1> QED
  BY <1>1 DEF Shown

\* What serving a request shows.
LEMMA ShownServed ==
  ASSUME IInv, NEW t \in Tasks, pc[t] \in {"read", "write"}, pc' = [pc EXCEPT ![t] = "unlock"],
         UNCHANGED <<writer, was>>, NEW v,
         buffer' = IF req[t].op = "raw" THEN [buffer EXCEPT ![req[t].file] = v] ELSE buffer
  PROVE  Shown' = IF req[t].op = "raw" THEN [Shown EXCEPT ![req[t].file] = v] ELSE Shown
<1>1. CASE req[t].op # "raw"
  <2>1. \A f \in Files : writer[f] # t
    BY <1>1 DEF IInv, BufferInv, Writing
  <2> QED
    BY <1>1, <2>1, ShownSame DEF Pcs
<1>2. CASE req[t].op = "raw"
  <2>1. req[t].file \in Files /\ writer[req[t].file] = t
    BY <1>2, RequestFacts DEF IInv, BufferInv, Writing
  <2>2. \A f \in Files : f # req[t].file => writer[f] # t
    BY <1>2 DEF IInv, BufferInv, Writing
  <2>3. Served(t)'
    BY DEF Served, IInv, TypeOK
  <2>4. \A f \in Files : f # req[t].file /\ writer[f] # Nobody =>
          (Served(writer[f])' <=> Served(writer[f]))
    BY <2>2 DEF IInv, TypeOK, Served
  <2>5. ASSUME NEW f \in Files
        PROVE Shown'[f] = [Shown EXCEPT ![req[t].file] = v][f]
    <3>1. CASE f = req[t].file
      BY <1>2, <2>1, <2>3, <3>1 DEF Shown, IInv, TypeOK
    <3>2. CASE f # req[t].file
      BY <1>2, <2>4, <3>2 DEF Shown, IInv, TypeOK
    <3> QED
      BY <3>1, <3>2
  <2> QED
    BY <1>2, <2>5 DEF Shown
<1> QED
  BY <1>1, <1>2

LEMMA AbstractInit == Init => Abstract!Init
<1> SUFFICES ASSUME Init PROVE Abstract!Init
  OBVIOUS
<1>1. Shown = [f \in Files |-> Nothing]
  BY WmiAssumption DEF Init, Shown
<1>2. Stage = [t \in Tasks |-> "idle"]
  BY DEF Init, Stage, Served
<1>3. req \in [Tasks -> Abstract!Request]
  BY WmiAssumption DEF Init, Request, Abstract!Request, Vals, Abstract!Vals, Files, Abstract!Files
<1> QED
  BY <1>1, <1>2, <1>3
  DEF Init, Abstract!Init, Vals, Abstract!Vals, Files, Abstract!Files, Nothing,
      Abstract!Nothing, Zero

\* A step that a caller cannot tell from none.
LEMMA Hidden ==
  ASSUME IInv, NEW t \in Tasks,
         DownWrite(t) \/ DownRead(t) \/ Lock(t) \/ PassInput(t) \/ Unlock(t) \/ UpWrite(t)
           \/ (ReadRegister(t) /\ req[t].op = "update")
  PROVE  UNCHANGED Abstract!vars
<1> USE DEF GoTo, locks
<1>1. TypeOK
  BY DEF IInv
<1>2. CASE DownWrite(t)
  <2>1. pc' = [pc EXCEPT ![t] = "mutex"] /\ StageOf("mutex") = StageOf(pc[t])
    BY <1>2 DEF DownWrite, StageOf
  <2>2. Stage' = Stage
    BY <1>1, <2>1, StageSame DEF Pcs
  <2>3. /\ writer[req[t].file] = Nobody /\ req[t].file \in Files
        /\ writer' = [writer EXCEPT ![req[t].file] = t]
        /\ was' = [was EXCEPT ![req[t].file] = buffer[req[t].file]]
        /\ \A f \in Files : f # req[t].file => buffer'[f] = buffer[f]
    BY <1>2, RequestFacts DEF DownWrite, IInv, PathInv, TypeOK
  <2>4. ~Served(t)'
    BY <2>1 DEF Served, IInv, TypeOK
  <2>5. \A f \in Files : writer[f] # t
    BY <1>2 DEF DownWrite, IInv, BufferInv, Writing
  <2>6. \A u \in Tasks : u # t => (Served(u)' <=> Served(u))
    BY <2>1 DEF Served, IInv, TypeOK
  <2>7. ASSUME NEW f \in Files PROVE Shown'[f] = Shown[f]
    <3>1. CASE f = req[t].file
      BY <2>3, <2>4, <3>1, WmiAssumption DEF Shown, IInv, TypeOK
    <3>2. CASE f # req[t].file
      BY <2>3, <2>5, <2>6, <3>2 DEF Shown, IInv, TypeOK
    <3> QED
      BY <3>1, <3>2
  <2> QED
    BY <1>2, <2>2, <2>7 DEF DownWrite, Abstract!vars, Shown
<1>3. CASE DownRead(t)
  <2>1. pc' = [pc EXCEPT ![t] = "show"] /\ StageOf("show") = StageOf(pc[t])
        /\ ~Served(t)
    BY <1>3 DEF DownRead, StageOf, Served
  <2>2. Stage' = Stage
    BY <1>1, <2>1, StageSame DEF Pcs
  <2>3. Shown' = Shown
    BY <1>3, <2>1, ShownSame DEF DownRead, Pcs
  <2> QED
    BY <1>3, <2>2, <2>3 DEF DownRead, Abstract!vars
<1>4. CASE Lock(t)
  <2>1. pc' = [pc EXCEPT ![t] = "input"] /\ StageOf("input") = StageOf(pc[t])
        /\ ~Served(t)
    BY <1>4 DEF Lock, StageOf, Served
  <2>2. Stage' = Stage
    BY <1>1, <2>1, StageSame DEF Pcs
  <2>3. Shown' = Shown
    BY <1>4, <2>1, ShownSame DEF Lock, Pcs
  <2> QED
    BY <1>4, <2>2, <2>3 DEF Lock, Abstract!vars
<1>5. CASE PassInput(t)
  <2>1. PICK l \in {"read", "write"} : pc' = [pc EXCEPT ![t] = l]
    BY <1>5 DEF PassInput
  <2>2. StageOf(l) = StageOf(pc[t]) /\ ~Served(t)
    BY <1>5 DEF PassInput, StageOf, Served
  <2>3. Stage' = Stage
    BY <1>1, <2>1, <2>2, StageSame DEF Pcs
  <2>4. Shown' = Shown
    BY <1>5, <2>1, <2>2, ShownSame DEF PassInput, Pcs
  <2> QED
    BY <1>5, <2>3, <2>4 DEF PassInput, Abstract!vars
<1>6. CASE Unlock(t)
  <2>1. pc' = [pc EXCEPT ![t] = "up_write"] /\ StageOf("up_write") = StageOf(pc[t])
        /\ Served(t)
    BY <1>6 DEF Unlock, StageOf, Served
  <2>2. Stage' = Stage
    BY <1>1, <2>1, StageSame DEF Pcs
  <2>3. Shown' = Shown
    BY <1>6, <2>1, ShownSame DEF Unlock, Pcs
  <2> QED
    BY <1>6, <2>2, <2>3 DEF Unlock, Abstract!vars
<1>7. CASE UpWrite(t)
  <2>1. pc' = [pc EXCEPT ![t] = "done"] /\ StageOf("done") = StageOf(pc[t])
        /\ Served(t)
    BY <1>7 DEF UpWrite, StageOf, Served
  <2>2. Stage' = Stage
    BY <1>1, <2>1, StageSame DEF Pcs
  <2>3. CASE req[t].op # "raw"
    BY <1>7, <2>1, <2>2, <2>3, ShownSame DEF UpWrite, Pcs, Abstract!vars
  <2>4. CASE req[t].op = "raw"
    <3>1. /\ req[t].file \in Files /\ writer[req[t].file] = t
          /\ \A f \in Files : f # req[t].file => writer[f] # t
      BY <1>7, <2>4, RequestFacts DEF UpWrite, IInv, BufferInv, Writing
    <3>2. \A u \in Tasks : u # t => (Served(u)' <=> Served(u))
      BY <2>1 DEF Served, IInv, TypeOK
    <3>3. ASSUME NEW f \in Files PROVE Shown'[f] = Shown[f]
      <4>1. CASE f = req[t].file
        BY <1>7, <2>1, <2>4, <3>1, <4>1 DEF UpWrite, Shown, IInv, TypeOK
      <4>2. CASE f # req[t].file
        BY <1>7, <2>4, <3>1, <3>2, <4>2 DEF UpWrite, Shown, IInv, TypeOK
      <4> QED
        BY <4>1, <4>2
    <3>4. Shown' = Shown
      BY <3>3 DEF Shown
    <3> QED
      BY <1>7, <2>2, <3>4 DEF UpWrite, Abstract!vars
  <2> QED
    BY <2>3, <2>4
<1>8. CASE ReadRegister(t) /\ req[t].op = "update"
  <2>1. pc' = [pc EXCEPT ![t] = "input2"] /\ StageOf("input2") = StageOf(pc[t])
        /\ ~Served(t) /\ UNCHANGED <<ec, buffer, writer, was, req, result>>
    BY <1>8 DEF ReadRegister, Answered, StageOf, Served
  <2>2. Stage' = Stage
    BY <1>1, <2>1, StageSame DEF Pcs
  <2>3. Shown' = Shown
    BY <2>1, ShownSame DEF Pcs
  <2> QED
    BY <2>1, <2>2, <2>3 DEF Abstract!vars
<1> QED
  BY <1>2, <1>3, <1>4, <1>5, <1>6, <1>7, <1>8

USE DEF Abstract!Vals, Abstract!Files, Abstract!Payload, Abstract!Reply, Abstract!Nothing

LEMMA CallServes ==
  ASSUME IInv, NEW t \in Tasks, Call(t)
  PROVE  Abstract!Invoke(t)
<1>1. PICK r \in Requests :
        /\ req' = [req EXCEPT ![t] = r]
        /\ pc' = [pc EXCEPT ![t] = CASE r.op = "raw"  -> "down_write"
                                     [] r.op = "show" -> "down_read"
                                     [] OTHER -> "mutex"]
  BY DEF Call, GoTo
<1>2. PICK l \in {"down_write", "down_read", "mutex"} : pc' = [pc EXCEPT ![t] = l]
  BY <1>1
<1>3. r \in Abstract!Request
  BY WmiAssumption DEF Request, Abstract!Request, Vals, Files
<1>4. Stage[t] = "idle" /\ Stage' = [Stage EXCEPT ![t] = "called"]
  BY <1>2, StageStep, StageIs DEF IInv, Pcs, StageOf, Call
<1>5. Shown' = Shown
  <2>1. \A f \in Files : writer[f] # t
    BY DEF IInv, BufferInv, Writing, Call
  <2> QED
    BY <1>2, <2>1, ShownSame DEF Call, locks, Pcs
<1> QED
  BY <1>1, <1>3, <1>4, <1>5 DEF Abstract!Invoke, Call

LEMMA RefuseServes ==
  ASSUME IInv, NEW t \in Tasks, Refuse(t)
  PROVE  Abstract!Fail(t)
<1>1. pc[t] = "down_write" /\ pc' = [pc EXCEPT ![t] = "done"] /\ req[t].op = "raw"
  BY DEF Refuse, GoTo, IInv, PathInv
<1>2. Stage[t] = "called" /\ Stage' = [Stage EXCEPT ![t] = "served"]
  BY <1>1, StageStep, StageIs DEF IInv, Pcs, StageOf
<1>3. Shown' = Shown
  <2>1. \A f \in Files : writer[f] # t
    BY <1>1 DEF IInv, BufferInv, Writing
  <2> QED
    BY <1>1, <2>1, ShownSame DEF Refuse, locks, Pcs
<1> QED
  BY <1>1, <1>2, <1>3 DEF Refuse, Outcome, Abstract!Fail, Abstract!Serve, Nothing, Zero

LEMMA ShowServes ==
  ASSUME IInv, NEW t \in Tasks, Show(t)
  PROVE  Abstract!Succeed(t)
<1>1. pc[t] = "show" /\ pc' = [pc EXCEPT ![t] = "done"] /\ req[t].op = "show"
  BY DEF Show, GoTo, IInv, PathInv
<1>2. Stage[t] = "called" /\ Stage' = [Stage EXCEPT ![t] = "served"]
  BY <1>1, StageStep, StageIs DEF IInv, Pcs, StageOf
<1>3. Shown' = Shown
  <2>1. \A f \in Files : writer[f] # t
    BY <1>1 DEF IInv, BufferInv, Writing
  <2> QED
    BY <1>1, <2>1, ShownSame DEF Show, Pcs
<1>4. Shown[req[t].file] = buffer[req[t].file]
  BY <1>1, RequestFacts DEF IInv, BufferInv, Shown
<1>5. Abstract!Answer(req[t]) = buffer[req[t].file] /\ Abstract!After(req[t]) = ec
  BY <1>1, <1>4 DEF Abstract!Answer, Abstract!After
<1> QED
  BY <1>1, <1>2, <1>3, <1>5 DEF Show, Outcome, Abstract!Succeed, Abstract!Serve

LEMMA ReadServes ==
  ASSUME IInv, NEW t \in Tasks, ReadRegister(t), req[t].op # "update"
  PROVE  Abstract!Succeed(t)
<1> DEFINE v == ec[req[t].addr]
<1>1. /\ pc[t] = "read" /\ pc' = [pc EXCEPT ![t] = "unlock"]
      /\ result' = [result EXCEPT ![t] = [ok |-> TRUE, got |-> Reply(v)]]
      /\ buffer' = IF req[t].op = "raw" THEN [buffer EXCEPT ![req[t].file] = Reply(v)] ELSE buffer
      /\ UNCHANGED <<ec, req, writer, was>>
  BY DEF ReadRegister, GoTo, Outcome, Answered, locks, IInv, InputInv
<1>2. Stage[t] = "called" /\ Stage' = [Stage EXCEPT ![t] = "served"]
  BY <1>1, StageStep, StageIs DEF IInv, Pcs, StageOf
<1>3. Shown' = IF req[t].op = "raw" THEN [Shown EXCEPT ![req[t].file] = Reply(v)] ELSE Shown
  BY <1>1, ShownServed
<1>4. req[t].op = "get" \/ (req[t].op = "raw" /\ req[t].file = "get_data")
  BY <1>1 DEF IInv, PathInv, Reads
<1>5. Abstract!Answer(req[t]) = Reply(v) /\ Abstract!After(req[t]) = ec
  BY <1>4 DEF Abstract!Answer, Abstract!After, Reply
<1> QED
  BY <1>1, <1>2, <1>3, <1>5 DEF Abstract!Succeed, Abstract!Serve

\* After a request that writes, its register holds what was passed.
LEMMA Written ==
  ASSUME IInv, NEW t \in Tasks, pc[t] = "write"
  PROVE  /\ [ec EXCEPT ![input.addr] = input.val] = Abstract!After(req[t])
         /\ req[t].op \in {"set", "update"}
              \/ (req[t].op = "raw" /\ req[t].file = "set_data" /\ input.val = req[t].val)
<1>1. req[t].op \in {"set", "update"} \/ (req[t].op = "raw" /\ req[t].file = "set_data")
  BY RequestFacts DEF IInv, PathInv, Reads, Files
<1>2. input.addr = req[t].addr
  BY DEF IInv, InputInv
<1>3. CASE req[t].op = "update"
  <2>1. input.val = [ec[req[t].addr] EXCEPT ![req[t].bit] = req[t].on]
    BY <1>3 DEF IInv, InputInv, Updated
  <2> QED
    BY <1>2, <1>3, <2>1 DEF Abstract!After
<1>4. CASE req[t].op # "update"
  <2>1. input.val = req[t].val
    BY <1>4 DEF IInv, InputInv
  <2> QED
    BY <1>1, <1>2, <1>4, <2>1 DEF Abstract!After
<1> QED
  BY <1>3, <1>4

LEMMA WriteServes ==
  ASSUME IInv, NEW t \in Tasks, WriteRegister(t)
  PROVE  Abstract!Succeed(t)
<1>1. /\ pc[t] = "write" /\ pc' = [pc EXCEPT ![t] = "unlock"]
      /\ result' = [result EXCEPT ![t] =
           [ok |-> TRUE, got |-> IF req[t].op = "raw" THEN Reply(input.val) ELSE Nothing]]
      /\ buffer' = IF req[t].op = "raw" THEN [buffer EXCEPT ![req[t].file] = Reply(input.val)]
                                        ELSE buffer
      /\ UNCHANGED <<req, writer, was>>
  BY DEF WriteRegister, GoTo, Outcome, Answered, locks
<1>2. Stage[t] = "called" /\ Stage' = [Stage EXCEPT ![t] = "served"]
  BY <1>1, StageStep, StageIs DEF IInv, Pcs, StageOf
<1>3. Shown' = IF req[t].op = "raw" THEN [Shown EXCEPT ![req[t].file] = Reply(input.val)] ELSE Shown
  BY <1>1, ShownServed
<1>4. ec' = Abstract!After(req[t])
  BY <1>1, Written DEF WriteRegister
<1>5. Abstract!Answer(req[t]) = IF req[t].op = "raw" THEN Reply(input.val) ELSE Nothing
  BY <1>1, Written DEF Abstract!Answer, Reply, Nothing, Zero
<1> QED
  BY <1>1, <1>2, <1>3, <1>4, <1>5 DEF Abstract!Succeed, Abstract!Serve

LEMMA FailServes ==
  ASSUME IInv, NEW t \in Tasks, MethodFails(t)
  PROVE  Abstract!Fail(t)
<1> DEFINE v == Payload(req[t].val)
<1>1. /\ pc[t] \in {"read", "write"} /\ pc' = [pc EXCEPT ![t] = "unlock"]
      /\ result' = [result EXCEPT ![t] = [ok |-> FALSE, got |-> Nothing]]
      /\ req[t].op # "show"
      /\ UNCHANGED <<req, buffer, writer, was>>
  BY DEF MethodFails, GoTo, Outcome, locks, IInv, PathInv
<1>2. Stage[t] = "called" /\ Stage' = [Stage EXCEPT ![t] = "served"]
  BY <1>1, StageStep, StageIs DEF IInv, Pcs, StageOf
<1>3. buffer' = IF req[t].op = "raw" THEN [buffer EXCEPT ![req[t].file] = v] ELSE buffer
  <2>1. req[t].op = "raw" => req[t].file \in Files /\ writer[req[t].file] = t
    BY <1>1, RequestFacts DEF IInv, BufferInv, Writing
  <2>2. req[t].op = "raw" => buffer[req[t].file] = v
    BY <1>1, <2>1 DEF IInv, BufferInv, Served
  <2> QED
    BY <1>1, <2>1, <2>2 DEF IInv, TypeOK
<1>4. Shown' = IF req[t].op = "raw" THEN [Shown EXCEPT ![req[t].file] = v] ELSE Shown
  BY <1>1, <1>3, ShownServed
<1>5. ec' \in {ec, Abstract!After(req[t])}
  BY <1>1, Written DEF MethodFails
<1> QED
  BY <1>1, <1>2, <1>4, <1>5
  DEF Abstract!Fail, Abstract!Serve, Payload, Nothing, Zero

LEMMA ReturnServes ==
  ASSUME IInv, NEW t \in Tasks, Return(t)
  PROVE  Abstract!Return(t)
<1>1. pc[t] = "done" /\ pc' = [pc EXCEPT ![t] = "idle"]
  BY DEF Return, GoTo
<1>2. Stage[t] = "served" /\ Stage' = [Stage EXCEPT ![t] = "idle"]
  BY <1>1, StageStep, StageIs DEF IInv, Pcs, StageOf
<1>3. Shown' = Shown
  <2>1. \A f \in Files : writer[f] # t
    BY <1>1 DEF IInv, BufferInv, Writing
  <2> QED
    BY <1>1, <2>1, ShownSame DEF Return, locks, Pcs
<1> QED
  BY <1>1, <1>2, <1>3 DEF Return, Outcome, Abstract!Return, Nothing, Zero

LEMMA AbstractNext == IInv /\ [Next]_vars => [Abstract!Next]_(Abstract!vars)
<1> SUFFICES ASSUME IInv, [Next]_vars PROVE [Abstract!Next]_(Abstract!vars)
  OBVIOUS
<1>1. ASSUME NEW t \in Tasks, Call(t) \/ Refuse(t) \/ Acquire(t) \/ Proceed(t)
      PROVE  Abstract!Next \/ UNCHANGED Abstract!vars
  <2>1. CASE Call(t)
    BY <2>1, CallServes DEF Abstract!Next
  <2>2. CASE Refuse(t)
    BY <2>2, RefuseServes DEF Abstract!Next
  <2>3. CASE Acquire(t)
    BY <2>3, Hidden DEF Acquire
  <2>4. CASE Show(t)
    BY <2>4, ShowServes DEF Abstract!Next
  <2>5. CASE ReadRegister(t) /\ req[t].op # "update"
    BY <2>5, ReadServes DEF Abstract!Next
  <2>6. CASE WriteRegister(t)
    BY <2>6, WriteServes DEF Abstract!Next
  <2>7. CASE MethodFails(t)
    BY <2>7, FailServes DEF Abstract!Next
  <2>8. CASE Return(t)
    BY <2>8, ReturnServes DEF Abstract!Next
  <2>9. CASE PassInput(t) \/ Unlock(t) \/ UpWrite(t) \/ (ReadRegister(t) /\ req[t].op = "update")
    BY <2>9, Hidden
  <2> QED
    BY <1>1, <2>1, <2>2, <2>3, <2>4, <2>5, <2>6, <2>7, <2>8, <2>9 DEF Proceed
<1>2. CASE UNCHANGED vars
  BY <1>2 DEF vars, locks, Abstract!vars, Shown, Stage, Served
<1> QED
  BY <1>1, <1>2 DEF Next

\* The helpers and the debugfs files of the driver, with their two kinds of
\* locks around a method that is not thread-safe, are atomic to their callers.
THEOREM Atomic == Spec => ImplementsEcRegisters
  BY AbstractInit, AbstractNext, Invariance, PTL
  DEF Spec, ImplementsEcRegisters, Abstract!Spec

-----------------------------------------------------------------------------
(* What a call may change, and whom it may wait for.                       *)

\* Task t is about to write v to a bit of a register, as it was asked to.
Asks(t, a, b, v) ==
  /\ pc[t] = "write" /\ req[t].addr = a
  /\ \/ req[t].op = "update" /\ req[t].bit = b /\ req[t].on = v
     \/ req[t].op \in {"set", "raw"} /\ req[t].val[b] = v

\* A bit of a register only ever becomes what somebody asks for: ec_update_bit,
\* which reads and writes all eight, undoes nobody's change of another, however
\* the calls overlap and whatever fails.
BitsChangeOnRequest ==
  [][\A a \in Addrs, b \in Bits :
       ec'[a][b] # ec[a][b] => \E t \in Tasks : Asks(t, a, b, ec'[a][b])]_vars

LEMMA WrittenBits ==
  ASSUME IInv, NEW t \in Tasks, pc[t] = "write",
         ec' = [ec EXCEPT ![input.addr] = input.val],
         NEW a \in Addrs, NEW b \in Bits, ec'[a][b] # ec[a][b]
  PROVE  Asks(t, a, b, ec'[a][b])
<1>1. input.addr = req[t].addr /\ ~Reads(t) /\ req[t].op \notin {"get", "show"}
  BY DEF IInv, InputInv, PathInv
<1>2. ec \in [Addrs -> Vals] /\ rd[t] \in Vals
  BY DEF IInv, TypeOK
<1>3. a = req[t].addr
  BY <1>1, <1>2
<1>4. ec'[a] = input.val
  BY <1>1, <1>2, <1>3
<1>5. req[t].op \in {"set", "update", "raw"}
  BY <1>1, RequestFacts DEF IInv
<1>6. CASE req[t].op = "update"
  <2>1. input.val = Updated(t) /\ rd[t] = ec[a]
    BY <1>3, <1>6 DEF IInv, InputInv
  <2>2. b = req[t].bit /\ Updated(t)[b] = req[t].on
    BY <1>2, <1>4, <2>1 DEF Updated, Vals
  <2> QED
    BY <1>3, <1>4, <1>6, <2>1, <2>2 DEF Asks
<1>7. CASE req[t].op # "update"
  <2>1. input.val = req[t].val
    BY <1>7 DEF IInv, InputInv
  <2> QED
    BY <1>3, <1>4, <1>5, <1>7, <2>1 DEF Asks
<1> QED
  BY <1>6, <1>7

LEMMA OnlyWritesChange ==
  ASSUME [Next]_vars
  PROVE  \/ ec' = ec
         \/ \E t \in Tasks : pc[t] = "write" /\ ec' = [ec EXCEPT ![input.addr] = input.val]
<1>1. ASSUME NEW t \in Tasks, Call(t) \/ Refuse(t) \/ Acquire(t) PROVE ec' = ec
  BY <1>1 DEF Call, Refuse, Acquire, DownWrite, DownRead, Lock
<1>2. ASSUME NEW t \in Tasks, Show(t) \/ PassInput(t) \/ ReadRegister(t) \/ Unlock(t)
                                \/ UpWrite(t) \/ Return(t)
      PROVE  ec' = ec
  BY <1>2 DEF Show, PassInput, ReadRegister, Unlock, UpWrite, Return
<1>3. ASSUME NEW t \in Tasks, WriteRegister(t)
      PROVE  pc[t] = "write" /\ ec' = [ec EXCEPT ![input.addr] = input.val]
  BY <1>3 DEF WriteRegister
<1>4. ASSUME NEW t \in Tasks, MethodFails(t), ec' # ec
      PROVE  pc[t] = "write" /\ ec' = [ec EXCEPT ![input.addr] = input.val]
  BY <1>4 DEF MethodFails
<1>5. UNCHANGED vars => ec' = ec
  BY DEF vars
<1> QED
  BY <1>1, <1>2, <1>3, <1>4, <1>5 DEF Next, Proceed

\* What the helpers promise of single bits, for all registers and any overlap.
THEOREM NoLostBit == Spec => BitsChangeOnRequest
<1>1. ASSUME IInv, [Next]_vars, NEW a \in Addrs, NEW b \in Bits, ec'[a][b] # ec[a][b]
      PROVE  \E t \in Tasks : Asks(t, a, b, ec'[a][b])
  BY <1>1, WrittenBits, OnlyWritesChange
<1>2. IInv /\ [Next]_vars =>
        [\A a \in Addrs, b \in Bits :
           ec'[a][b] # ec[a][b] => \E t \in Tasks : Asks(t, a, b, ec'[a][b])]_vars
  BY <1>1
<1> QED
  BY <1>2, Invariance, PTL DEF Spec, BitsChangeOnRequest

\* No lock keeps task t from its next step.
Runs(t) ==
  \/ pc[t] \in {"show", "input", "input2", "unlock", "up_write", "done"}
  \/ pc[t] = "read" /\ input.method = "get_data"
  \/ pc[t] = "write" /\ input.method = "set_data"
  \/ pc[t] = "mutex" /\ lock = Nobody
  \/ pc[t] = "down_write" /\ writer[req[t].file] = Nobody /\ readers[req[t].file] = {}
  \/ pc[t] = "down_read" /\ writer[req[t].file] = Nobody

\* Task u holds what t waits for.
Blocks(u, t) ==
  \/ pc[t] = "mutex" /\ lock = u
  \/ pc[t] = "down_write" /\ (writer[req[t].file] = u \/ u \in readers[req[t].file])
  \/ pc[t] = "down_read" /\ writer[req[t].file] = u

\* buffer_lock is taken before wmi_lock: whoever is in the driver runs, or waits
\* for somebody who runs, or for somebody who waits for somebody who runs.  So
\* there is no deadlock, for any number of callers.
LocksAreOrdered ==
  \A t \in Tasks : pc[t] # "idle" =>
    \/ Runs(t)
    \/ \E u \in Tasks :
         /\ Blocks(u, t)
         /\ Runs(u) \/ \E v \in Tasks : Blocks(v, u) /\ Runs(v)

THEOREM NoDeadlock == Spec => []LocksAreOrdered
<1>1. ASSUME IInv, NEW u \in Tasks, lock = u PROVE Runs(u)
  BY <1>1 DEF IInv, LockInv, InputInv, Runs
<1>2. ASSUME IInv, NEW t \in Tasks, pc[t] = "mutex"
      PROVE  Runs(t) \/ \E u \in Tasks : Blocks(u, t) /\ Runs(u)
  BY <1>1, <1>2 DEF IInv, TypeOK, Runs, Blocks
<1>3. ASSUME IInv, NEW u \in Tasks, NEW f \in Files, writer[f] = u
      PROVE  Runs(u) \/ \E v \in Tasks : Blocks(v, u) /\ Runs(v)
  <2>1. pc[u] \in {"mutex", "input", "read", "input2", "write", "unlock", "up_write"}
    BY <1>3 DEF IInv, BufferInv, Writing
  <2>2. CASE pc[u] = "mutex"
    BY <1>2, <1>3, <2>2
  <2>3. CASE pc[u] # "mutex"
    BY <1>3, <2>1, <2>3 DEF IInv, InputInv, Runs
  <2> QED
    BY <2>2, <2>3
<1>4. ASSUME IInv, NEW u \in Tasks, NEW f \in Files, u \in readers[f] PROVE Runs(u)
  BY <1>4 DEF IInv, BufferInv, Runs
<1>5. ASSUME IInv, NEW t \in Tasks, pc[t] \in {"down_write", "down_read"}
      PROVE  \/ Runs(t)
             \/ \E u \in Tasks :
                  /\ Blocks(u, t)
                  /\ Runs(u) \/ \E v \in Tasks : Blocks(v, u) /\ Runs(v)
  <2> DEFINE f == req[t].file
  <2>1. f \in Files
    <3>1. req[t] \in Request /\ req[t].op \in {"raw", "show"}
      BY <1>5, WmiAssumption DEF IInv, TypeOK, PathInv
    <3> QED
      BY <3>1, RequestParts
  <2>2. writer[f] \in Tasks \union {Nobody} /\ readers[f] \subseteq Tasks
    BY <1>5, <2>1 DEF IInv, TypeOK
  <2>3. CASE writer[f] \in Tasks
    BY <1>3, <1>5, <2>1, <2>3 DEF Blocks
  <2>4. CASE writer[f] = Nobody /\ readers[f] # {}
    <3>1. PICK u \in Tasks : u \in readers[f]
      BY <2>2, <2>4
    <3>2. Runs(u)
      BY <1>4, <1>5, <2>1, <3>1
    <3> QED
      BY <1>5, <2>4, <3>1, <3>2 DEF Blocks, Runs
  <2>5. CASE writer[f] = Nobody /\ readers[f] = {}
    BY <1>5, <2>5 DEF Runs
  <2> QED
    BY <2>2, <2>3, <2>4, <2>5
<1>6. IInv => LocksAreOrdered
  <2> SUFFICES ASSUME IInv, NEW t \in Tasks, pc[t] # "idle"
               PROVE  \/ Runs(t)
                      \/ \E u \in Tasks :
                           /\ Blocks(u, t)
                           /\ Runs(u) \/ \E v \in Tasks : Blocks(v, u) /\ Runs(v)
    BY DEF LocksAreOrdered
  <2>1. \/ pc[t] \in {"show", "input", "input2", "unlock", "up_write", "done"}
        \/ pc[t] = "read" /\ input.method = "get_data"
        \/ pc[t] = "write" /\ input.method = "set_data"
        \/ pc[t] = "mutex"
        \/ pc[t] \in {"down_write", "down_read"}
    BY DEF IInv, TypeOK, InputInv
  <2> QED
    BY <1>2, <1>5, <2>1 DEF Runs
<1> QED
  BY <1>6, Invariance, PTL
=============================================================================
