------------------------ MODULE TaskService_proofs -------------------------
(***************************************************************************)
(* Proofs about TaskService, for any set of tasks, any number of slots and *)
(* any number of crashes, stops, failing broadcasts and failing writes.    *)
(* They follow one inductive invariant, TaskService!IInv, and assume       *)
(* nothing but ServiceAssumption.                                          *)
(* At the end, the proofs about RateLimiter, which every request on a task *)
(* passes before it reaches the service.                                   *)
(***************************************************************************)
EXTENDS TaskService, RateLimiter, FiniteSetTheorems, TLAPS

\* A write of t leaves the other rows alone, and the row of t as memory has it now,
\* unless it raised.
LEMMA WriteEffect ==
  ASSUME TypeOK, NEW t \in Tasks, Saves(t) \/ SaveFails(t), status'[t] \in Statuses, archived'[t] \in BOOLEAN
  PROVE  /\ stored' \in [Tasks -> Statuses] /\ shelved' \in [Tasks -> BOOLEAN] /\ failures' \in Nat
         /\ unsaved \subseteq unsaved' /\ unsaved' \subseteq unsaved \union {t}
         /\ \A u \in Tasks \ {t} : stored'[u] = stored[u] /\ shelved'[u] = shelved[u]
         /\ \/ stored'[t] = status'[t] /\ shelved'[t] = archived'[t]
            \/ t \in unsaved' /\ stored'[t] = stored[t] /\ shelved'[t] = shelved[t]
<1>1. CASE Store(t)
  BY <1>1 DEF Saves, SaveFails, Store, TypeOK
<1>2. CASE UNCHANGED <<stored, shelved>> /\ SaveFails(t)
  BY <1>2 DEF SaveFails, TypeOK
<1> QED
  BY <1>1, <1>2 DEF Saves, SaveFails

\* Every variable keeps its type, whatever the executor does.
THEOREM TypeCorrect == Spec => []TypeOK
<1>1. Init => TypeOK
  BY ServiceAssumption DEF Init, LifecycleInit, TypeOK, Statuses, ExecStates
<1>2. ASSUME TypeOK, [Next]_vars PROVE TypeOK'
  <2> USE <1>2 DEF TypeOK, Statuses, Open, Active, Terminal, ExecStates
  <2> USE DEF Untouched, SendRaised, history, bounds, SetStatus, SetStatusFails, Remember, Store, Saves, SaveFails,
              SettlesAs, Goto, taskVars, runtime,
              MoveOn, EndHoldingSlot, Dequeue
  <2>1. ASSUME NEW t \in Tasks, Route(t) PROVE TypeOK'
    <3>1. CASE \E gate \in BOOLEAN : CreateTask(t, gate)
      BY <3>1 DEF CreateTask
    <3>2. CASE ApproveTask(t)
      BY <3>2 DEF ApproveTask
    <3>3. CASE RejectTask(t)
      BY <3>3 DEF RejectTask
    <3>4. CASE CancelTask(t)
      BY <3>4 DEF CancelTask
    <3>5. CASE ArchiveTask(t)
      <4>1. status' = status /\ archived' \in [Tasks -> BOOLEAN] /\ (Saves(t) \/ SaveFails(t))
        BY <3>5 DEF ArchiveTask
      <4>2. stored' \in [Tasks -> Statuses] /\ shelved' \in [Tasks -> BOOLEAN] /\ failures' \in Nat
        BY <2>1, <4>1, WriteEffect
      <4>3. unsaved' \in SUBSET Tasks
        BY <2>1, <4>1, WriteEffect
      <4> HIDE DEF Saves, SaveFails
      <4> QED
        BY <3>5, <4>1, <4>2, <4>3 DEF ArchiveTask
    <3>6. CASE RestoreTask(t)
      <4>1. status' = status /\ archived' \in [Tasks -> BOOLEAN] /\ (Saves(t) \/ SaveFails(t))
        BY <3>6 DEF RestoreTask
      <4>2. stored' \in [Tasks -> Statuses] /\ shelved' \in [Tasks -> BOOLEAN] /\ failures' \in Nat
        BY <2>1, <4>1, WriteEffect
      <4>3. unsaved' \in SUBSET Tasks
        BY <2>1, <4>1, WriteEffect
      <4> HIDE DEF Saves, SaveFails
      <4> QED
        BY <3>6, <4>1, <4>2, <4>3 DEF RestoreTask
    <3>7. CASE StartTask(t)
      BY <3>7 DEF StartTask
    <3>8. CASE StartLost(t)
      BY <3>8 DEF StartLost
    <3> QED
      BY <2>1, <3>1, <3>2, <3>3, <3>4, <3>5, <3>6, <3>7, <3>8 DEF Route
  <2>2. ASSUME NEW t \in Tasks, Execution(t) PROVE TypeOK'
    <3>1. CASE BeginExecution(t)
      BY <3>1 DEF BeginExecution
    <3>2. CASE Reported(t)
      BY <3>2 DEF Reported
    <3>3. CASE Settled(t)
      BY <3>3 DEF Settled
    <3>4. CASE Output(t)
      BY <3>4 DEF Output
    <3>5. CASE Heartbeat(t)
      BY <3>5 DEF Heartbeat
    <3>6. CASE Result(t)
      BY <3>6 DEF Result
    <3>7. CASE \E outcome \in {"failed", "blocked"} : Error(t, outcome)
      BY <3>7 DEF Error
    <3>8. CASE SendFailed(t)
      BY <3>8 DEF SendFailed
    <3>9. CASE Interrupted(t)
      BY <3>9 DEF Interrupted
    <3> QED
      BY <2>2, <3>1, <3>2, <3>3, <3>4, <3>5, <3>6, <3>7, <3>8, <3>9 DEF Execution
  <2>3. CASE Process
    <3>1. CASE Stop
      BY <3>1 DEF Stop
    <3>2. CASE Exit
      BY <3>2, ServiceAssumption DEF Exit, Vanish
    <3>3. CASE Crash
      BY <3>3, ServiceAssumption DEF Crash, Vanish
    <3>4. CASE Boot
      BY <3>4 DEF Boot, Resumable
    <3> QED
      BY <2>3, <3>1, <3>2, <3>3, <3>4 DEF Process
  <2>4. CASE UNCHANGED vars
    BY <2>4 DEF vars
  <2> QED
    BY <1>2, <2>1, <2>2, <2>3, <2>4 DEF Next
<1> QED
  BY <1>1, <1>2, PTL DEF Spec

-----------------------------------------------------------------------------
(* The parts of the inductive invariant that speak of single tasks.        *)

LocalInv == TypeOK /\ StoreInv /\ StageInv /\ CancelInv /\ ProcessInv /\ GateInv /\ NoDoubleStart

\* Statuses, executions, registrations and pending cancellations fit together
\* after every step: no route and no await leaves them out of tune.
THEOREM LocalInvariant == Spec => []LocalInv
<1>1. Init => LocalInv
  BY ServiceAssumption DEF Init, LifecycleInit, LocalInv, TypeOK, Statuses, ExecStates, Active, InRun,
     StoreInv, StageInv, CancelInv, ProcessInv, GateInv, NoDoubleStart
<1>2. ASSUME LocalInv, TypeOK', [Next]_vars PROVE LocalInv'
  <2> USE <1>2 DEF LocalInv, TypeOK, Statuses, Open, Active, Terminal, ExecStates, InRun,
              StoreInv, StageInv, CancelInv, ProcessInv, GateInv, NoDoubleStart
  <2> USE DEF Untouched, SendRaised, history, bounds, SetStatus, SetStatusFails, Remember, Store, Saves, SaveFails,
              SettlesAs, Goto, taskVars, runtime,
              MoveOn, EndHoldingSlot, Dequeue
  <2>1. ASSUME NEW u \in Tasks, Route(u) PROVE LocalInv'
    <3>1. CASE \E gate \in BOOLEAN : CreateTask(u, gate)
      BY <3>1 DEF CreateTask
    <3>2. CASE ApproveTask(u)
      BY <3>2 DEF ApproveTask
    <3>3. CASE RejectTask(u)
      BY <3>3 DEF RejectTask
    <3>4. CASE CancelTask(u)
      BY <3>4 DEF CancelTask
    <3>5. CASE ArchiveTask(u)
      <4> HIDE DEF Saves, SaveFails
      <4>1. /\ \A t \in Tasks : archived'[t] = IF t = u THEN TRUE ELSE archived[t]
            /\ Saves(u) \/ SaveFails(u)
            /\ UNCHANGED <<status, gated, before, runtime, proc, approved>>
            /\ status[u] \in Terminal
        BY <3>5 DEF ArchiveTask
      <4>2. /\ unsaved \subseteq unsaved'
            /\ \A t \in Tasks \ {u} : stored'[t] = stored[t] /\ shelved'[t] = shelved[t]
            /\ \/ stored'[u] = status[u] /\ shelved'[u] = archived'[u]
               \/ u \in unsaved' /\ stored'[u] = stored[u] /\ shelved'[u] = shelved[u]
        BY <2>1, <4>1, WriteEffect
      <4>3. unsaved' \subseteq unsaved \union {u}
        BY <2>1, <4>1, WriteEffect
      <4>4. StoreInv' /\ ProcessInv'
        <5>1. ASSUME NEW t \in Tasks
              PROVE  /\ t \notin unsaved' => stored'[t] = status'[t] /\ shelved'[t] = archived'[t]
                     /\ shelved'[t] => stored'[t] \in Terminal
                     /\ archived'[t] => status'[t] \in Terminal
          <6>1. CASE t = u
            <7>1. status'[u] = status[u] /\ status[u] \in Terminal
              BY <4>1
            <7>2. \/ stored'[u] = status'[u] /\ shelved'[u] = archived'[u]
                  \/ u \in unsaved' /\ stored'[u] = stored[u] /\ shelved'[u] = shelved[u]
              BY <4>2, <7>1
            <7>3. shelved[u] => stored[u] \in Terminal
              OBVIOUS
            <7>4. /\ u \notin unsaved' => stored'[u] = status'[u] /\ shelved'[u] = archived'[u]
                  /\ shelved'[u] => stored'[u] \in Terminal
              BY <7>1, <7>2, <7>3
            <7>5. archived'[u] => status'[u] \in Terminal
              BY <7>1
            <7> QED
              BY <6>1, <7>4, <7>5
          <6>2. CASE t # u
            <7>1. stored'[t] = stored[t] /\ shelved'[t] = shelved[t]
              BY <4>2, <6>2
            <7>3. archived'[t] = archived[t]
              BY <4>1, <6>2
            <7>2. status' = status /\ unsaved \subseteq unsaved'
              BY <4>1, <4>2
            <7> QED
              BY <7>1, <7>2, <7>3
          <6> QED
            BY <6>1, <6>2
        <5> QED
          BY <4>1, <5>1
      <4>5. StageInv' /\ CancelInv' /\ NoDoubleStart'
        BY <4>1, <4>2
      <4>6. GateInv'
        BY <4>1, <4>2
      <4> QED
        BY <4>4, <4>5, <4>6
    <3>6. CASE RestoreTask(u)
      <4> HIDE DEF Saves, SaveFails
      <4>1. /\ \A t \in Tasks : archived'[t] = IF t = u THEN FALSE ELSE archived[t]
            /\ Saves(u) \/ SaveFails(u)
            /\ UNCHANGED <<status, gated, before, runtime, proc, approved>>
            /\ status[u] \in Terminal
        BY <3>6 DEF RestoreTask
      <4>2. /\ unsaved \subseteq unsaved'
            /\ \A t \in Tasks \ {u} : stored'[t] = stored[t] /\ shelved'[t] = shelved[t]
            /\ \/ stored'[u] = status[u] /\ shelved'[u] = archived'[u]
               \/ u \in unsaved' /\ stored'[u] = stored[u] /\ shelved'[u] = shelved[u]
        BY <2>1, <4>1, WriteEffect
      <4>3. unsaved' \subseteq unsaved \union {u}
        BY <2>1, <4>1, WriteEffect
      <4>4. StoreInv' /\ ProcessInv'
        <5>1. ASSUME NEW t \in Tasks
              PROVE  /\ t \notin unsaved' => stored'[t] = status'[t] /\ shelved'[t] = archived'[t]
                     /\ shelved'[t] => stored'[t] \in Terminal
                     /\ archived'[t] => status'[t] \in Terminal
          <6>1. CASE t = u
            <7>1. status'[u] = status[u] /\ status[u] \in Terminal
              BY <4>1
            <7>2. \/ stored'[u] = status'[u] /\ shelved'[u] = archived'[u]
                  \/ u \in unsaved' /\ stored'[u] = stored[u] /\ shelved'[u] = shelved[u]
              BY <4>2, <7>1
            <7>3. shelved[u] => stored[u] \in Terminal
              OBVIOUS
            <7>4. /\ u \notin unsaved' => stored'[u] = status'[u] /\ shelved'[u] = archived'[u]
                  /\ shelved'[u] => stored'[u] \in Terminal
              BY <7>1, <7>2, <7>3
            <7>5. archived'[u] => status'[u] \in Terminal
              BY <7>1
            <7> QED
              BY <6>1, <7>4, <7>5
          <6>2. CASE t # u
            <7>1. stored'[t] = stored[t] /\ shelved'[t] = shelved[t]
              BY <4>2, <6>2
            <7>3. archived'[t] = archived[t]
              BY <4>1, <6>2
            <7>2. status' = status /\ unsaved \subseteq unsaved'
              BY <4>1, <4>2
            <7> QED
              BY <7>1, <7>2, <7>3
          <6> QED
            BY <6>1, <6>2
        <5> QED
          BY <4>1, <5>1
      <4>5. StageInv' /\ CancelInv' /\ NoDoubleStart'
        BY <4>1, <4>2
      <4>6. GateInv'
        BY <4>1, <4>2
      <4> QED
        BY <4>4, <4>5, <4>6
    <3>7. CASE StartTask(u)
      BY <3>7 DEF StartTask
    <3>8. CASE StartLost(u)
      BY <3>8 DEF StartLost
    <3> QED
      BY <2>1, <3>1, <3>2, <3>3, <3>4, <3>5, <3>6, <3>7, <3>8 DEF Route
  <2>2. ASSUME NEW u \in Tasks, Execution(u) PROVE LocalInv'
    <3>1. CASE BeginExecution(u)
      BY <3>1 DEF BeginExecution
    <3>2. CASE Reported(u)
      BY <3>2 DEF Reported
    <3>3. CASE Settled(u)
      BY <3>3 DEF Settled
    <3>4. CASE Output(u)
      BY <3>4 DEF Output
    <3>5. CASE Heartbeat(u)
      BY <3>5 DEF Heartbeat
    <3>6. CASE Result(u)
      BY <3>6 DEF Result
    <3>7. CASE \E outcome \in {"failed", "blocked"} : Error(u, outcome)
      BY <3>7 DEF Error
    <3>8. CASE SendFailed(u)
      BY <3>8 DEF SendFailed
    <3>9. CASE Interrupted(u)
      BY <3>9 DEF Interrupted
    <3> QED
      BY <2>2, <3>1, <3>2, <3>3, <3>4, <3>5, <3>6, <3>7, <3>8, <3>9 DEF Execution
  <2>3. CASE Process
    <3>1. CASE Stop
      BY <3>1 DEF Stop
    <3>2. CASE Exit
      BY <3>2 DEF Exit, Vanish
    <3>3. CASE Crash
      BY <3>3 DEF Crash, Vanish
    <3>4. CASE Boot
      <4>1. /\ proc = "down" /\ starting = {} /\ \A t \in Tasks : exec[t] = "none"
            /\ UNCHANGED <<status, archived, gated, stored, shelved, unsaved, starting, cancelling, approved>>
            /\ registered' = Resumable /\ proc' = "up"
            /\ \A t \in Tasks : exec'[t] = IF t \in Resumable THEN "slot_wait" ELSE "none"
        BY <3>4 DEF Boot
      <4>2. \A t \in Tasks : t \in Resumable => status[t] \in Active
        BY DEF Resumable
      <4>3. cancelling = {}
        BY <4>1
      <4>4. StoreInv' /\ ProcessInv' /\ NoDoubleStart'
        BY <4>1
      <4>5. StageInv'
        BY <4>1, <4>2
      <4>6. CancelInv' /\ GateInv'
        BY <4>1, <4>2, <4>3
      <4> QED
        BY <4>4, <4>5, <4>6
    <3> QED
      BY <2>3, <3>1, <3>2, <3>3, <3>4 DEF Process
  <2>4. CASE UNCHANGED vars
    BY <2>4 DEF vars
  <2> QED
    BY <1>2, <2>1, <2>2, <2>3, <2>4 DEF Next
<1> QED
  BY <1>1, <1>2, TypeCorrect, PTL DEF Spec

-----------------------------------------------------------------------------
(* Counting slots.                                                         *)

Holders == {t \in Tasks : exec[t] \in HoldsSlot}

\* An execution that comes to hold a slot adds one holder, one that lets go
\* takes one away, and moving between two awaits changes nothing.
LEMMA HoldersCount ==
  ASSUME TypeOK, NEW t \in Tasks, NEW where \in ExecStates, Goto(t, where)
  PROVE  /\ Cardinality(Holders) \in Nat
         /\ exec[t] \in HoldsSlot /\ where \in HoldsSlot =>
              Cardinality(Holders') = Cardinality(Holders)
         /\ exec[t] \notin HoldsSlot /\ where \notin HoldsSlot =>
              Cardinality(Holders') = Cardinality(Holders)
         /\ exec[t] \notin HoldsSlot /\ where \in HoldsSlot =>
              Cardinality(Holders') = Cardinality(Holders) + 1
         /\ exec[t] \in HoldsSlot /\ where \notin HoldsSlot =>
              Cardinality(Holders') = Cardinality(Holders) - 1
<1>1. IsFiniteSet(Holders)
  BY ServiceAssumption, FS_Subset DEF Holders
<1>2. Cardinality(Holders) \in Nat
  BY <1>1, FS_CardinalityType
<1>3. \A u \in Tasks : exec'[u] = IF u = t THEN where ELSE exec[u]
  BY DEF Goto, TypeOK
<1>4. CASE (exec[t] \in HoldsSlot) = (where \in HoldsSlot)
  <2>1. Holders' = Holders
    BY <1>3, <1>4 DEF Holders
  <2> QED
    BY <1>2, <1>4, <2>1
<1>5. CASE exec[t] \notin HoldsSlot /\ where \in HoldsSlot
  <2>1. Holders' = Holders \union {t} /\ t \notin Holders
    BY <1>3, <1>5 DEF Holders
  <2> QED
    BY <1>1, <1>2, <1>5, <2>1, FS_AddElement
<1>6. CASE exec[t] \in HoldsSlot /\ where \notin HoldsSlot
  <2>1. Holders' = Holders \ {t} /\ t \in Holders
    BY <1>3, <1>6 DEF Holders
  <2> QED
    BY <1>1, <1>2, <1>6, <2>1, FS_RemoveElement
<1> QED
  BY <1>4, <1>5, <1>6

\* The value of the semaphore and the holders of a slot always add up: no end
\* of an execution, cancellation or restart leaks a slot or grants one twice.
THEOREM SlotsInvariant == Spec => []SlotsAccounted
<1>1. Init => SlotsAccounted
  <2> SUFFICES ASSUME Init PROVE SlotsAccounted
    OBVIOUS
  <2>1. {t \in Tasks : exec[t] \in HoldsSlot} = {}
    BY DEF Init, HoldsSlot
  <2>2. Cardinality({t \in Tasks : exec[t] \in HoldsSlot}) = 0
    BY <2>1, FS_EmptySet
  <2>3. free = MaxConcurrentTasks /\ MaxConcurrentTasks \in Nat
    BY ServiceAssumption DEF Init
  <2> QED
    BY <2>2, <2>3 DEF SlotsAccounted
<1>2. ASSUME LocalInv, SlotsAccounted, [Next]_vars PROVE SlotsAccounted'
  <2>0. TypeOK /\ free + Cardinality(Holders) = MaxConcurrentTasks
    BY <1>2 DEF LocalInv, SlotsAccounted, Holders
  <2> SUFFICES free' + Cardinality(Holders') = MaxConcurrentTasks
    BY DEF SlotsAccounted, Holders
  <2> USE ServiceAssumption DEF HoldsSlot, ExecStates, Untouched, runtime, MoveOn, EndHoldingSlot, SettlesAs
  <2>1. ASSUME NEW u \in Tasks, Route(u)
        PROVE  free' + Cardinality(Holders') = MaxConcurrentTasks
    <3>1. CASE StartTask(u)
      <4>1. exec[u] = "none" /\ Goto(u, "slot_wait") /\ free' = free
        BY <1>2, <3>1 DEF StartTask, LocalInv, NoDoubleStart
      <4> QED
        BY <2>0, <4>1, HoldersCount
    <3>2. CASE ~StartTask(u)
      <4>1. UNCHANGED <<exec, free>>
        BY <2>1, <3>2 DEF Route, CreateTask, ApproveTask, RejectTask, CancelTask,
           ArchiveTask, RestoreTask, StartLost
      <4> QED
        BY <2>0, <4>1 DEF Holders
    <3> QED
      BY <3>1, <3>2
  <2>2. ASSUME NEW u \in Tasks, Execution(u)
        PROVE  free' + Cardinality(Holders') = MaxConcurrentTasks
    <3>1. PICK where \in ExecStates :
            /\ Goto(u, where)
            /\ exec[u] \in HoldsSlot /\ where \in HoldsSlot => free' = free
            /\ exec[u] \notin HoldsSlot /\ where \notin HoldsSlot => free' = free
            /\ exec[u] \notin HoldsSlot /\ where \in HoldsSlot => free' = free - 1
            /\ exec[u] \in HoldsSlot /\ where \notin HoldsSlot => free' = free + 1
      <4>1. CASE BeginExecution(u)
        BY <4>1 DEF BeginExecution
      <4>2. CASE Reported(u) \/ Settled(u) \/ Output(u) \/ Heartbeat(u)
        BY <4>2 DEF Reported, Settled, Output, Heartbeat
      <4>3. CASE Result(u)
        BY <4>3 DEF Result
      <4>4. CASE \E outcome \in {"failed", "blocked"} : Error(u, outcome)
        BY <4>4 DEF Error
      <4>5. CASE SendFailed(u)
        BY <4>5 DEF SendFailed
      <4>6. CASE Interrupted(u)
        BY <4>6 DEF Interrupted
      <4> QED
        BY <2>2, <4>1, <4>2, <4>3, <4>4, <4>5, <4>6 DEF Execution
    <3>2. free \in Nat
      BY <2>0 DEF TypeOK
    <3> QED
      BY <2>0, <3>1, <3>2, HoldersCount
  <2>3. CASE Process
    <3>1. CASE Stop
      BY <2>0, <3>1 DEF Stop, Holders
    <3>2. CASE Exit \/ Crash
      <4>1. Holders' = {} /\ free' = MaxConcurrentTasks
        BY <3>2 DEF Exit, Crash, Vanish, Holders
      <4> QED
        BY <4>1, FS_EmptySet
    <3>3. CASE Boot
      <4>1. Holders' = {} /\ free' = MaxConcurrentTasks
        BY <1>2, <3>3 DEF Boot, Holders, LocalInv, ProcessInv
      <4> QED
        BY <4>1, FS_EmptySet
    <3> QED
      BY <2>3, <3>1, <3>2, <3>3 DEF Process
  <2>4. CASE UNCHANGED vars
    BY <2>0, <2>4 DEF vars, runtime, Holders
  <2> QED
    BY <1>2, <2>1, <2>2, <2>3, <2>4 DEF Next
<1> QED
  BY <1>1, <1>2, LocalInvariant, PTL DEF Spec

-----------------------------------------------------------------------------
(* What follows from the inductive invariant.                              *)

\* IInv, the formula the runs check, holds in every reachable state.
THEOREM InductiveInvariant == Spec => []IInv
<1>1. LocalInv /\ SlotsAccounted => IInv
  BY DEF LocalInv, IInv
<1> QED
  BY <1>1, LocalInvariant, SlotsInvariant, PTL

\* No task that was created as awaiting_approval is executed or resumed
\* without an approval.
THEOREM ApprovalGateHolds == Spec => []ApprovalGate
<1>1. IInv => ApprovalGate
  BY DEF IInv, GateInv, ApprovalGate
<1> QED
  BY <1>1, InductiveInvariant, PTL

\* No process executes a task twice.
THEOREM NoDoubleStartHolds == Spec => []NoDoubleStart
<1>1. IInv => NoDoubleStart
  BY DEF IInv
<1> QED
  BY <1>1, InductiveInvariant, PTL

\* Hermes runs for a task with a terminal status only until the cancellation
\* under way reaches it.
THEOREM NoRunPastTerminalHolds == Spec => []NoRunPastTerminal
<1>1. IInv => NoRunPastTerminal
  BY DEF IInv, StageInv, CancelInv, NoRunPastTerminal, InRun, Terminal
<1> QED
  BY <1>1, InductiveInvariant, PTL

-----------------------------------------------------------------------------
(* The service implements the task lifecycle.                              *)

\* Every step of the service is a move of one task in TaskLifecycle, leaves status and
\* archive flag alone, stores another outcome over a cancellation that has not reached
\* its run, or is a restart that forgets what was not written.
LEMMA StepsAreMoves ==
  ASSUME LocalInv, [Next]_vars
  PROVE  [LifecycleNext \/ (\E t \in Tasks : Overruled(t)) \/ Reverted]_lifecycleVars
<1> USE DEF LocalInv, TypeOK, StoreInv, StageInv, CancelInv, ProcessInv, Terminal, Open, Active, InRun
<1> USE DEF Untouched, SendRaised, history, bounds, SetStatus, SetStatusFails, Remember, Store, Saves, SaveFails, SettlesAs, taskVars, runtime, lifecycleVars, Move
<1>1. ASSUME NEW u \in Tasks, Route(u)
      PROVE  LifecycleStep(u) \/ Overruled(u) \/ UNCHANGED lifecycleVars
  <2>1. CASE \E gate \in BOOLEAN : CreateTask(u, gate)
    BY <2>1 DEF CreateTask, LifecycleStep, Created
  <2>2. CASE ApproveTask(u)
    BY <2>2 DEF ApproveTask, LifecycleStep, Approved
  <2>3. CASE RejectTask(u)
    BY <2>3 DEF RejectTask, LifecycleStep, Rejected
  <2>4. CASE CancelTask(u)
    BY <2>4 DEF CancelTask, LifecycleStep, Canceled
  <2>5. CASE ArchiveTask(u)
    BY <2>5 DEF ArchiveTask, LifecycleStep, Archived
  <2>6. CASE RestoreTask(u)
    BY <2>6 DEF RestoreTask, LifecycleStep, Restored
  <2>7. CASE StartTask(u) \/ StartLost(u)
    BY <2>7 DEF StartTask, StartLost
  <2> QED
    BY <1>1, <2>1, <2>2, <2>3, <2>4, <2>5, <2>6, <2>7 DEF Route
<1>2. ASSUME NEW u \in Tasks, Execution(u)
      PROVE  LifecycleStep(u) \/ Overruled(u) \/ UNCHANGED lifecycleVars
  <2>1. CASE BeginExecution(u)
    BY <2>1 DEF BeginExecution, LifecycleStep, Running
  <2>2. CASE Reported(u) \/ Settled(u)
    BY <2>2 DEF Reported, Settled
  <2>3. CASE Output(u)
    BY <2>3 DEF Output, LifecycleStep, Running
  <2>4. CASE Heartbeat(u)
    BY <2>4 DEF Heartbeat, LifecycleStep, Stalled
  <2>5. CASE Result(u)
    BY <2>5 DEF Result, LifecycleStep, Finished
  <2>6. ASSUME NEW outcome \in {"failed", "blocked"}, Error(u, outcome)
        PROVE  LifecycleStep(u) \/ Overruled(u)
    <3>1. exec[u] = "in_executor" /\ Move(u, {status[u]}, outcome)
      BY <2>6 DEF Error
    <3>2. CASE status[u] = "canceled"
      <4>1. u \in cancelling \union unsaved
        BY <2>6, <3>1, <3>2
      <4> QED
        BY <3>1, <3>2, <4>1 DEF Overruled
    <3>3. CASE status[u] # "canceled"
      BY <3>1, <3>3 DEF LifecycleStep, Finished
    <3> QED
      BY <3>2, <3>3
  <2>7. CASE SendFailed(u)
    <3>1. UNCHANGED lifecycleVars \/ (exec[u] = "reporting" /\ Move(u, {status[u]}, "failed"))
      <4>1. CASE exec[u] = "reporting" /\ SettlesAs(u, "failed")
        BY <4>1
      <4>2. UNCHANGED taskVars => UNCHANGED lifecycleVars
        BY DEF taskVars, lifecycleVars
      <4>3. (exec[u] = "reporting" /\ SettlesAs(u, "failed")) \/ UNCHANGED taskVars
        BY <2>7 DEF SendFailed
      <4> HIDE DEF SettlesAs, taskVars, lifecycleVars, Move
      <4> QED
        BY <4>1, <4>2, <4>3
    <3>2. CASE exec[u] = "reporting" /\ status[u] = "canceled" /\ Move(u, {status[u]}, "failed")
      BY <3>2 DEF Overruled
    <3>3. CASE exec[u] = "reporting" /\ status[u] # "canceled" /\ Move(u, {status[u]}, "failed")
      BY <3>3 DEF LifecycleStep, Finished
    <3> QED
      BY <3>1, <3>2, <3>3
  <2>8. CASE Interrupted(u)
    BY <2>8 DEF Interrupted, LifecycleStep, Canceled
  <2> QED
    BY <1>2, <2>1, <2>2, <2>3, <2>4, <2>5, <2>6, <2>7, <2>8 DEF Execution
<1>3. CASE Process
  <2>1. CASE Stop \/ Boot
    BY <2>1 DEF Stop, Boot
  <2>2. CASE Exit \/ Crash
    <3>1. status' = stored /\ archived' = shelved /\ proc' = "down"
      BY <2>2 DEF Exit, Crash, Vanish
    <3> QED
      BY <3>1 DEF Reverted, StoreInv
  <2> QED
    BY <1>3, <2>1, <2>2 DEF Process
<1>4. CASE UNCHANGED vars
  BY <1>4 DEF vars
<1> QED
  BY <1>1, <1>2, <1>3, <1>4 DEF Next, LifecycleNext

\* The service implements the lifecycle, whatever fails: a terminal status other than
\* canceled is never overwritten, canceled only by a run that was not interrupted yet,
\* and only a restart takes back what was not written.
THEOREM ImplementsLifecycle == Spec => RefinesLifecycle
<1>1. Init => LifecycleInit
  BY DEF Init
<1>2. LocalInv /\ [Next]_vars => [LifecycleNext \/ (\E t \in Tasks : Overruled(t)) \/ Reverted]_lifecycleVars
  BY StepsAreMoves
<1> QED
  BY <1>1, <1>2, LocalInvariant, PTL DEF Spec, RefinesLifecycle

\* A task's outcome is final: no late message of its run, restart or request changes a
\* terminal status, and no task is forgotten.  Only a cancellation that has not reached
\* the run gives way to what the run raises, and a restart takes back what was not written.
THEOREM OutcomesAreFinal ==
  Spec => [][\A t \in Tasks :
               \/ /\ status[t] \in Terminal => status'[t] = status[t] \/ Overruled(t)
                  /\ status[t] # "absent" => status'[t] # "absent"
               \/ proc' = "down" /\ t \in unsaved]_lifecycleVars
<1> DEFINE Kept(t) == \/ /\ status[t] \in Terminal => status'[t] = status[t] \/ Overruled(t)
                         /\ status[t] # "absent" => status'[t] # "absent"
                      \/ proc' = "down" /\ t \in unsaved
           Final == \A t \in Tasks : Kept(t)
<1>1. ASSUME LocalInv, [Next]_vars PROVE [Final]_lifecycleVars
  <2>1. DOMAIN status = Tasks
    BY <1>1 DEF LocalInv, TypeOK
  <2>2. ASSUME NEW u \in Tasks, NEW from, NEW to, Move(u, from, to), to # "absent",
               from \cap Terminal = {} \/ Overruled(u)
        PROVE  Final
    <3>1. status[u] \in from /\ status' = [status EXCEPT ![u] = to]
      BY <2>2 DEF Move
    <3>2. \A t \in Tasks : status'[t] = IF t = u THEN to ELSE status[t]
      BY <2>1, <3>1
    <3> QED
      BY <2>2, <3>1, <3>2
  <2>3. CASE UNCHANGED status
    BY <2>3
  <2>4. ASSUME NEW u \in Tasks, LifecycleStep(u) PROVE Final
    <3>1. CASE Archived(u) \/ Restored(u)
      BY <2>3, <3>1 DEF Archived, Restored
    <3>2. CASE Created(u)
      BY <2>2, <3>2 DEF Created, Terminal
    <3>3. CASE Approved(u) \/ Rejected(u) \/ Canceled(u) \/ Running(u) \/ Stalled(u)
      BY <2>2, <3>3 DEF Approved, Rejected, Canceled, Running, Stalled, Terminal, Active, Open
    <3>4. CASE Finished(u)
      BY <2>2, <3>4 DEF Finished, Terminal
    <3> QED
      BY <2>4, <3>1, <3>2, <3>3, <3>4 DEF LifecycleStep
  <2>5. ASSUME NEW u \in Tasks, Overruled(u) PROVE Final
    <3>1. PICK outcome \in {"failed", "blocked"} : Move(u, {"canceled"}, outcome)
      BY <2>5 DEF Overruled
    <3> QED
      BY <2>2, <2>5, <3>1
  <2>6. [LifecycleNext \/ (\E t \in Tasks : Overruled(t)) \/ Reverted]_lifecycleVars
    BY <1>1, StepsAreMoves
  <2>7. CASE Reverted
    BY <2>7 DEF Reverted
  <2> QED
    BY <2>3, <2>4, <2>5, <2>6, <2>7 DEF LifecycleNext, lifecycleVars
<1> QED
  BY <1>1, LocalInvariant, PTL DEF Spec

\* What the inbox hides is over, in every reachable state.
THEOREM HiddenIsOver ==
  Spec => [](\A t \in Tasks : archived[t] => status[t] \in Terminal)
<1>1. LocalInv => \A t \in Tasks : archived[t] => status[t] \in Terminal
  BY DEF LocalInv, ProcessInv
<1> QED
  BY <1>1, LocalInvariant, PTL

-----------------------------------------------------------------------------
(* What a lost broadcast and a signal may do, and nothing else.            *)

\* Every task shown as queued or in progress by a process that is up has an
\* execution or a request about to start one, unless its own broadcast raised.
THEOREM OnlyFailuresLoseTasksHolds == Spec => []OnlyFailuresLoseTasks
<1> USE DEF OnlyFailuresLoseTasks
<1>1. Init => OnlyFailuresLoseTasks
  BY DEF Init, LifecycleInit, Active
<1>2. ASSUME LocalInv, OnlyFailuresLoseTasks, [Next]_vars PROVE OnlyFailuresLoseTasks'
  <2> USE <1>2 DEF LocalInv, TypeOK, StoreInv, StageInv, CancelInv, ProcessInv, Terminal, Open, Active, InRun, ExecStates
  <2> USE DEF Untouched, SendRaised, history, bounds, SetStatus, SetStatusFails, Remember, Store, Saves, SaveFails,
              SettlesAs, Goto, taskVars, runtime, MoveOn, EndHoldingSlot
  <2>1. ASSUME NEW u \in Tasks, Route(u) PROVE OnlyFailuresLoseTasks'
    BY <2>1 DEF Route, CreateTask, ApproveTask, RejectTask, CancelTask, ArchiveTask, RestoreTask,
       StartTask, StartLost
  <2>2. ASSUME NEW u \in Tasks, Execution(u) PROVE OnlyFailuresLoseTasks'
    <3>1. CASE BeginExecution(u)
      BY <3>1 DEF BeginExecution
    <3>2. CASE Reported(u) \/ Settled(u) \/ Output(u) \/ Heartbeat(u)
      BY <3>2 DEF Reported, Settled, Output, Heartbeat
    <3>3. CASE Result(u)
      BY <3>3 DEF Result
    <3>4. CASE \E outcome \in {"failed", "blocked"} : Error(u, outcome)
      BY <3>4 DEF Error
    <3>5. CASE SendFailed(u)
      BY <3>5 DEF SendFailed
    <3>6. CASE Interrupted(u)
      BY <3>6 DEF Interrupted
    <3> QED
      BY <2>2, <3>1, <3>2, <3>3, <3>4, <3>5, <3>6 DEF Execution
  <2>3. CASE Process
    <3>1. CASE Stop \/ Exit \/ Crash
      BY <3>1 DEF Stop, Exit, Crash
    <3>2. CASE Boot
      BY <3>2 DEF Boot, Resumable
    <3> QED
      BY <2>3, <3>1, <3>2 DEF Process
  <2>4. CASE UNCHANGED vars
    BY <2>4 DEF vars
  <2> QED
    BY <1>2, <2>1, <2>2, <2>3, <2>4 DEF Next
<1> QED
  BY <1>1, <1>2, LocalInvariant, PTL DEF Spec

\* Until the first signal, a task is canceled only if the cancel route accepted
\* it, however often the process is killed.
THEOREM OnlyStopsCancelHolds == Spec => []OnlyStopsCancel
<1> DEFINE Asked == /\ proc = "stopping" => stops > 0
                    /\ OnlyStopsCancel
                    /\ stops = 0 => \A t \in Tasks : stored[t] = "canceled" => t \in asked
<1> USE DEF OnlyStopsCancel, CanceledOnRequest
<1>1. Init => Asked
  BY DEF Init, LifecycleInit
<1>2. ASSUME LocalInv, Asked, [Next]_vars PROVE Asked'
  <2> USE <1>2 DEF LocalInv, TypeOK, StoreInv, StageInv, CancelInv, ProcessInv, Terminal, Open, Active, InRun, ExecStates
  <2> USE DEF Untouched, SendRaised, history, bounds, SetStatus, SetStatusFails, Remember, Store, Saves, SaveFails,
              SettlesAs, Goto, taskVars, runtime, MoveOn, EndHoldingSlot
  <2>1. ASSUME NEW u \in Tasks, Route(u) PROVE Asked'
    <3>1. CASE (\E gate \in BOOLEAN : CreateTask(u, gate)) \/ StartTask(u) \/ StartLost(u)
      BY <3>1 DEF CreateTask, StartTask, StartLost
    <3>2. CASE ApproveTask(u) \/ RejectTask(u)
      BY <3>2 DEF ApproveTask, RejectTask
    <3>3. CASE CancelTask(u)
      BY <3>3 DEF CancelTask
    <3>4. CASE ArchiveTask(u) \/ RestoreTask(u)
      <4>1. UNCHANGED <<status, proc, asked, stops>> /\ (Saves(u) \/ SaveFails(u))
        BY <3>4 DEF ArchiveTask, RestoreTask
      <4>2. \A t \in Tasks : stored'[t] \in {stored[t], status[t]}
        BY <4>1
      <4> QED
        BY <4>1, <4>2
    <3> QED
      BY <2>1, <3>1, <3>2, <3>3, <3>4 DEF Route
  <2>2. ASSUME NEW u \in Tasks, Execution(u) PROVE Asked'
    <3>1. CASE BeginExecution(u)
      BY <3>1 DEF BeginExecution
    <3>2. CASE Reported(u) \/ Settled(u) \/ Output(u) \/ Heartbeat(u)
      BY <3>2 DEF Reported, Settled, Output, Heartbeat
    <3>3. CASE Result(u)
      BY <3>3 DEF Result
    <3>4. CASE \E outcome \in {"failed", "blocked"} : Error(u, outcome)
      BY <3>4 DEF Error
    <3>5. CASE SendFailed(u)
      BY <3>5 DEF SendFailed
    <3>6. CASE Interrupted(u)
      <4>1. stops = 0 => proc = "up" /\ status[u] = "canceled"
        BY <3>6 DEF Interrupted
      <4> QED
        BY <3>6, <4>1 DEF Interrupted
    <3> QED
      BY <2>2, <3>1, <3>2, <3>3, <3>4, <3>5, <3>6 DEF Execution
  <2>3. CASE Process
    <3>1. CASE Stop \/ Boot
      BY <3>1 DEF Stop, Boot
    <3>2. CASE Exit \/ Crash
      BY <3>2 DEF Exit, Crash, Vanish
    <3> QED
      BY <2>3, <3>1, <3>2 DEF Process
  <2>4. CASE UNCHANGED vars
    BY <2>4 DEF vars
  <2> QED
    BY <1>2, <2>1, <2>2, <2>3, <2>4 DEF Next
<1>3. Asked => OnlyStopsCancel
  OBVIOUS
<1> QED
  BY <1>1, <1>2, <1>3, LocalInvariant, PTL DEF Spec

-----------------------------------------------------------------------------
(* The rate limiter in front of the task routes (RateLimiter).             *)

\* A sequence over a set is one over every larger set, and its elements are in the set.
LEMMA SeqFacts ==
  ASSUME NEW A, NEW B, A \subseteq B
  PROVE  Seq(A) \subseteq Seq(B) /\ \A s \in Seq(A) : \A k \in 1 .. Len(s) : s[k] \in A
OBVIOUS

\* What is below a time stays below a later one.
LEMMA LaterTypes ==
  ASSUME now \in Nat, now' \in Nat, now <= now'
  PROVE  /\ 0 .. now \subseteq 0 .. now' /\ Seq(0 .. now) \subseteq Seq(0 .. now')
         /\ Seq(Grant) \subseteq Seq(Grant')
<1>1. 0 .. now \subseteq 0 .. now'
  OBVIOUS
<1>2. Grant \subseteq Grant'
  BY <1>1 DEF Grant
<1> QED
  BY <1>1, <1>2, SeqFacts

\* What the thread that has the lock does for a client, with the time it has read: it
\* drops n times, and adds its own if it is let through.
Decides(c, current, n, kept) ==
  /\ Drops(n, requests[c], current)
  /\ kept = SubSeq(requests[c], n + 1, Len(requests[c]))
  /\ requests' = [requests EXCEPT ![c] = IF Len(kept) < MaxRequests THEN Append(kept, current) ELSE kept]
  /\ grants' = IF Len(kept) < MaxRequests
               THEN [grants EXCEPT ![c] = Append(@, [read |-> current, at |-> now])]
               ELSE grants
  /\ last' = [made |-> TRUE, allowed |-> Len(kept) < MaxRequests, client |-> c, current |-> current]
  /\ now' = now

LEMMA DecideFacts ==
  ASSUME LimiterTypeOK, NEW t \in Threads, Decide(t)
  PROVE  \E c \in Clients, current \in 0 .. now : \E n \in 0 .. Len(requests[c]) : \E kept \in Seq(0 .. now) :
           Decides(c, current, n, kept) /\ Len(kept) = Len(requests[c]) - n
<1>1. PICK c, current : c = call[t].client /\ current = call[t].current
  OBVIOUS
<1>2. c \in Clients /\ current \in 0 .. now /\ requests[c] \in Seq(0 .. now) /\ now \in Nat
  BY <1>1 DEF LimiterTypeOK
<1>3. PICK n \in 0 .. Len(requests[c]) :
        Decides(c, current, n, SubSeq(requests[c], n + 1, Len(requests[c])))
  BY <1>1 DEF Decide, Decides
<1>4. PICK r : r = requests[c]
  OBVIOUS
<1>5. r \in Seq(0 .. now) /\ Len(r) \in Nat /\ n \in Nat /\ n <= Len(r)
  BY <1>2, <1>4
<1>6. \A k \in 1 .. Len(r) : r[k] \in 0 .. now
  BY <1>5, SeqFacts
<1>7. SubSeq(r, n + 1, Len(r)) \in Seq(0 .. now) /\ Len(SubSeq(r, n + 1, Len(r))) = Len(r) - n
  BY <1>5, <1>6
<1> QED
  BY <1>2, <1>3, <1>4, <1>7

\* Every variable of the limiter keeps its type.
THEOREM LimiterTypeCorrect == LimiterSpec => []LimiterTypeOK
<1>1. LimiterInit => LimiterTypeOK
  <2> SUFFICES ASSUME LimiterInit PROVE LimiterTypeOK
    OBVIOUS
  <2>1. NoCall.client \in Clients
    BY LimiterAssumption DEF NoCall
  <2>2. /\ <<>> \in Seq(0 .. now) /\ <<>> \in Seq(Grant) /\ now = 0 /\ 0 \in 0 .. MaxTime
    BY LimiterAssumption DEF LimiterInit
  <2>3. /\ NoCall \in [busy : BOOLEAN, client : Clients, current : 0 .. now]
        /\ NoDecision \in [made : BOOLEAN, allowed : BOOLEAN, client : Clients, current : 0 .. now]
    BY <2>1, <2>2 DEF NoCall, NoDecision
  <2> QED
    BY <2>2, <2>3 DEF LimiterInit, LimiterTypeOK
<1>2. ASSUME LimiterTypeOK, [LimiterNext]_limiterVars PROVE LimiterTypeOK'
  <2> USE <1>2
  <2>0. /\ now \in 0 .. MaxTime /\ now \in Nat /\ NoCall.client \in Clients
        /\ NoCall \in [busy : BOOLEAN, client : Clients, current : 0 .. now]
        /\ NoDecision \in [made : BOOLEAN, allowed : BOOLEAN, client : Clients, current : 0 .. now]
    BY LimiterAssumption DEF LimiterTypeOK, NoCall, NoDecision
  <2>1. ASSUME NEW t \in Threads, Decide(t) PROVE LimiterTypeOK'
    <3>1. PICK c \in Clients, current \in 0 .. now : \E n \in Nat, kept \in Seq(0 .. now) :
            Decides(c, current, n, kept)
      BY <2>1, DecideFacts
    <3>0. PICK n \in Nat, kept \in Seq(0 .. now) : Decides(c, current, n, kept)
      BY <3>1
    <3>2. now' = now /\ call' = [call EXCEPT ![t] = NoCall] /\ Grant' = Grant
      BY <2>1 DEF Decide, Grant
    <3>3. Append(kept, current) \in Seq(0 .. now) /\ [read |-> current, at |-> now] \in Grant
      BY <2>0 DEF Grant
    <3>4. requests' \in [Clients -> Seq(0 .. now)]
      BY <3>0, <3>3 DEF Decides, LimiterTypeOK
    <3>5. grants' \in [Clients -> Seq(Grant)]
      <4>1. grants \in [Clients -> Seq(Grant)]
        BY DEF LimiterTypeOK
      <4>2. Append(grants[c], [read |-> current, at |-> now]) \in Seq(Grant)
        BY <3>3, <4>1
      <4> QED
        BY <3>0, <4>1, <4>2 DEF Decides
    <3>6. last' \in [made : BOOLEAN, allowed : BOOLEAN, client : Clients, current : 0 .. now]
      BY <3>0 DEF Decides
    <3> QED
      BY <2>0, <3>2, <3>4, <3>5, <3>6 DEF LimiterTypeOK
  <2>2. ASSUME NEW t \in Threads, NEW c \in Clients, ReadClock(t, c) PROVE LimiterTypeOK'
    <3>1. /\ call' = [call EXCEPT ![t] = [busy |-> TRUE, client |-> c, current |-> now]]
          /\ last' = NoDecision /\ UNCHANGED <<now, requests, grants>> /\ Grant' = Grant
      BY <2>2 DEF ReadClock, Grant
    <3>2. now \in 0 .. now
      BY <2>0
    <3>3. call' \in [Threads -> [busy : BOOLEAN, client : Clients, current : 0 .. now]]
      BY <3>1, <3>2 DEF LimiterTypeOK
    <3> QED
      BY <2>0, <3>1, <3>3 DEF LimiterTypeOK
  <2>3. CASE Tick
    <3>1. now' \in Nat /\ now <= now' /\ now' \in 0 .. MaxTime
      BY <2>0, <2>3, LimiterAssumption DEF Tick
    <3>2. /\ 0 .. now \subseteq 0 .. now' /\ Seq(0 .. now) \subseteq Seq(0 .. now')
          /\ Seq(Grant) \subseteq Seq(Grant')
      BY <2>0, <3>1, LaterTypes
    <3>3. UNCHANGED <<requests, call, grants>> /\ last' = NoDecision
      BY <2>3 DEF Tick
    <3>4. /\ requests \in [Clients -> Seq(0 .. now)] /\ grants \in [Clients -> Seq(Grant)]
          /\ call \in [Threads -> [busy : BOOLEAN, client : Clients, current : 0 .. now]]
      BY DEF LimiterTypeOK
    <3>5. requests \in [Clients -> Seq(0 .. now')] /\ grants \in [Clients -> Seq(Grant')]
      BY <3>2, <3>4
    <3>6. call \in [Threads -> [busy : BOOLEAN, client : Clients, current : 0 .. now']]
      BY <3>2, <3>4
    <3>7. NoDecision \in [made : BOOLEAN, allowed : BOOLEAN, client : Clients, current : 0 .. now']
      BY <2>0, <3>2
    <3> QED
      BY <3>1, <3>3, <3>5, <3>6, <3>7 DEF LimiterTypeOK
  <2>4. CASE UNCHANGED limiterVars
    BY <2>4 DEF limiterVars, LimiterTypeOK, Grant
  <2> QED
    BY <2>1, <2>2, <2>3, <2>4 DEF LimiterNext
<1> QED
  BY <1>1, <1>2, PTL DEF LimiterSpec

\* What is granted at some time.
AnyGrant == [read : Nat, at : Nat]

\* r, the times of a client, are those of its last grants in g; what was dropped had
\* expired; and grants are decided in order, none before it read the clock.
Follows(g, r, time) ==
  /\ Len(r) <= Len(g)
  /\ \A k \in 1 .. Len(r) : r[k] = g[Len(g) - Len(r) + k].read
  /\ \A k \in 1 .. Len(g) - Len(r) : g[k].read <= time - Window
  /\ \A k \in 1 .. Len(g) : g[k].read <= g[k].at /\ g[k].at <= time
  /\ \A j, k \in 1 .. Len(g) : j <= k => g[j].at <= g[k].at

LimiterInv == (\A c \in Clients : Follows(grants[c], requests[c], now)) /\ WindowIsKept

\* The types of a client's grants, place by place.
LEMMA GrantFacts ==
  ASSUME NEW g \in Seq(AnyGrant)
  PROVE  /\ Len(g) \in Nat /\ DOMAIN g = 1 .. Len(g)
         /\ \A k \in 1 .. Len(g) : g[k] \in AnyGrant /\ g[k].read \in Nat /\ g[k].at \in Nat
<1>1. Len(g) \in Nat /\ DOMAIN g = 1 .. Len(g) /\ \A k \in 1 .. Len(g) : g[k] \in AnyGrant
  OBVIOUS
<1> QED
  BY <1>1 DEF AnyGrant

\* As time passes, what had expired stays expired.
LEMMA FollowsLater ==
  ASSUME NEW g \in Seq(AnyGrant), NEW r \in Seq(Nat), NEW time \in Nat, NEW later \in Nat,
         time <= later, Follows(g, r, time)
  PROVE  Follows(g, r, later)
<1>1. Len(g) \in Nat /\ Len(r) \in Nat /\ Len(r) <= Len(g) /\ Window \in Nat
  BY LimiterAssumption DEF Follows
<1>2. \A k \in 1 .. Len(g) : g[k].read \in Nat /\ g[k].at \in Nat
  BY GrantFacts
<1>3. \A k \in 1 .. Len(g) - Len(r) : g[k].read <= later - Window
  <2> SUFFICES ASSUME NEW k \in 1 .. Len(g) - Len(r) PROVE g[k].read <= later - Window
    OBVIOUS
  <2>1. k \in 1 .. Len(g) /\ g[k].read <= time - Window
    BY <1>1 DEF Follows
  <2> QED
    BY <1>1, <1>2, <2>1
<1>4. \A k \in 1 .. Len(g) : g[k].read <= g[k].at /\ g[k].at <= later
  <2> SUFFICES ASSUME NEW k \in 1 .. Len(g) PROVE g[k].read <= g[k].at /\ g[k].at <= later
    OBVIOUS
  <2>1. g[k].read <= g[k].at /\ g[k].at <= time
    BY DEF Follows
  <2> QED
    BY <1>2, <2>1
<1> QED
  BY <1>3, <1>4 DEF Follows

\* What the loop drops had expired, and the rest are still the times of the last grants.
LEMMA FollowsDropped ==
  ASSUME NEW g \in Seq(AnyGrant), NEW r \in Seq(Nat), NEW time \in Nat, NEW current \in Nat,
         current <= time, Follows(g, r, time), NEW n \in 0 .. Len(r), Drops(n, r, current)
  PROVE  LET s == SubSeq(r, n + 1, Len(r))
         IN  /\ s \in Seq(Nat) /\ Len(s) = Len(r) - n
             /\ Follows(g, s, time)
             /\ Len(s) > 0 => s[1] > current - Window
<1> DEFINE s == SubSeq(r, n + 1, Len(r))
<1>1. /\ Len(g) \in Nat /\ Len(r) \in Nat /\ Len(r) <= Len(g) /\ Window \in Nat
      /\ n \in Nat /\ n <= Len(r)
  BY LimiterAssumption DEF Follows
<1>2. /\ \A k \in 1 .. Len(g) : g[k].read \in Nat /\ g[k].at \in Nat
      /\ \A k \in 1 .. Len(r) : r[k] \in Nat
  BY GrantFacts
<1>3. s \in Seq(Nat) /\ Len(s) = Len(r) - n /\ \A k \in 1 .. Len(r) - n : s[k] = r[n + k]
  BY <1>1, <1>2
<1> HIDE DEF s
<1>4. Len(s) \in Nat /\ Len(s) = Len(r) - n
  BY <1>1, <1>3
<1>5. ASSUME NEW k \in 1 .. Len(g) - Len(s) PROVE g[k].read <= time - Window
  <2>1. k \in Nat /\ 1 <= k /\ k <= Len(g) - Len(r) + n
    BY <1>1, <1>4
  <2>2. CASE k <= Len(g) - Len(r)
    BY <1>1, <2>1, <2>2 DEF Follows
  <2>3. CASE k > Len(g) - Len(r)
    <3>1. PICK i : i = k - (Len(g) - Len(r))
      OBVIOUS
    <3>2. i \in 1 .. n /\ i \in 1 .. Len(r) /\ Len(g) - Len(r) + i = k /\ k \in 1 .. Len(g)
      BY <1>1, <2>1, <2>3, <3>1
    <3>3. r[i] = g[k].read /\ r[i] <= current - Window
      BY <3>2 DEF Follows, Drops, Expired
    <3>4. r[i] \in Nat
      BY <1>2, <3>2
    <3> QED
      BY <1>1, <3>3, <3>4
  <2> QED
    BY <1>1, <2>1, <2>2, <2>3
<1>6. ASSUME NEW k \in 1 .. Len(s) PROVE s[k] = g[Len(g) - Len(s) + k].read
  <2>1. n + k \in 1 .. Len(r) /\ Len(g) - Len(r) + (n + k) = Len(g) - Len(s) + k /\ k \in 1 .. Len(r) - n
    BY <1>1, <1>4
  <2>2. s[k] = r[n + k]
    BY <1>3, <2>1
  <2>3. r[n + k] = g[Len(g) - Len(r) + (n + k)].read
    BY <2>1 DEF Follows
  <2> QED
    BY <2>1, <2>2, <2>3
<1>7. Len(s) <= Len(g)
  BY <1>1, <1>4
<1>8. Follows(g, s, time)
  BY <1>5, <1>6, <1>7 DEF Follows
<1>9. ASSUME Len(s) > 0 PROVE s[1] > current - Window
  <2>1. n < Len(r) /\ 1 \in 1 .. Len(r) - n /\ n + 1 \in 1 .. Len(r)
    BY <1>1, <1>4, <1>9
  <2>2. s[1] = r[n + 1] /\ ~(r[n + 1] <= current - Window) /\ r[n + 1] \in Nat
    BY <1>2, <1>3, <2>1 DEF Drops, Expired
  <2> QED
    BY <1>1, <2>2
<1> QED
  BY <1>3, <1>8, <1>9 DEF s

\* A grant adds its time to those that are kept.
LEMMA FollowsGranted ==
  ASSUME NEW g \in Seq(AnyGrant), NEW s \in Seq(Nat), NEW time \in Nat, NEW current \in Nat,
         current <= time, Follows(g, s, time)
  PROVE  LET e == [read |-> current, at |-> time]
         IN  /\ Append(g, e) \in Seq(AnyGrant) /\ Append(s, current) \in Seq(Nat)
             /\ Len(Append(s, current)) = Len(s) + 1
             /\ Follows(Append(g, e), Append(s, current), time)
<1> DEFINE e == [read |-> current, at |-> time]
           h == Append(g, e)
           u == Append(s, current)
<1>1. /\ Len(g) \in Nat /\ Len(s) \in Nat /\ Len(s) <= Len(g) /\ Window \in Nat
      /\ \A k \in 1 .. Len(g) : g[k].read \in Nat /\ g[k].at \in Nat
  BY GrantFacts, LimiterAssumption DEF Follows
<1>2. e \in AnyGrant /\ e.read = current /\ e.at = time
  BY DEF AnyGrant
<1> HIDE DEF e
<1>3. /\ h \in Seq(AnyGrant) /\ Len(h) = Len(g) + 1 /\ h[Len(g) + 1] = e
      /\ \A k \in 1 .. Len(g) : h[k] = g[k]
  BY <1>2
<1>4. /\ u \in Seq(Nat) /\ Len(u) = Len(s) + 1 /\ u[Len(s) + 1] = current
      /\ \A k \in 1 .. Len(s) : u[k] = s[k]
  OBVIOUS
<1> HIDE DEF h, u
<1>5. Len(h) - Len(u) = Len(g) - Len(s) /\ Len(u) <= Len(h)
  BY <1>1, <1>3, <1>4
<1>6. ASSUME NEW k \in 1 .. Len(u) PROVE u[k] = h[Len(h) - Len(u) + k].read
  <2>1. CASE k = Len(s) + 1
    <3>1. Len(h) - Len(u) + k = Len(g) + 1
      BY <1>1, <1>5, <2>1
    <3> QED
      BY <1>2, <1>3, <1>4, <2>1, <3>1
  <2>2. CASE k # Len(s) + 1
    <3>1. k \in 1 .. Len(s) /\ Len(g) - Len(s) + k \in 1 .. Len(g)
      BY <1>1, <1>4, <2>2
    <3>2. s[k] = g[Len(g) - Len(s) + k].read
      BY <3>1 DEF Follows
    <3> QED
      BY <1>3, <1>4, <1>5, <3>1, <3>2
  <2> QED
    BY <2>1, <2>2
<1>7. ASSUME NEW k \in 1 .. Len(h) - Len(u) PROVE h[k].read <= time - Window
  <2>1. k \in 1 .. Len(g) - Len(s) /\ k \in 1 .. Len(g)
    BY <1>1, <1>5
  <2>2. g[k].read <= time - Window
    BY <2>1 DEF Follows
  <2> QED
    BY <1>3, <2>1, <2>2
<1>8. ASSUME NEW k \in 1 .. Len(h) PROVE k = Len(g) + 1 \/ k \in 1 .. Len(g)
  BY <1>1, <1>3
<1>9. ASSUME NEW k \in 1 .. Len(h) PROVE h[k].read <= h[k].at /\ h[k].at <= time
  <2>1. CASE k = Len(g) + 1
    BY <1>2, <1>3, <2>1
  <2>2. CASE k \in 1 .. Len(g)
    BY <1>3, <2>2 DEF Follows
  <2> QED
    BY <1>8, <2>1, <2>2
<1>10. ASSUME NEW j \in 1 .. Len(h), NEW k \in 1 .. Len(h), j <= k PROVE h[j].at <= h[k].at
  <2>1. CASE k = Len(g) + 1
    BY <1>2, <1>3, <1>9, <2>1
  <2>2. CASE k \in 1 .. Len(g)
    <3>1. j \in 1 .. Len(g)
      BY <1>1, <1>3, <1>10, <2>2
    <3> QED
      BY <1>3, <1>10, <2>2, <3>1 DEF Follows
  <2> QED
    BY <1>8, <2>1, <2>2
<1>11. Follows(h, u, time)
  BY <1>5, <1>6, <1>7, <1>9, <1>10 DEF Follows
<1> QED
  BY <1>3, <1>4, <1>11 DEF e, h, u

\* The prompt grants of the window are among those whose times were kept.
LEMMA PromptAreKept ==
  ASSUME NEW g \in Seq(AnyGrant), NEW r \in Seq(Nat), NEW time \in Nat, Len(r) > 0, Follows(g, r, time),
         NEW S, S = {k \in DOMAIN g : g[k].at > time - Window /\ g[k].read = g[k].at} \ {Len(g)}
  PROVE  Cardinality(S) \in Nat /\ Cardinality(S) < Len(r)
<1>1. /\ Len(g) \in Nat /\ Len(r) \in Nat /\ Len(r) <= Len(g) /\ Window \in Nat /\ DOMAIN g = 1 .. Len(g)
      /\ \A k \in 1 .. Len(g) : g[k].read \in Nat /\ g[k].at \in Nat
  BY GrantFacts, LimiterAssumption DEF Follows
<1>2. PICK a, b : a = Len(g) - Len(r) + 1 /\ b = Len(g) - 1
  OBVIOUS
<1>3. S \subseteq a .. b
  <2> SUFFICES ASSUME NEW k \in S PROVE k \in a .. b
    OBVIOUS
  <2>1. k \in 1 .. Len(g) /\ g[k].read > time - Window /\ k # Len(g)
    BY <1>1
  <2>2. ~(k \in 1 .. Len(g) - Len(r))
    <3> SUFFICES ASSUME k \in 1 .. Len(g) - Len(r) PROVE FALSE
      OBVIOUS
    <3>1. g[k].read <= time - Window /\ g[k].read \in Nat
      BY <1>1, <2>1 DEF Follows
    <3> QED
      BY <1>1, <2>1, <3>1
  <2> QED
    BY <1>1, <1>2, <2>1, <2>2
<1>4. a \in Int /\ b \in Int
  BY <1>1, <1>2
<1>5. IsFiniteSet(a .. b) /\ Cardinality(a .. b) = IF a > b THEN 0 ELSE b - a + 1
  BY <1>4, FS_Interval
<1>6. IsFiniteSet(S) /\ Cardinality(S) <= Cardinality(a .. b)
  BY <1>3, <1>5, FS_Subset
<1>7. Cardinality(S) \in Nat
  BY <1>6, FS_CardinalityType
<1>8. Cardinality(a .. b) = Len(r) - 1
  BY <1>1, <1>2, <1>5
<1> QED
  BY <1>1, <1>6, <1>7, <1>8

\* What was kept has been granted in the window.
LEMMA KeptAreRecent ==
  ASSUME NEW g \in Seq(AnyGrant), NEW r \in Seq(Nat), NEW time \in Nat, NEW current \in Nat, Len(r) > 0,
         Follows(g, r, time), r[1] > current - Window,
         NEW S, S = {k \in DOMAIN g : g[k].at > current - Window}
  PROVE  Cardinality(S) \in Nat /\ Cardinality(S) >= Len(r)
<1>1. /\ Len(g) \in Nat /\ Len(r) \in Nat /\ Len(r) <= Len(g) /\ Window \in Nat /\ DOMAIN g = 1 .. Len(g)
      /\ \A k \in 1 .. Len(g) : g[k].read \in Nat /\ g[k].at \in Nat
  BY GrantFacts, LimiterAssumption DEF Follows
<1>2. PICK a, b : a = Len(g) - Len(r) + 1 /\ b = Len(g)
  OBVIOUS
<1>3. a \in 1 .. Len(g) /\ b \in Int
  BY <1>1, <1>2
<1>4. g[a].read > current - Window
  <2>1. 1 \in 1 .. Len(r) /\ Len(g) - Len(r) + 1 = a
    BY <1>1, <1>2
  <2>2. r[1] = g[a].read
    BY <2>1 DEF Follows
  <2> QED
    BY <2>2
<1>5. a .. b \subseteq S
  <2> SUFFICES ASSUME NEW k \in a .. b PROVE k \in S
    OBVIOUS
  <2>1. Len(g) \in Nat /\ a \in Nat /\ 1 <= a /\ b = Len(g)
    BY <1>1, <1>2, <1>3
  <2>2. k \in 1 .. Len(g) /\ a <= k
    BY <2>1
  <2>3. g[a].read <= g[a].at /\ g[a].at <= g[k].at
    BY <1>3, <2>2 DEF Follows
  <2>4. g[a].read \in Nat /\ g[a].at \in Nat /\ g[k].at \in Nat
    BY <1>1, <1>3, <2>2
  <2>5. Window \in Nat
    BY <1>1
  <2>6. g[k].at > current - Window
    <3>1. PICK x, y, z : x = g[a].read /\ y = g[a].at /\ z = g[k].at
      OBVIOUS
    <3>2. x \in Nat /\ y \in Nat /\ z \in Nat /\ x <= y /\ y <= z /\ x > current - Window
      BY <1>4, <2>3, <2>4, <3>1
    <3>3. z > current - Window
      BY <2>5, <3>2
    <3> QED
      BY <3>1, <3>3
  <2>7. DOMAIN g = 1 .. Len(g)
    BY GrantFacts
  <2> QED
    BY <2>2, <2>6, <2>7
<1>6. IsFiniteSet(1 .. Len(g))
  BY <1>1, FS_Interval
<1>7. S \subseteq 1 .. Len(g)
  BY <1>1
<1>8. IsFiniteSet(S)
  BY <1>6, <1>7, FS_Subset
<1>9. Cardinality(a .. b) <= Cardinality(S)
  BY <1>5, <1>8, FS_Subset
<1>10. Cardinality(S) \in Nat
  BY <1>8, FS_CardinalityType
<1>11. Cardinality(a .. b) = Len(r)
  <2>1. Cardinality(a .. b) = IF a > b THEN 0 ELSE b - a + 1
    BY <1>3, FS_Interval
  <2> QED
    BY <1>1, <1>2, <1>3, <2>1
<1> QED
  BY <1>1, <1>9, <1>10, <1>11

\* A decision leaves the times of each client those of its last grants, and it is right.
LEMMA DecideKeeps ==
  ASSUME LimiterTypeOK, LimiterInv, NEW t \in Threads, Decide(t)
  PROVE  LimiterInv'
<1>1. PICK c \in Clients, current \in 0 .. now : \E n \in 0 .. Len(requests[c]) : \E kept \in Seq(0 .. now) :
        Decides(c, current, n, kept)
  BY DecideFacts
<1>2. PICK n \in 0 .. Len(requests[c]), kept \in Seq(0 .. now) : Decides(c, current, n, kept)
  BY <1>1
<1>3. PICK g, r : g = grants[c] /\ r = requests[c]
  OBVIOUS
<1>4. /\ requests \in [Clients -> Seq(0 .. now)] /\ grants \in [Clients -> Seq(Grant)]
      /\ now \in Nat /\ now' = now
  <2>1. now \in 0 .. MaxTime /\ MaxTime \in Nat
    BY LimiterAssumption DEF LimiterTypeOK
  <2>2. now \in Nat
    BY <2>1
  <2>3. requests \in [Clients -> Seq(0 .. now)] /\ grants \in [Clients -> Seq(Grant)]
    BY DEF LimiterTypeOK
  <2>4. now' = now
    BY <1>2 DEF Decides
  <2> QED
    BY <2>2, <2>3, <2>4
<1>5. /\ g \in Seq(AnyGrant) /\ r \in Seq(Nat) /\ current \in Nat /\ current <= now /\ n \in 0 .. Len(r)
      /\ MaxRequests \in Nat \ {0}
  <2>1. 0 .. now \subseteq Nat /\ Grant \subseteq AnyGrant
    BY <1>4 DEF Grant, AnyGrant
  <2>2. Seq(0 .. now) \subseteq Seq(Nat) /\ Seq(Grant) \subseteq Seq(AnyGrant)
    BY <2>1, SeqFacts
  <2>3. g \in Seq(AnyGrant) /\ r \in Seq(Nat)
    BY <1>3, <1>4, <2>2
  <2> QED
    BY <1>3, <1>4, <2>3, LimiterAssumption
<1>6. Follows(g, r, now) /\ Drops(n, r, current) /\ kept = SubSeq(r, n + 1, Len(r))
  BY <1>2, <1>3 DEF LimiterInv, Decides
<1>7. kept \in Seq(Nat) /\ Follows(g, kept, now) /\ (Len(kept) > 0 => kept[1] > current - Window)
  BY <1>4, <1>5, <1>6, FollowsDropped
<1>8. Len(kept) \in Nat
  BY <1>7
<1>9. last'.made /\ last'.allowed = (Len(kept) < MaxRequests) /\ last'.client = c /\ last'.current = current
  BY <1>2 DEF Decides
<1>10. CASE Len(kept) < MaxRequests
  <2> DEFINE h == Append(g, [read |-> current, at |-> now])
             u == Append(kept, current)
  <2>1. /\ requests' = [requests EXCEPT ![c] = u] /\ grants' = [grants EXCEPT ![c] = h]
    BY <1>2, <1>3, <1>10 DEF Decides
  <2>2. h \in Seq(AnyGrant) /\ u \in Seq(Nat) /\ Len(u) = Len(kept) + 1 /\ Follows(h, u, now)
    BY <1>4, <1>5, <1>7, FollowsGranted
  <2> HIDE DEF h, u
  <2>3. requests'[c] = u /\ grants'[c] = h
    BY <1>4, <2>1
  <2>4. ASSUME NEW x \in Clients PROVE Follows(grants'[x], requests'[x], now)
    <3>1. CASE x = c
      BY <2>2, <2>3, <3>1
    <3>2. CASE x # c
      <4>1. grants'[x] = grants[x] /\ requests'[x] = requests[x]
        BY <1>4, <2>1, <3>2
      <4> QED
        BY <4>1 DEF LimiterInv
    <3> QED
      BY <3>1, <3>2
  <2>5. Since(c, now - Window, TRUE)' = {k \in DOMAIN h : h[k].at > now - Window /\ h[k].read = h[k].at}
    BY <1>4, <2>3 DEF Since
  <2>6. PICK S : S = {k \in DOMAIN h : h[k].at > now - Window /\ h[k].read = h[k].at} \ {Len(h)}
    OBVIOUS
  <2>7. Len(u) > 0
    BY <1>8, <2>2
  <2>8. Cardinality(S) \in Nat /\ Cardinality(S) < Len(u)
    BY <1>4, <2>2, <2>6, <2>7, PromptAreKept
  <2>9. Cardinality(S) < MaxRequests
    BY <1>5, <1>8, <1>10, <2>2, <2>8
  <2>10. S = (Since(last.client, now - Window, TRUE) \ {Len(grants[last.client])})'
    BY <1>4, <1>9, <2>3, <2>5, <2>6
  <2>11. WindowIsKept'
    BY <1>9, <1>10, <2>9, <2>10 DEF WindowIsKept
  <2> QED
    BY <1>4, <2>4, <2>11 DEF LimiterInv
<1>11. CASE ~(Len(kept) < MaxRequests)
  <2>1. requests' = [requests EXCEPT ![c] = kept] /\ grants' = grants
    BY <1>2, <1>11 DEF Decides
  <2>2. requests'[c] = kept /\ grants'[c] = g
    BY <1>3, <1>4, <2>1
  <2>3. ASSUME NEW x \in Clients PROVE Follows(grants'[x], requests'[x], now)
    <3>1. CASE x = c
      BY <1>7, <2>2, <3>1
    <3>2. CASE x # c
      <4>1. grants'[x] = grants[x] /\ requests'[x] = requests[x]
        BY <1>4, <2>1, <3>2
      <4> QED
        BY <4>1 DEF LimiterInv
    <3> QED
      BY <3>1, <3>2
  <2>4. PICK S : S = {k \in DOMAIN g : g[k].at > current - Window}
    OBVIOUS
  <2>5. Len(kept) > 0 /\ kept[1] > current - Window
    BY <1>5, <1>7, <1>8, <1>11
  <2>6. Cardinality(S) \in Nat /\ Cardinality(S) >= Len(kept)
    BY <1>4, <1>5, <1>7, <2>4, <2>5, KeptAreRecent
  <2>7. Cardinality(S) >= MaxRequests
    BY <1>5, <1>8, <1>11, <2>6
  <2>8. S = Since(last.client, last.current - Window, FALSE)'
    BY <1>4, <1>9, <2>2, <2>4 DEF Since
  <2>9. WindowIsKept'
    BY <1>9, <1>11, <2>7, <2>8 DEF WindowIsKept
  <2> QED
    BY <1>4, <2>3, <2>9 DEF LimiterInv
<1> QED
  BY <1>10, <1>11

\* LimiterInv: the limiter's times of a client are those of its last grants, what it has
\* dropped had expired, and the last decision respected the window (RateLimiter.allow).
THEOREM LimiterInvariant == LimiterSpec => []LimiterInv
<1>1. LimiterInit => LimiterInv
  <2> SUFFICES ASSUME LimiterInit PROVE LimiterInv
    OBVIOUS
  <2>1. ~last.made /\ \A c \in Clients : requests[c] = <<>> /\ grants[c] = <<>>
    BY DEF LimiterInit, NoDecision
  <2>2. Follows(<<>>, <<>>, now)
    BY DEF Follows
  <2> QED
    BY <2>1, <2>2 DEF LimiterInv, WindowIsKept
<1>2. ASSUME LimiterTypeOK, LimiterInv, [LimiterNext]_limiterVars PROVE LimiterInv'
  <2> USE <1>2
  <2>1. ASSUME NEW t \in Threads, Decide(t) PROVE LimiterInv'
    BY <2>1, DecideKeeps
  <2>2. ASSUME NEW t \in Threads, NEW c \in Clients, ReadClock(t, c) PROVE LimiterInv'
    <3>1. UNCHANGED <<now, requests, grants>> /\ ~last'.made
      BY <2>2 DEF ReadClock, NoDecision
    <3> QED
      BY <3>1 DEF LimiterInv, WindowIsKept
  <2>3. CASE Tick
    <3>1. now \in Nat /\ now' \in Nat /\ now <= now' /\ UNCHANGED <<requests, grants>> /\ ~last'.made
      BY <2>3, LimiterAssumption DEF Tick, NoDecision, LimiterTypeOK
    <3>2. ASSUME NEW c \in Clients PROVE Follows(grants[c], requests[c], now')
      <4>1. grants[c] \in Seq(Grant) /\ requests[c] \in Seq(0 .. now)
        BY DEF LimiterTypeOK
      <4>2. 0 .. now \subseteq Nat /\ Grant \subseteq AnyGrant
        BY <3>1 DEF Grant, AnyGrant
      <4>3. grants[c] \in Seq(AnyGrant) /\ requests[c] \in Seq(Nat)
        BY <4>1, <4>2, SeqFacts
      <4>4. Follows(grants[c], requests[c], now)
        BY DEF LimiterInv
      <4> QED
        BY <3>1, <4>3, <4>4, FollowsLater
    <3> QED
      BY <3>1, <3>2 DEF LimiterInv, WindowIsKept
  <2>4. CASE UNCHANGED limiterVars
    BY <2>4 DEF limiterVars, LimiterInv, WindowIsKept, Since
  <2> QED
    BY <2>1, <2>2, <2>3, <2>4 DEF LimiterNext
<1> QED
  BY <1>1, <1>2, LimiterTypeCorrect, PTL DEF LimiterSpec

\* WindowIsKept: however the threads of a client overtake each other between the clock and
\* the lock, prompt requests never exceed the limit in a window, and nobody is turned away
\* before it is reached.
THEOREM WindowTheorem == LimiterSpec => []WindowIsKept
BY LimiterInvariant, PTL DEF LimiterInv

=============================================================================
