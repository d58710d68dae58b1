---------------------------- MODULE TaskService ----------------------------
(***************************************************************************)
(* The core of the Control API: HermesTaskService over TaskProjection and  *)
(* its SQLite store, with the task routes of main.py that call them.       *)
(*                                                                         *)
(* Everything runs on one asyncio event loop, so the code between two      *)
(* awaits is one action.  A task's execution is an asyncio task of its     *)
(* own; exec[t] says at which await of _execute_with_slot it stands:       *)
(*                                                                         *)
(*   slot_wait    async with self._execution_slots                         *)
(*   announcing   await on_update(running), before the executor            *)
(*   in_executor  await self.executor.run(...)                             *)
(*   reporting    await on_update(latest), inside an executor callback     *)
(*   settling     the notification and broadcast after a terminal status   *)
(*                                                                         *)
(* The executor is the environment here: it emits output and heartbeats    *)
(* and ends with a result or an error.  Status and archive flag are kept   *)
(* twice: update_task changes memory first, then SQLite, and the write may *)
(* raise.  A process that ends leaves what is in SQLite to the next one.   *)
(***************************************************************************)
EXTENDS TaskLifecycle, Naturals, FiniteSets

CONSTANTS
  MaxConcurrentTasks,   \* CONTROL_API_MAX_CONCURRENT_TASKS, the execution slots
  RequireApproval,      \* CONTROL_API_REQUIRE_TASK_APPROVAL: gate every submission
  SendFailures,         \* whether a broadcast may raise (a socket that went away)
  LateOutcomes,         \* what an executor may still do once cancellation was requested
  MaxFaults             \* bound: how often the process is killed or interrupted, or a
                        \* write to SQLite raises

ASSUME ServiceAssumption ==
  /\ MaxConcurrentTasks \in Nat \ {0}
  /\ RequireApproval \in BOOLEAN
  /\ SendFailures \in BOOLEAN
  /\ LateOutcomes \subseteq {"result", "exception"}
  /\ MaxFaults \in Nat
  /\ IsFiniteSet(Tasks)

VARIABLES
  gated,        \* TaskSummary.requires_approval
  before,       \* created_at: the tasks that existed when this one was created
  stored,       \* the status of each task in SQLite, "absent" without a row
  shelved,      \* the archive flag of each task in SQLite
  proc,         \* the API process: "up", "stopping" or "down"
  starting,     \* routes that will call start_task once their broadcast returns
  exec,         \* where the execution of each task stands, "none" without one
  ahead,        \* the waiters of the semaphore in front of each waiter
  free,         \* the value of the semaphore _execution_slots
  registered,   \* the keys of _running_tasks
  cancelling,   \* executions whose cancel() was called and not yet delivered
  approved,     \* history: tasks the approve route accepted
  asked,        \* history: tasks the cancel route accepted
  lost,         \* history: tasks a broadcast of which raised, in this process
  unsaved,      \* history: tasks a write of which raised, in this process
  crashes, stops, failures

taskVars == <<status, archived, gated, before, stored, shelved, unsaved, failures>>
runtime == <<starting, exec, ahead, free, registered, cancelling>>
history == <<approved, asked, lost>>
bounds == <<crashes, stops>>
vars == <<taskVars, proc, runtime, history, bounds>>

ExecStates == {"none", "slot_wait", "announcing", "in_executor", "reporting", "settling"}
HoldsSlot == {"announcing", "in_executor", "reporting", "settling"}
InRun == {"announcing", "in_executor", "reporting"}

-----------------------------------------------------------------------------
(* Helpers: the pieces of update_task, the semaphore and _running_tasks.   *)

Remember(t, s) ==
  /\ status' = [status EXCEPT ![t] = s]
  /\ UNCHANGED <<archived, gated, before>>

\* save_task: the row of t, as memory has it now.
Store(t) ==
  /\ stored' = [stored EXCEPT ![t] = status'[t]]
  /\ shelved' = [shelved EXCEPT ![t] = archived'[t]]

\* _save and record_event: the row, then its event.
Saves(t) == Store(t) /\ UNCHANGED <<unsaved, failures>>

\* One of the two raises, the row unwritten or only its event.
SaveFails(t) ==
  /\ crashes + stops + failures < MaxFaults
  /\ Store(t) \/ UNCHANGED <<stored, shelved>>
  /\ unsaved' = unsaved \union {t}
  /\ failures' = failures + 1

SetStatus(t, s) == Remember(t, s) /\ Saves(t)

\* What follows the update in the code is not run: its exception passes there.
SetStatusFails(t, s) == Remember(t, s) /\ SaveFails(t)

Goto(t, where) == exec' = [exec EXCEPT ![t] = where]

\* Mutant: an interrupted waiter stays in the queue.
DequeueNever(t) == UNCHANGED ahead

\* t leaves the queue of the semaphore.
Dequeue(t) == ahead' = [u \in Tasks |-> IF u = t THEN {} ELSE ahead[u] \ {t}]

\* Mutant: the slot is not released.
EndKeepingSlot(t) ==
  /\ Goto(t, "none")
  /\ registered' = registered \ {t}
  /\ cancelling' = cancelling \ {t}
  /\ UNCHANGED <<ahead, free, starting>>

\* The asyncio task of t is over: its done callback pops it, its slot is released.
EndHoldingSlot(t) ==
  /\ Goto(t, "none")
  /\ free' = free + 1
  /\ registered' = registered \ {t}
  /\ cancelling' = cancelling \ {t}
  /\ UNCHANGED <<ahead, starting>>

\* The execution moves to another await; what it has not been told yet stays.
MoveOn(t, where) ==
  /\ Goto(t, where)
  /\ UNCHANGED <<ahead, free, registered, starting>>

Untouched == UNCHANGED <<proc, history, bounds>>

\* A broadcast of t raised: what follows it is not run.
SendRaised(t) ==
  /\ lost' = lost \union {t}
  /\ UNCHANGED <<proc, approved, asked, bounds>>

-----------------------------------------------------------------------------
(* The task routes.                                                        *)

\* create_task and submit_linked_task: the task is stored before the first
\* await; a task that needs no approval is started after the broadcast.
CreateTask(t, gate) ==
  /\ proc = "up"
  /\ status[t] = "absent"
  /\ RequireApproval => gate
  /\ status' = [status EXCEPT ![t] = IF gate THEN "awaiting_approval" ELSE "queued"]
  /\ gated' = [gated EXCEPT ![t] = gate]
  /\ before' = [before EXCEPT ![t] = {u \in Tasks : status[u] # "absent"}]
  /\ UNCHANGED archived
  /\ \/ Saves(t) /\ starting' = IF gate THEN starting ELSE starting \union {t}
     \/ SaveFails(t) /\ UNCHANGED starting
  /\ UNCHANGED <<exec, ahead, free, registered, cancelling>>
  /\ Untouched

\* Mutant: approving twice is not refused.
ApproveTaskAgain(t) ==
  /\ proc = "up"
  /\ status[t] \in {"awaiting_approval", "queued"}
  /\ SetStatus(t, "queued")
  /\ starting' = starting \union {t}
  /\ approved' = approved \union {t}
  /\ UNCHANGED <<proc, exec, ahead, free, registered, cancelling, asked, lost, bounds>>

ApproveTask(t) ==
  /\ proc = "up"
  /\ status[t] = "awaiting_approval"
  /\ \/ SetStatus(t, "queued") /\ starting' = starting \union {t}
     \/ SetStatusFails(t, "queued") /\ UNCHANGED starting
  /\ approved' = approved \union {t}
  /\ UNCHANGED <<proc, exec, ahead, free, registered, cancelling, asked, lost, bounds>>

RejectTask(t) ==
  /\ proc = "up"
  /\ status[t] = "awaiting_approval"
  /\ SetStatus(t, "rejected") \/ SetStatusFails(t, "rejected")
  /\ UNCHANGED runtime
  /\ Untouched

\* Mutant: the asyncio task is left running.
CancelTaskStoredOnly(t) ==
  /\ proc = "up"
  /\ status[t] \in Open
  /\ SetStatus(t, "canceled")
  /\ registered' = registered \ {t}
  /\ asked' = asked \union {t}
  /\ UNCHANGED <<proc, starting, exec, ahead, free, cancelling, approved, lost, bounds>>

\* cancel_task: the stored status first, then the asyncio task if there is one.
\* When the write raises, the asyncio task is not cancelled.
CancelTask(t) ==
  /\ proc = "up"
  /\ status[t] \in Open
  /\ \/ /\ SetStatus(t, "canceled")
        /\ registered' = registered \ {t}
        /\ cancelling' = IF t \in registered THEN cancelling \union {t} ELSE cancelling
     \/ /\ SetStatusFails(t, "canceled")
        /\ UNCHANGED <<registered, cancelling>>
  /\ asked' = asked \union {t}
  /\ UNCHANGED <<proc, starting, exec, ahead, free, approved, lost, bounds>>

ArchiveTask(t) ==
  /\ proc = "up"
  /\ status[t] \in Terminal
  /\ ~archived[t]
  /\ archived' = [archived EXCEPT ![t] = TRUE]
  /\ UNCHANGED <<status, gated, before>>
  /\ Saves(t) \/ SaveFails(t)
  /\ UNCHANGED runtime
  /\ Untouched

RestoreTask(t) ==
  /\ proc = "up"
  /\ archived[t]
  /\ archived' = [archived EXCEPT ![t] = FALSE]
  /\ UNCHANGED <<status, gated, before>>
  /\ Saves(t) \/ SaveFails(t)
  /\ UNCHANGED runtime
  /\ Untouched

\* start_task: the execution is created, registered, and queues for a slot.
StartTask(t) ==
  /\ proc = "up"
  /\ t \in starting
  /\ starting' = starting \ {t}
  /\ Goto(t, "slot_wait")
  /\ registered' = registered \union {t}
  /\ ahead' = [ahead EXCEPT ![t] = {u \in Tasks : exec[u] = "slot_wait"}]
  /\ UNCHANGED <<taskVars, free, cancelling>>
  /\ Untouched

\* The broadcast before start_task raised: the route answers 500 and never starts t.
StartLost(t) ==
  /\ SendFailures
  /\ proc = "up"
  /\ t \in starting
  /\ starting' = starting \ {t}
  /\ UNCHANGED <<taskVars, exec, ahead, free, registered, cancelling>>
  /\ SendRaised(t)

-----------------------------------------------------------------------------
(* The execution of a task: _execute_with_slot and _execute.               *)

\* Mutant: the stored status is not read again once the slot is granted.
BeginExecutionUnchecked(t) ==
  /\ exec[t] = "slot_wait"
  /\ t \notin cancelling
  /\ ahead[t] = {}
  /\ free > 0
  /\ Dequeue(t)
  /\ SetStatus(t, "running")
  /\ Goto(t, "announcing")
  /\ free' = free - 1
  /\ UNCHANGED <<registered, starting, cancelling>>
  /\ Untouched

\* The slot is granted in order of arrival; a task canceled meanwhile returns at once.
\* The write of running is outside the try block: when it raises, the execution is over.
BeginExecution(t) ==
  /\ exec[t] = "slot_wait"
  /\ t \notin cancelling
  /\ ahead[t] = {}
  /\ free > 0
  /\ Dequeue(t)
  /\ \/ /\ status[t] = "canceled"
        /\ Goto(t, "none")
        /\ registered' = registered \ {t}
        /\ UNCHANGED <<taskVars, free>>
     \/ /\ status[t] # "canceled"
        /\ SetStatus(t, "running")
        /\ Goto(t, "announcing")
        /\ free' = free - 1
        /\ UNCHANGED registered
     \/ /\ status[t] # "canceled"
        /\ SetStatusFails(t, "running")
        /\ Goto(t, "none")
        /\ registered' = registered \ {t}
        /\ UNCHANGED free
  /\ UNCHANGED <<starting, cancelling>>
  /\ Untouched

\* The broadcast returned: enter the executor, or read its next event.
Reported(t) ==
  /\ exec[t] \in {"announcing", "reporting"}
  /\ t \notin cancelling
  /\ MoveOn(t, "in_executor")
  /\ UNCHANGED <<taskVars, cancelling>>
  /\ Untouched

\* record_progress: output of Hermes takes a stalled task back to running, and
\* cancels the run of a task whose status is canceled.
Output(t) ==
  /\ exec[t] = "in_executor"
  /\ \/ /\ status[t] # "canceled"
        /\ SetStatus(t, "running")
        /\ MoveOn(t, "reporting")
     \/ /\ status[t] = "canceled"
        /\ t \notin cancelling
        /\ MoveOn(t, "settling")
        /\ UNCHANGED taskVars
  /\ UNCHANGED cancelling
  /\ Untouched

\* Mutant: a stalled task is given up instead of marked.
HeartbeatGivesUp(t) ==
  /\ exec[t] = "in_executor"
  /\ t \notin cancelling
  /\ status[t] = "running"
  /\ SetStatus(t, "canceled")
  /\ MoveOn(t, "reporting")
  /\ UNCHANGED cancelling
  /\ Untouched

\* record_plugin_event: a heartbeat of a child that was quiet for too long
\* marks a running task; any other heartbeat writes the status it finds.
Heartbeat(t) ==
  /\ exec[t] = "in_executor"
  /\ t \notin cancelling
  /\ \/ /\ status[t] = "running"
        /\ SetStatus(t, "attention_required")
     \/ SetStatus(t, status[t])
  /\ MoveOn(t, "reporting")
  /\ UNCHANGED cancelling
  /\ Untouched

\* The run is over and its status stored; when the write raises, so is the execution.
SettlesAs(t, s) ==
  \/ /\ SetStatus(t, s)
     /\ MoveOn(t, "settling")
     /\ cancelling' = cancelling \ {t}
  \/ /\ SetStatusFails(t, s)
     /\ EndHoldingSlot(t)

\* Mutant: a result is stored whatever the status has become.
ResultUnchecked(t) ==
  /\ exec[t] = "in_executor"
  /\ t \in cancelling => "result" \in LateOutcomes
  /\ SettlesAs(t, "completed")
  /\ Untouched

\* The executor returns a result; a task canceled meanwhile keeps its status.
Result(t) ==
  /\ exec[t] = "in_executor"
  /\ t \in cancelling => "result" \in LateOutcomes
  /\ \/ /\ status[t] = "canceled"
        /\ EndHoldingSlot(t)
        /\ UNCHANGED taskVars
     \/ /\ status[t] # "canceled"
        /\ SettlesAs(t, "completed")
  /\ Untouched

\* The handler of any other exception, of the executor or of a write in one of its
\* callbacks: _classify_failure picks the status, whatever the status has become.
Error(t, outcome) ==
  /\ exec[t] = "in_executor"
  /\ t \in cancelling => "exception" \in LateOutcomes
  /\ SettlesAs(t, outcome)
  /\ Untouched

\* The notification and the last broadcast returned, and _execute with them.
Settled(t) ==
  /\ exec[t] = "settling"
  /\ t \notin cancelling
  /\ EndHoldingSlot(t)
  /\ UNCHANGED taskVars
  /\ Untouched

\* A broadcast of the execution raised.  Inside an executor callback the
\* exception fails the task; elsewhere it ends the asyncio task as it stands.
SendFailed(t) ==
  /\ SendFailures
  /\ t \notin cancelling
  /\ \/ /\ exec[t] = "reporting"
        /\ SettlesAs(t, "failed")
     \/ /\ exec[t] \in {"announcing", "settling"}
        /\ EndHoldingSlot(t)
        /\ UNCHANGED taskVars
  /\ SendRaised(t)

\* CancelledError arrives at the await where the execution stands.  Only the
\* executor call is inside the try block that turns it into a stored status.
Interrupted(t) ==
  /\ t \in cancelling
  /\ \/ /\ exec[t] = "slot_wait"
        /\ Dequeue(t)
        /\ Goto(t, "none")
        /\ registered' = registered \ {t}
        /\ cancelling' = cancelling \ {t}
        /\ UNCHANGED <<taskVars, starting, free>>
     \/ /\ exec[t] \in {"announcing", "settling"}
        /\ EndHoldingSlot(t)
        /\ UNCHANGED taskVars
     \/ /\ exec[t] \in {"in_executor", "reporting"}
        /\ status[t] = "canceled"
        /\ MoveOn(t, "settling")
        /\ cancelling' = cancelling \ {t}
        /\ UNCHANGED taskVars
     \/ /\ exec[t] \in {"in_executor", "reporting"}
        /\ status[t] # "canceled"
        /\ SettlesAs(t, "canceled")
  /\ Untouched

-----------------------------------------------------------------------------
(* The life of the process.                                                *)

\* SIGINT: uvicorn serves the requests in flight to their end and raises the
\* signal again, and asyncio.run cancels every asyncio task that is left.  After
\* a SIGTERM the second signal ends the process: that is Crash.
Stop ==
  /\ proc = "up"
  /\ starting = {}
  /\ crashes + stops + failures < MaxFaults
  /\ proc' = "stopping"
  /\ stops' = stops + 1
  /\ cancelling' = {t \in Tasks : exec[t] # "none"}
  /\ UNCHANGED <<taskVars, starting, exec, ahead, free, registered, history, crashes>>

\* The next process knows what SQLite has, and whatever was decided about a task
\* only in memory was never decided.
Vanish ==
  /\ status' = stored
  /\ archived' = shelved
  /\ gated' = [t \in Tasks |-> stored[t] # "absent" /\ gated[t]]
  /\ before' = [t \in Tasks |-> {u \in before[t] : "absent" \notin {stored[t], stored[u]}}]
  /\ approved' = {t \in approved : stored[t] \notin {"absent", "awaiting_approval"}}
  /\ asked' = {t \in asked : stored[t] = "canceled"}
  /\ unsaved' = {}
  /\ starting' = {}
  /\ exec' = [t \in Tasks |-> "none"]
  /\ ahead' = [t \in Tasks |-> {}]
  /\ free' = MaxConcurrentTasks
  /\ registered' = {}
  /\ cancelling' = {}
  /\ lost' = {}

Exit ==
  /\ proc = "stopping"
  /\ \A t \in Tasks : exec[t] = "none"
  /\ proc' = "down"
  /\ Vanish
  /\ UNCHANGED <<stored, shelved, failures, bounds>>

Crash ==
  /\ proc # "down"
  /\ crashes + stops + failures < MaxFaults
  /\ proc' = "down"
  /\ crashes' = crashes + 1
  /\ Vanish
  /\ UNCHANGED <<stored, shelved, failures, stops>>

\* Mutant: tasks that wait for approval are resumed as well.
ResumableUngated == {t \in Tasks : status[t] \in Open /\ ~archived[t]}

\* Mutant: stalled tasks are forgotten.
ResumableForgetful == {t \in Tasks : status[t] \in {"queued", "running"} /\ ~archived[t]}

\* resume_after_restart: what was not terminal is started again, newest first.
Resumable == {t \in Tasks : status[t] \in Active /\ ~archived[t]}

Boot ==
  /\ proc = "down"
  /\ proc' = "up"
  /\ exec' = [t \in Tasks |-> IF t \in Resumable THEN "slot_wait" ELSE "none"]
  /\ ahead' = [t \in Tasks |-> IF t \in Resumable THEN {u \in Resumable : t \in before[u]} ELSE {}]
  /\ registered' = Resumable
  /\ UNCHANGED <<taskVars, starting, free, cancelling, history, bounds>>

-----------------------------------------------------------------------------

Init ==
  /\ LifecycleInit
  /\ gated = [t \in Tasks |-> FALSE]
  /\ before = [t \in Tasks |-> {}]
  /\ stored = [t \in Tasks |-> "absent"]
  /\ shelved = [t \in Tasks |-> FALSE]
  /\ proc = "up"
  /\ starting = {}
  /\ exec = [t \in Tasks |-> "none"]
  /\ ahead = [t \in Tasks |-> {}]
  /\ free = MaxConcurrentTasks
  /\ registered = {}
  /\ cancelling = {}
  /\ approved = {}
  /\ asked = {}
  /\ lost = {}
  /\ unsaved = {}
  /\ crashes = 0
  /\ stops = 0
  /\ failures = 0

Route(t) ==
  \/ \E gate \in BOOLEAN : CreateTask(t, gate)
  \/ ApproveTask(t) \/ RejectTask(t) \/ CancelTask(t)
  \/ ArchiveTask(t) \/ RestoreTask(t)
  \/ StartTask(t) \/ StartLost(t)

Execution(t) ==
  \/ BeginExecution(t) \/ Reported(t) \/ Settled(t)
  \/ Output(t) \/ Heartbeat(t) \/ Result(t)
  \/ \E outcome \in {"failed", "blocked"} : Error(t, outcome)
  \/ SendFailed(t) \/ Interrupted(t)

Process == Stop \/ Exit \/ Crash \/ Boot

Next == (\E t \in Tasks : Route(t) \/ Execution(t)) \/ Process

Spec == Init /\ [][Next]_vars

\* The event loop runs every callback that is ready and systemd restarts the
\* service.  An executor that is given the chance again and again ends some time.
Outcome(t) == Result(t) \/ \E outcome \in {"failed", "blocked"} : Error(t, outcome)

Fairness ==
  /\ \A t \in Tasks :
       /\ WF_vars(StartTask(t))
       /\ WF_vars(BeginExecution(t))
       /\ WF_vars(Reported(t))
       /\ WF_vars(Settled(t))
       /\ WF_vars(Interrupted(t))
  /\ WF_vars(Exit)
  /\ WF_vars(Boot)

FairSpec == Spec /\ Fairness

\* The same with Hermes runs that end, except those that a cancellation interrupts.
EndingSpec == FairSpec /\ \A t \in Tasks : SF_vars(t \notin asked \ unsaved /\ Outcome(t))

-----------------------------------------------------------------------------
(* Properties.                                                             *)

\* Every variable holds a value of its kind.
TypeOK ==
  /\ status \in [Tasks -> Statuses]
  /\ archived \in [Tasks -> BOOLEAN]
  /\ gated \in [Tasks -> BOOLEAN]
  /\ before \in [Tasks -> SUBSET Tasks]
  /\ stored \in [Tasks -> Statuses]
  /\ shelved \in [Tasks -> BOOLEAN]
  /\ proc \in {"up", "stopping", "down"}
  /\ starting \in SUBSET Tasks
  /\ exec \in [Tasks -> ExecStates]
  /\ ahead \in [Tasks -> SUBSET Tasks]
  /\ free \in Nat
  /\ registered \in SUBSET Tasks
  /\ cancelling \in SUBSET Tasks
  /\ approved \in SUBSET Tasks
  /\ asked \in SUBSET Tasks
  /\ lost \in SUBSET Tasks
  /\ unsaved \in SUBSET Tasks
  /\ crashes \in Nat
  /\ stops \in Nat
  /\ failures \in Nat

\* The one way a terminal status is overwritten: a canceled task whose run has not
\* been interrupted yet, because the interruption is under way or the write of the
\* cancellation raised before it.  A run that raises something else is stored.
Overruled(t) ==
  /\ t \in cancelling \union unsaved
  /\ \E outcome \in {"failed", "blocked"} : Move(t, {"canceled"}, outcome)

\* A restart takes a task back to its row where writes of the last process raised.
Reverted ==
  /\ proc' = "down"
  /\ \A t \in Tasks : <<status[t], archived[t]>> # <<status'[t], archived'[t]>> => t \in unsaved

\* The service implements the task lifecycle: in whatever order routes, executor
\* callbacks, cancellations, failing writes and restarts interleave, a task only
\* makes the moves of TaskLifecycle, but for the two above.  In particular a
\* terminal status other than canceled is never overwritten by a process.
RefinesLifecycle ==
  /\ LifecycleInit
  /\ [][LifecycleNext \/ (\E t \in Tasks : Overruled(t)) \/ Reverted]_lifecycleVars

\* A task that was created as awaiting_approval does not reach a slot, and is
\* not resumed after a restart, unless the approve route accepted it.
ApprovalGate ==
  \A t \in Tasks :
    gated[t] /\ (exec[t] # "none" \/ t \in starting) => t \in approved

\* Slots are neither leaked nor overdrawn, whichever way an execution ends:
\* the value of the semaphore and the executions that hold a slot add up.
SlotsAccounted ==
  free + Cardinality({t \in Tasks : exec[t] \in HoldsSlot}) = MaxConcurrentTasks

\* No task is executed twice by one process: a route that is about to call
\* start_task finds no execution of that task in the process.
NoDoubleStart ==
  \A t \in starting : exec[t] = "none" /\ t \notin registered

\* Hermes runs for a task whose status is terminal only while the cancellation
\* of that run is under way, or where the write of the cancellation raised and
\* the run was not interrupted.
NoRunPastTerminal ==
  \A t \in Tasks :
    exec[t] \in InRun /\ status[t] \in Terminal =>
      status[t] = "canceled" /\ t \in cancelling \union unsaved

\* Only a task one of whose own broadcasts or writes raised in this process is
\* left behind as active without an execution, and only until the next restart:
\* no order of routes, cancellations, callbacks and kills does it.
OnlyFailuresLoseTasks ==
  \A t \in Tasks :
    proc = "up" /\ status[t] \in Active =>
      t \in starting \/ exec[t] # "none" \/ t \in lost \union unsaved

\* A task ends up canceled only when somebody asked for it: a restart of the
\* API reattaches the work in progress.
CanceledOnRequest ==
  \A t \in Tasks : status[t] = "canceled" => t \in asked

\* Until a signal stops the process, however often it is killed, only the
\* cancel route cancels tasks.
OnlyStopsCancel == stops = 0 => CanceledOnRequest

\* A canceled task gives its slot back even if Hermes never ends: the execution
\* is interrupted at whatever await it stands, unless a write of the task raised.
CancelEndsExecution ==
  \A t \in Tasks : t \in asked /\ exec[t] \in HoldsSlot ~> exec[t] = "none" \/ t \in unsaved

\* Every queued task is settled in the end, though slots are contended and
\* the process may be killed on the way, unless a broadcast or a write of it raised.
QueuedIsSettled ==
  \A t \in Tasks : status[t] = "queued" ~> status[t] \in Terminal \/ t \in lost \union unsaved

-----------------------------------------------------------------------------
(* The inductive invariant behind the safety properties.                   *)

\* Memory and SQLite differ only where a write raised, and a hidden row is terminal.
StoreInv ==
  \A t \in Tasks :
    /\ t \notin unsaved => stored[t] = status[t] /\ shelved[t] = archived[t]
    /\ shelved[t] => stored[t] \in Terminal

\* Which statuses an execution can have at each await, and that the routes
\* can find an execution that is not canceled.
StageInv ==
  \A t \in Tasks :
    /\ t \in starting => status[t] \in {"queued", "canceled"}
    /\ exec[t] = "slot_wait" => status[t] \in Active \union {"canceled"}
    /\ exec[t] = "announcing" => status[t] \in {"running", "canceled"}
    /\ exec[t] \in {"in_executor", "reporting"} =>
         status[t] \in {"running", "attention_required", "canceled"}
    /\ exec[t] = "settling" => status[t] \in Terminal
    /\ exec[t] \in InRun \union {"slot_wait"} /\ status[t] # "canceled" => t \in registered

\* What is known of an execution that was told to stop.
CancelInv ==
  \A t \in Tasks :
    /\ t \in registered \union cancelling => exec[t] # "none"
    /\ exec[t] \in InRun /\ status[t] = "canceled" => t \in cancelling \union unsaved
    /\ t \in cancelling /\ proc = "up" => status[t] = "canceled"

\* A process that is down has no executions, and an active task is not hidden.
ProcessInv ==
  /\ proc # "up" => starting = {}
  /\ proc = "down" => free = MaxConcurrentTasks /\ \A t \in Tasks : exec[t] = "none"
  /\ \A t \in Tasks : archived[t] => status[t] \in Terminal

\* The gate, kept also for the statuses a restart resumes.
GateInv ==
  \A t \in Tasks :
    gated[t] /\ (exec[t] # "none" \/ t \in starting \/ Active \intersect {status[t], stored[t]} # {}) =>
      t \in approved

\* The inductive invariant: it holds in every interleaving of routes,
\* executions, signals and crashes, and implies the safety properties above.
IInv ==
  /\ TypeOK
  /\ StoreInv
  /\ StageInv
  /\ CancelInv
  /\ ProcessInv
  /\ GateInv
  /\ NoDoubleStart
  /\ SlotsAccounted

=============================================================================
