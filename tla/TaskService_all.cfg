\* Two tasks and one slot; broadcasts may raise, and two faults: a kill, an interruption or a write that raises.
SPECIFICATION EndingSpec
CONSTANTS
  t1 = t1
  t2 = t2
  Tasks = {t1, t2}
  MaxConcurrentTasks = 1
  RequireApproval = TRUE
  SendFailures = TRUE
  LateOutcomes = {"result", "exception"}
  MaxFaults = 2
INVARIANT ApprovalGate
INVARIANT SlotsAccounted
INVARIANT NoDoubleStart
INVARIANT NoRunPastTerminal
INVARIANT OnlyFailuresLoseTasks
INVARIANT OnlyStopsCancel
PROPERTY RefinesLifecycle
PROPERTY CancelEndsExecution
PROPERTY QueuedIsSettled
