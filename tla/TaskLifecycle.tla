--------------------------- MODULE TaskLifecycle ---------------------------
(***************************************************************************)
(* What the Control API promises about one task, whatever serves it: the   *)
(* statuses of models.TaskStatus, the moves between them, and the archive  *)
(* flag of the inbox.  It knows nothing of asyncio tasks, slots, restarts  *)
(* or clients; TaskService implements it.                                 *)
(***************************************************************************)

CONSTANT Tasks              \* the task ids a run may hand out

VARIABLES
  status,                   \* the status of each task, "absent" before its creation
  archived                  \* whether the task is hidden from the inbox

lifecycleVars == <<status, archived>>

\* The statuses a task still needs somebody or something to act on.
Active == {"queued", "running", "attention_required"}
Open == Active \union {"awaiting_approval"}

\* The statuses from which archive_task accepts a task.
Terminal == {"completed", "failed", "canceled", "rejected", "blocked"}

Statuses == {"absent"} \union Open \union Terminal

Move(t, from, to) ==
  /\ status[t] \in from
  /\ status' = [status EXCEPT ![t] = to]
  /\ UNCHANGED archived

-----------------------------------------------------------------------------

Created(t) == \E s \in {"awaiting_approval", "queued"} : Move(t, {"absent"}, s)

Approved(t) == Move(t, {"awaiting_approval"}, "queued")

Rejected(t) == Move(t, {"awaiting_approval"}, "rejected")

Canceled(t) == Move(t, Open, "canceled")

\* A run starts, or is taken up again after a restart of the API or a stall.
Running(t) == Move(t, Active, "running")

Stalled(t) == Move(t, {"running"}, "attention_required")

Finished(t) ==
  \E s \in {"completed", "failed", "blocked"} :
    Move(t, {"running", "attention_required"}, s)

Archived(t) ==
  /\ status[t] \in Terminal
  /\ archived' = [archived EXCEPT ![t] = TRUE]
  /\ UNCHANGED status

Restored(t) ==
  /\ archived[t]
  /\ archived' = [archived EXCEPT ![t] = FALSE]
  /\ UNCHANGED status

-----------------------------------------------------------------------------

LifecycleInit ==
  /\ status = [t \in Tasks |-> "absent"]
  /\ archived = [t \in Tasks |-> FALSE]

LifecycleStep(t) ==
  \/ Created(t) \/ Approved(t) \/ Rejected(t) \/ Canceled(t)
  \/ Running(t) \/ Stalled(t) \/ Finished(t)
  \/ Archived(t) \/ Restored(t)

LifecycleNext == \E t \in Tasks : LifecycleStep(t)

LifecycleSpec == LifecycleInit /\ [][LifecycleNext]_lifecycleVars

=============================================================================
