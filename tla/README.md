# Formal models of Hermes Control

TLA+ models of the concurrent and stateful parts of this repository: the Control API that accepts tasks
from a phone, the bridge that runs them with Hermes, the app that follows them, and the installer that keeps
all of it on a host. TLC checks the models on small instances; TLAPS proves every safety property of the
runs for every instance.

    tlc -workers 2 -config TaskService_all.cfg MCTaskService      # one run
    tlapm TaskService_proofs.tla                                  # one module of proofs

`PROJECT.json` lists the components, runs, mutants (for each property a plausible bug that breaks it),
theorems, hazards, and for each definition the lines of code it was translated from.

## 1. Inventory

| Component | State | Operations | What makes it correct | Module |
|---|---|---|---|---|
| Task service (`hermes_client.py`, `projection.py`, task routes of `main.py`) | tasks with status and archive flag (SQLite and memory); slots; running executions | create, approve, reject, cancel, archive, restore, resume after restart; execution and its callbacks | terminal statuses are final, the gate holds, slots add up, no task is lost or run twice | `TaskLifecycle`, `TaskService` |
| Bridge (`hermes_extension/server.py`, `protocol.py`) | jobs, records, slots, replay cache, connections | submit, join, replay, stream, finish, close | one run per request id, streams have no gaps, every run has a verdict, nothing is left running | `Bridge`, `RunService` |
| Plugin executor (`HermesPluginExecutor`) | attempt, last sequence number | connect, read, retry once, time out, cancel | the outcome is the job's outcome | `PluginExecution`, `RunService` |
| Subprocess handler (`hermes_extension/host.py`) and command executor (`LocalHermesCommandExecutor`) | child, prompt, pipes, readers, heartbeat | one `run()` with footer, exit, hard limit, cancellation | the child is reaped and never stuck, the result is whole, nothing follows it | `HermesChild`, `SubprocessHandler`, `LocalCommand`, `CommandRuns` |
| Linked attempts and work threads (`main.py`, `projection.py`) | parent, root, key, session and folder of each attempt | create, retry, continue, edit-retry, new-session; listing | lineage, idempotency, the context of a session and of a project that changes | `Attempts` |
| Native project folders (`workspace.py`) | folders, flags, primary path, archived flag | add, remove, set primary, archive, unarchive | a project keeps a primary folder | `ProjectFolders` |
| Managed workspaces and recovery plan (`managed_workspace.py`, `git_adapter.py`, `main.py`) | directories with manifests, rows of Hermes' store | create, clone, attach, adopt, synchronize, recover | manifests tell the truth, what exists can be recovered | `ManagedWorkspace` |
| Event stream and app data store (`websocket.py`, `data-store.ts`, `storage.py`) | sequence numbers, versions in memory and in the database, what the app shows | broadcast, snapshot, event, refresh, a write that fails | the app is right or says it is stale | `EventStream` |
| Offline queue of the app (`offline-queue.ts`, `new-task.tsx`, `client.ts`) | the saved queue and copies of it, drafts in the form | save, flush, discard, retry, submit again | nothing lost, nothing sent twice | `OfflineQueue` |
| Installer (`hermes_control_installer`) | checkout, record, units, plugin, environment, services | install, update, rollback, rotate-token, uninstall | what runs is what was installed; the token that was told is in force | `Installer` |
| Rate limiter (`rate_limit.py`) | timestamps of each client | allow | nobody exceeds the limit or is turned away below it | `RateLimiter` |
| Notifications, authentication, model catalogue, audit log, runner, screens, deployment files | none, append-only or configuration | | not modelled: see `PROJECT.json` | |

How they interact. The app posts a task to the API with an idempotency key (`OfflineQueue`, `Attempts`); the
API looks up the project and its folders, which other requests change meanwhile (`Attempts` over
`ProjectFolders`); the task service stores and executes the task on a slot (`TaskService`); the executor submits
it to the bridge under the task's id over a local socket and reads numbered events (`PluginExecution` over
`Bridge`; together they implement `RunService`); the bridge, or the API itself where no bridge is configured,
starts Hermes as a child (`CommandRuns`). Every change is broadcast on a WebSocket (`EventStream`). Routes about
workspaces change Hermes' own store and directories (`ManagedWorkspace`). The installer replaces the code under
the services and restarts them (`Installer`).

What is hard: `asyncio` code that changes state before and after an await (a broadcast, a drain, a slot);
cancellation, which arrives at any await; processes that are killed, or stopped and restarted by systemd while
work is under way; routes that run in pool threads; operations of the app that load, await and save; late,
lost and reordered messages; and commands of many steps that fail in the middle. `PROJECT.json` lists these
hazards with their lines.

## 2. Modules

The code between two awaits (of `asyncio` or of JavaScript), or one transaction or one file operation of a
thread, is one action. History variables (marked `history`) record what happened and are never read by a
guard. Where the code is known to break a promise in particular circumstances, a history variable names the
circumstances and the property says that only they break it (section 6).

**TaskLifecycle** is the abstract specification of one task: the statuses and the moves between them.

**TaskService** details it. `exec[t]` is the await at which `_execute_with_slot` stands; routes (`CreateTask`,
`ApproveTask`, `CancelTask`, ...) change the status before their broadcast and start the execution after it
(`starting`, `StartTask`); a broadcast may raise (`StartLost`, `SendFailed`). A status is kept twice, as
`update_task` changes memory first (`status`, `archived`) and then the row (`stored`, `shelved`): the write of the
row or of its event may raise (`SaveFails`), and whatever the code would do next is not done. `ahead` and `free` are
the semaphore, `registered` is `_running_tasks`, `cancelling` are executions with a `CancelledError` still to be
delivered (`Interrupted`). `Stop`, `Exit`, `Crash` and `Boot` are the process; what is in the rows survives it. `Stop`
is SIGINT: uvicorn raises the signal it was stopped by once more when it has served what was in flight, and only
after SIGINT does `asyncio.run` cancel what is left; a SIGTERM ends the process there, as a `Crash` does. The
executor is the environment; once its cancellation was requested it may end with that, or with a result, or with
another exception (`LateOutcomes`). `RefinesLifecycle` is `LifecycleNext` over the same variables, or one of two
named exceptions: `Overruled`, an exception stored over a cancellation that is not delivered yet, and `Reverted`, a
restart that takes back a task whose write had raised.

**RunService** is the abstract specification of what bridge and executor promise about one request: its run is
accepted, launched, judged, dropped by a service that stops or because it breaks; verdicts are sent, lost and sent
again; one answer is taken. **Bridge** is `HermesExtensionServer` with a FIFO semaphore, `_stream_job` split at its drain,
the replay cache with its eviction, and `close()`, which cancels jobs and waits. A job whose handler raises
`CancelledError` of its own accord is over without a terminal record (`Break`), since `_run_job` takes that for a
shutdown. **PluginExecution** EXTENDS it
with `HermesPluginExecutor` as its client: one retry after a quarter of a second, the check of sequence numbers,
the silence limit, cancellation, and restarts of the API. `ImplementsRunService` is `RunService` under a mapping
that forgets connections, records, queue and cache: a run is what its job and last record say (`RunOf`), the word
on its way is the terminal event on the wire.

**HermesChild** is a Hermes command with what reads it: the prompt on its stdin, two pipes that block it when
they are full, two readers that a line beyond the limit of a `StreamReader` kills, and lines that are text, the
footer, the beginning of a traceback, or noise. The child writes, exits and ignores signals as it likes.
**SubprocessHandler** is how `host.py` supervises it (footer, heartbeats, SIGTERM and SIGKILL, hard limit,
unwinding), **LocalCommand** how `hermes_client.py` does, and **CommandRuns** has both as its disjuncts; `by`
says who supervises. A cancellation may arrive at every await, those of the unwinding included: it then skips what
the code has after that await (the cancelling of the readers, the reaping of the child; `cause` is `"abandoned"`). A
callback that raises ends the reader that called it.

**ProjectFolders** has the requests on a project's folders: each helper is a transaction of its own, with those
of other requests in between. **Attempts** EXTENDS it with the submission routes: the looks of
`resolve_project_context` at the project, at the folder and at the session are a step each, with folder and
archive requests between them; `submission.alone` remembers whether one came in between. What is listed
(`Timeline`, `LatestPlace`) is derived as `projection.py` does.

**ManagedWorkspace** models requests in pool threads: each step is one transaction or one file operation. A
recovery (`todo`) is classified once and then applied entry by entry, as `main.py` does. `Adopt` is a project that is
registered for folders that are there, with no look at its slug.

**OfflineQueue** has every load, post and save of the queue as a step; a load that fails is taken for an empty
queue (`Loadable`), and a save may fail. The API may accept, refuse (an unknown or archived project, `barred`), fail or
be out of reach; a request that has had no answer in time may still arrive (`stray`). The form queues only what does
not begin with "API " (`Queued`): a timeout is shown as a refusal, and the draft is submitted `again` under a new key.
**EventStream**
has stored changes, their numbered broadcasts in any order, writes to the database that fail after memory was
changed, the link, and refreshes that are answered and applied later.

**RateLimiter** has calls in pool threads, which read the clock before they take the lock.

**Installer** has a command as the list of steps it will take (`op.todo`), each of which may fail or be the
last before a kill, copies and removals that end half way (`HalfCopied`, `CutRemoval`), the undoing of
`update_install`, and systemd, which keeps up the services that are enabled
(`proc[s].on`) from whatever is on the disk: the checkout, or the files that a copy that was cut off has left among
or before it (`mixed`). A revision is its contents in a few areas (`Content`). `kept` are the services known to be
left on other code: one that an install found running, one that a command still had to start when it was cut off
(`Owed`), and one that was started on a mixture.

`MC*` modules give the constants values that a `.cfg` cannot; `*_proofs` modules hold the theorems; there is one
configuration per component and one per finding.

## 3. Runs

Every property of a passing run has a mutant in `PROJECT.json`: a change of one operator after which TLC finds
the property violated by the same configuration. The instances are therefore large enough for each property to
be able to fail.

| Run | Instance | States | What it shows |
|---|---|---|---|
| `task_service` | 2 tasks, 1 slot, raising broadcasts, 2 faults: kills, interruptions or raising writes | 341 k | The approval gate (`ApprovalGate`), slot accounting (`SlotsAccounted`), no double execution (`NoDoubleStart`), Hermes runs past a terminal status only while being canceled (`NoRunPastTerminal`), only raising broadcasts and writes lose tasks (`OnlyFailuresLoseTasks`), only interruptions cancel unasked (`OnlyStopsCancel`), refinement of `TaskLifecycle` but for two named exceptions (`RefinesLifecycle`); canceled executions give their slot back (`CancelEndsExecution`) and queued tasks are settled (`QueuedIsSettled`), unless a write or broadcast of theirs raised. |
| `plugin_execution` | 2 requests, 1 slot on each side, a cache of 1, runs that break, 1 stop of the bridge or restart of the API | 308 k | The bridge and its executor implement `RunService` (`ImplementsRunService`); gapless sequences across joins and replays (`SequenceAccepted`), the job's own outcome (`OutcomeIsTheJobs`), slots (`BridgeSlotsAccounted`), every accepted run ends (`RunEnds`). |
| `command_runs` | 3 lines on 2 streams, pipes of 1 line, 1 heartbeat, both supervisors, cancellation at every await | 379 k | The child is dead and reaped (`NoOrphanChild`), the result is all of stdout up to the footer (`ResultIsWhole`), nothing is emitted afterwards (`QuietAfterEnd`), no pipe blocks the child for good (`NeverStuck`), a run told to stop ends (`RunSettles`); each with its exceptions. |
| `attempts` | trees of 3 attempts, 2 creation times; 2 attempts on all routes, 2 folders, 1 session, gate on and off, next to a request on the project; 1 attempt next to 2 requests; 3 requests | 843 k | `LineageIsRooted`, `SessionKeepsItsFolder`, `TimelinesAreWhole`, the context an attempt gets (`ContextHolds`), and the folders (`PrimaryIsOne`, `RetainsAFolder`) except where a removal, or the first addition, overlaps another request. |
| `managed_workspace` | 4 requests, 2 at once, 2 slugs, 1 kill or loss of Hermes' store | 2.1 M | `ManifestIsTruthful`; what is not registered, and was not disturbed, is ready for the plan (`Recoverable`); only overlaps, clones cut off, lists that name a slug twice and, for rows, adoptions break `OnlyOverlapsRegisterPartial` and `RegisteredOnce`. |
| `offline_queue` | 2 submissions, the second perhaps the first again, 1 flush, buttons, failing saves, 1 load that overlaps another operation or fails, 1 kill of the app | 383 k | A submission becomes one task at most, a draft two only where the app could not know or takes a timeout for a refusal (`OneTaskPerSubmission`); only overlaps of operations and failed loads lose or revive an item (`OnlyOverlapsAndMisreadsSpoil`); otherwise what is saved becomes a task once its project takes it (`SavedIsSubmitted`). |
| `event_stream` | 1 task, 2 changes, failing writes, 2 refreshes, 1 lost connection or restart | 185 k | A settled app is right or says it is stale (`Fresh`) unless a broadcast missed it or refreshes raced; no message is ignored after a restart (`NothingIsIgnored`); it catches up in any case (`CatchesUp`). |
| `rate_limiter` | 2 clients, 2 threads, 2 requests in a window of 2, time to 3 | 1.4 M | `WindowIsKept`: only as many requests exceed the limit as were held up before the lock, and nobody is turned away below it. |
| `installer` | 3 revisions, 3 commands, 2 failures or kills | 3.3 M | After a success no service runs other code than was installed, but those known to be left behind (`InstalledIsRunning`); the record names what is installed or restored (`RecordIsCheckout`); the token that was told is the one in the environment, and after a rotation that passes the services run with the bridge's new one (`TokensAgree`); the gateway runs on (`GatewayServes`). |
| `offline_lost`, `offline_unanswered`, `handler_footer` | | | The findings of section 5. |

Why these bounds are enough to be useful. Contention for slots needs two tasks and one slot. Losing a wakeup or
a tail of a stream needs one record before the terminal one and one reconnection; two requests are needed for
the slot to be contended and for the replay cache of one to evict. A full pipe needs one line more than it holds,
a traceback held back on one stream while the footer comes on the other needs the third. A root differs from a
parent only from the third attempt on. Overlaps in the stores and the queue are between two operations; three
folder requests at once let a request of each kind overlap, and two next to a submission let one undo what the
other did between its looks. A loss of Hermes' store between two requests lets a workspace be recovered that an
earlier one registered. In the rate limiter a window and one unit of time more have every request at both ends of
a window. Three commands of the installer reach update after update and rotation after rollback; the failing steps
may be any two, of which the second may be in the undoing that the first has begun. Two faults of the task service are
a write that raises and the restart that takes the task back, or a restart and another while it resumes; every submission
is gated there, and one that is not only leaves out the wait for approval. What the bounds exclude: more
than one device, two overlaps in one history of the queue, and whatever the theorems of section 4, which have none of
these bounds, do not cover of larger instances.

Symmetry is used where a run has safety properties only (`managed_workspace`, `rate_limiter`) and nothing in the module
tells the members of the set apart.

Deadlock is checked except where the system may stop for good: `PluginExecution` (all requests done),
`ManagedWorkspace` (all workspaces made and the bounds used up), `RateLimiter` (the clock at its bound) and
`Installer` (no command left).

The type invariants of the modules (`TypeOK`) are there for the proofs.

### Fairness

- `TaskService.EndingSpec`: the event loop runs every ready callback, so that steps that are enabled for ever
  are taken (WF of starting, slot, reports, settling, delivery of cancellations); `systemd` restarts the API
  (`Restart=on-failure`) and an operator starts a stopped one (WF of `Boot`). That a Hermes run ends is assumed
  only of tasks nobody has canceled, or whose cancellation was not carried out because its write raised (SF of
  `t \notin asked \ unsaved /\ Outcome(t)`): cancellation must work without it.
- `PluginExecution.FairSpec`: both event loops run what is ready, Hermes runs end, and the API gives slots to
  its executions again and again. Nothing is assumed about restarts, timeouts or cancellations.
- `CommandRuns.FairSpec`: the event loop and its five second timer, and that a child that was blocked on a full
  pipe writes on when the pipe takes it. Nothing else is assumed of the child.
- `OfflineQueue.FairSpec`: refreshes go on (every 30 seconds on the task list), backoffs elapse (at most 300
  seconds), loads succeed now and then, and the API answers now and then, by accepting an item or refusing it (SF).
  That it accepts what it has refused is not assumed: `SavedIsSubmitted` is about items whose project takes them from
  some time on.
- `EventStream.FairSpec`: messages on an open socket arrive, refreshes end within their timeouts, the task list
  polls, and the API answers now and then (SF).

The other modules have no liveness property and no fairness.

## 4. Proofs

Each proof is about one component with every constant left open: any tasks, requests, slugs, folders, slots,
capacities, and any number of kills, stops, requests and messages. Every step of each of these theorems is checked by TLAPS;
the only assumptions are the `ASSUME`s of the modules (types of the constants, finite or non-empty sets where something is
counted). An invariant of the runs is seldom inductive by itself;
what had to be added to it is said for each.

| Module | Theorems about properties of the runs |
|---|---|
| `TaskService_proofs` (with `RateLimiter`) | `WindowTheorem`, `ApprovalGateHolds`, `NoDoubleStartHolds`, `NoRunPastTerminalHolds`, `OnlyFailuresLoseTasksHolds`, `OnlyStopsCancelHolds`, `SlotsInvariant`, `ImplementsLifecycle` (and, like it, `OutcomesAreFinal`) |
| `PluginExecution_proofs` | `SequenceAcceptedTheorem`, `OutcomeIsTheJobsTheorem`, `BridgeSlotsTheorem`, `ImplementsRunServiceTheorem` (and from it `NothingOutlivesTheService`) |
| `CommandRuns_proofs` | `NoOrphanChildTheorem`, `QuietAfterEndTheorem`, `ResultIsWholeTheorem` |
| `OfflineQueue_proofs` | `OneTaskTheorem`, `OnlyOverlapsSpoilTheorem` |
| `ManagedWorkspace_proofs` | `ManifestsAreTruthful`, `OneRegistration`, `WholeRepositories`, `RecoverableTheorem` |
| `EventStream_proofs` | `NothingIsIgnoredTheorem`, `FreshTheorem` |
| `Installer_proofs` | `RunningTheorem`, `RecordTheorem`, `TokensTheorem` (from `TokenTheorem` and `RotatedTheorem`), `GatewayTheorem` |
| `Attempts_proofs` | `LineageIsRootedTheorem`, `SessionKeepsItsFolderTheorem`, `PrimaryIsOneTheorem`, `RetainsAFolderTheorem`, `ContextHoldsTheorem`, `TimelinesAreWholeTheorem` |

Each module also proves type correctness (`TypeCorrect`, and `LimiterTypeCorrect` for the rate limiter).

**Task service.** That a slot is released once depends on where an execution may stand when its cancellation
arrives; that a terminal status is not overwritten depends on the fact that a live execution of a canceled task
has its cancellation pending, unless the write of the cancellation raised. `IInv` collects these facts: `StoreInv`
(memory and row differ only where a write raised), `StageInv` (which statuses are possible at each await), `CancelInv`
(a stored cancellation is pending at the execution, and a pending one is stored while the process is up),
`ProcessInv` (a process that is down executes nothing), `GateInv` (the gate extended to every status, in memory or in a
row, that a restart would resume), `NoDoubleStart` and `SlotsAccounted`. `LocalInvariant` proves the parts that
concern one task by cases over the actions; `SlotsInvariant` adds the count of slot holders with `HoldersCount`,
a lemma about the cardinality of a filtered set when one element changes. `StepsAreMoves` says that every step is a
move of the lifecycle, an exception stored over a pending cancellation (`Overruled`) or the way back to a row
(`Reverted`); `ImplementsLifecycle` follows without any assumption about the executor or the database, and
`OutcomesAreFinal` says what the two exceptions cost.

**Bridge and executor.** `JobInv` is about the jobs: the queue holds waiting jobs once each, everything that is
not over is awaited by `close()`, the replay cache holds jobs that are over with all their records and is full
when one with records that is over is missing, only the last record is terminal, and slots and running jobs add
up. That a job that is over has a terminal record holds only of jobs that did not break. `WireInv` rests on it:
the numbers on the wire go on from the last one read, what is on it are the records with these numbers, and
everything written is accounted for (`Flow`); and as long as the bridge was never stopped, a connection that
ended is that of a job that is over, so that the one retry finds the verdict in the cache, the request run
again, or a run that broke (`Heals`). The refinement of `RunService` then goes by actions: submitting creates a
run or sends the verdict of one, a line that is read carries the verdict of this run and no other. That a
request may be run again only when the cache was full of others is a counting argument (an injection of the
cache into the other requests).

**Rate limiter.** The times of a client are out of order when its threads have overtaken each other, so that what the
limiter keeps is not the window. `LimiterInv` says what it is (`Follows`): the read times of the client's last grants,
in the order of the decisions; what was dropped had expired by the clock. Prompt grants of the window are therefore
among what is kept (`PromptAreKept`), and whatever is kept behind a time that has not expired was decided in the
window (`KeptAreRecent`). The lemmas are about sequences alone; the step of the lock only cites them.

**Hermes' child.** `RunInv` says what the supervisor knows in each phase: whether the child is alive, signalled or
reaped, and which of its own helper tasks still run, and what a cancellation at an await of the unwinding leaves of
them. Nothing else is emitted after the end because every helper has been awaited or cancelled in each other way.
`WholeInv` is about the output: the lines that were read and what is in the pipe are the two ends of what the child
has said on a stream (`PipeInv`, `LinesInv`), no line is kept after the footer, and a reader that has ended normally
has emptied the pipe of a dead child (`EndInv`). What is up to the footer is stated by positions, not by a filter, so
that no induction over sequences is needed.

**Offline queue.** `SubmissionInv` is about what is not there: a submission that was not sent, or that the API
refused, has left no item, copy, post or stray request anywhere (`NoTrace`) that another operation could bring
back. Two submissions of one draft become two tasks only where the app could not know of the first, or took its
timeout for a refusal. `SpoilInv` is about what is there: while no two operations have overlapped and no load has
failed, one of them at most holds a copy of the queue, and
the copy is what is stored, less what has become a task (`HolderInv`), so that saving it loses nothing.

**Managed workspaces.** `Grounded` ties what a worker has in hand to the directory; `Truthful` says that a manifest
in hand or on disk claims a registration only after it was made. `SlugInv` holds for the slugs that no requests have overlapped on (`OneRegistration` also excepts those of adoptions): at most one worker is on them (`Alone`), and directory, row and manifest are in one of a few
whole states (`Whole`). `KeptInv` is what recovery needs: such a slug has no staging directory left
behind, its one request has the manifest in hand that is on the disk, and a repository that a manifest names is
there unless it is being cloned or its clone has failed (`Kept`).

**Event stream.** `LinkInv`: the numbers on the link rise, none is above the counter of the API, and a socket that
has not delivered its snapshot still begins with it, which sets the app's number back. `FreshInv` follows what
the app does not show yet: a task of an old version is announced by a message on the link or one still to be sent
(`Pending`), unless a refresh is due, or sent, or answered with tasks that are as good (`Current`).

**Attempts and folders.** What a folder request has read still holds as long as no removal, and no first
addition, has crossed another request (`StillTrue`, `FoldersInv`). What a submission found at its first look
still holds, or something came in between (`Looked`). Lineage and sessions need only that records are never
changed after their insertion, and that roots and folders are copied from the source (`Aged`, `Named`).

**Work threads.** `TimelinesAreWhole` is about what a recursive function returns. The prover cannot apply the
library's induction theorems, but it needs none of them: a set of numbers that misses something has a least number
that it misses (`Least`, `Upward`, from the well-foundedness of `<`). In this way the recursion of `FlattenSeq` and
that of `Timeline` are shown to have one solution (`FlattenFacts`, `DescentFacts`: an attempt's list depends on
those of later attempts only). `Lists` is what a list must be: every member once, none before its parent. Lists of
sets that are `Apart` (no member in common, no parent of one in the other) give such a list one after the other
(`ConcatLists`, `FlattenLists`); the attempts that descend from two children of one attempt are apart, and so are
those below two starting points (`TreesApart`), so that each attempt's list is that of its tree (`BelowLists`) and
the starting points have all of the group below them (`TopsList`). That sorting loses nothing takes a bijection
between the attempts and their ranks (`ChronologicalLists`). The latest attempt has no continuation in the group
because attempts are created in the order of their numbers (`CreatedInOrder`, an invariant of its own) and
`max` takes the last of those created at one time. Of the clock this assumes that it does not run backwards.

**Installer.** Everything rests on `OpInv`: a command has steps of its own kind left, in the order of the code, so
that what precedes a step has been done when it is taken. `RecordInv` and `TokenInv` say in which of these steps
the record may differ from the checkout and the token that was told from the environment. `ForceInv` says that from
the moment a rotation has written the bridge's token, only services it has still to restart run with another. `RunInv` is about an update
and what it may rely on: before it begins, what it would not refuse runs what is installed (`IdleInv`); until a
service is restarted it runs the revision before or the target (`UpdateInv`), and these differ only for services
that the update, or its undoing, has yet to restart. `DownInv` says that nothing runs where there is no checkout.

Finding these invariants has changed the model: that a service which an uninstall has stopped stays down, what a
copy that is cut off leaves among the files, and which services commands that are cut off leave behind (`kept`) had
been missing, and the bound of one trouble had hidden it.

Only model-checked: the seven liveness properties of the runs (`CancelEndsExecution`, `QueuedIsSettled`, `RunEnds`,
`NeverStuck`, `RunSettles`, `SavedIsSubmitted`, `CatchesUp`). Proofs under fairness need `ENABLED`, which is out of the
prover's reach.

## 5. Findings

1. **`offline_lost`** A flush saves the queue that it loaded before its requests (`offline-queue.ts:96`) over a task
   that the form has saved meanwhile, though AsyncStorage can be read throughout (`SavedIsKeptWhenRead`); the form
   says "Task saved locally and will retry when the connection returns." (`new-task.tsx:182`).
2. **`offline_unanswered`** A request without an answer for ten seconds fails with "API request timed out"
   (`client.ts:169`). The form takes every message that begins with "API " for a refusal and does not queue it
   (`new-task.tsx:178`); the next submission of the draft has a new key, while the first request may still be
   accepted: two tasks (`OneTaskPerUnanswered`). `docs/PRD.md:224`: "If submission outcome is unknown after
   reconnect, reconcile by client-generated idempotency key before creating duplicates"; `client.test.ts:76`: "rejects a request that
   remains unreachable so offline submission can queue promptly".
3. **`handler_footer`** `wait_for` cancels the task it waits for when it times out, so that awaiting it again after
   `process.kill()` raises `CancelledError` (`host.py:151`): a run that has seen the footer of a child that outlives
   SIGTERM by five seconds ends canceled (`FooterCompletes`). `test_host.py:130` says that it completes. The
   consequence is in `PluginExecution` (`Break`): `_run_job` takes the error for a "Deliberate server shutdown"
   (`server.py:188`), and the job of a bridge that nobody stopped is over without a verdict, which is also what a
   replay of it ends with.

## 6. Further disagreements

Met while modelling. Each is a behaviour of the models, and was seen as a counterexample of the unconditional
property; the property named here is the conditional one that the runs check, or "allowed" where no property of
the runs speaks about it.

- `main.py:261`: `create_task`, `submit_linked_task` and `approve_task` await a broadcast between storing a task as
  queued and starting it; a `WebSocketDisconnect` of one client is not caught and leaves the task queued until the
  process restarts (`OnlyFailuresLoseTasks`). `docs/API.md:79`: "Creates a queued task and starts execution".
- `hermes_client.py:500`: an exception that the executor raises once it has been told to stop (`process.kill()` at
  `hermes_client.py:150` on a child that has just ended) is stored as failed or blocked over the canceled that the
  route has stored and answered (`Overruled` of `RefinesLifecycle`, which is the one overwriting it allows;
  `OutcomesAreFinal`). `docs/API.md:149`, `docs/API.md:153`: the answer is "the updated `TaskSummary` whose `status`
  is `canceled`".
- `hermes_client.py:493`: when an API that runs in a terminal is interrupted (Ctrl-C), `asyncio.run` cancels the
  executions, and their handler stores the tasks as canceled, so that the next process does not resume them
  (`OnlyStopsCancel`). A SIGTERM, by which systemd stops it, ends the process before that. `main.py:72`.
- `hermes_client.py:404`: the write of "running" is outside the `try`: when it raises, the execution is over and the
  task goes on as running, until a restart takes it back to its row (`OnlyFailuresLoseTasks`, `Reverted`).
- `hermes_client.py:379`: a cancellation whose write raises has changed the status in memory but does not cancel the
  execution: Hermes runs on for a task that the API shows as canceled (`NoRunPastTerminal`).
- `hermes_client.py:230`: canceling a task leaves its job on the bridge's slot; the next task waits there without
  heartbeats and fails as silent after 60 seconds (allowed: outcome `stale`). `hermes_client.py:174`.
- `hermes_client.py:195`: the single retry comes before systemd has restarted the bridge (`RestartSec=3`), so that
  a deliberate stop of the bridge fails the run (`OutcomeIsTheJobs` is about a bridge that was never stopped).
  `server.py:188`.
- `main.py:462`: the recovery plan takes the directory of an unfinished clone for a repository
  (`OnlyOverlapsRegisterPartial`: the slug was overlapped). `managed_workspace.py:151`.
- `main.py:477`: two applications of the plan can both create a project whose slug the store does not force to be
  unique (`RegisteredOnce`). `main.py:474`. So can an adoption (`main.py:607`), which does not look at the slug
  (`RegisteredOnce` excepts it).
- `websocket.py:62`: a dead socket ends a broadcast before it comes to the devices behind it (`Fresh`, `missed`).
  `docs/API.md:298`.
- `data-store.ts:57`: of two refreshes that overlap, the older answer may be applied last (`Fresh`, `raced`).
  `docs/PRD.md:300`.
- `server.py:216`: the records of a finished job are evicted once the cache is full of others; a task whose API was
  restarted meanwhile is then run a second time under the same request id (allowed: `Retention` of `RunService`,
  and `OutcomeIsTheJobs` speaks of one launch). `main.py:72`.
- `host.py:79`: a bridge job that is cancelled while it writes the prompt leaves its child unsupervised
  (`NoOrphanChild` excepts it). `host.py:91`: a line longer than the `StreamReader`'s limit ends the reader with an
  exception, and nobody reads the pipe any more: the run waits for its footer, its exit or its hard limit
  (`NeverStuck` excepts it). The same goes for a callback that raises, as `on_log` (`hermes_client.py:118`) does
  when a broadcast or a write does.
- `host.py:161`: a cancellation that arrives while `run()` unwinds skips the rest of the unwinding: the readers go
  on emitting what is in the pipes, and the killed child is not waited for. `close()` (`server.py:87`) cancels jobs
  wherever they stand, and a second cancellation does the same to `hermes_client.py:144` and `:151` (`NoOrphanChild`
  and `QuietAfterEnd` except what was abandoned so).
- `hermes_client.py:132`: the command executor leaves its reader tasks behind after its limit or a cancellation
  (`QuietAfterEnd` excepts it), and a footer does not end a child that hangs (allowed: `RunSettles` promises that of
  the bridge only).
- `new-task.tsx:158`: the form makes a new idempotency key for each submission, so that a task stored by a request
  that was answered with an error is created again (`OneTaskPerSubmission` names the endings after which it may).
  `docs/PRD.md:224`.
- `offline-queue.ts:33`: a stored queue that cannot be read or parsed counts as empty, and the next save writes over
  it (`OnlyOverlapsAndMisreadsSpoil` excepts it). `new-task.tsx:182`.
- `projection.py:61`: a task is changed in memory before it is stored; when the write fails, the API goes on showing
  what a restart takes back (`Reverted` of `RefinesLifecycle`; `Fresh` follows the memory).
- `rate_limit.py:17`: the clock is read before the lock is taken; calls that are held up in between exceed the limit
  by as many as they are (`WindowIsKept` counts them). The dictionary of clients never shrinks (allowed).
- `main.py:474`: "rebuild all classifications immediately before each creation", but the entries are classified once
  before the loop (`main.py:477`): a slug that is named twice is registered twice (`RegisteredOnce`), and a later
  one is applied as it was before the earlier ones. An error of SQLite ends the loop; only `RuntimeError` and
  `ValueError` become results.
- `git_adapter.py:31`: a `git clone` that is killed at its limit leaves a partial repository: attaching it again is
  refused, while the recovery plan calls it ready and registers it (`OnlyOverlapsRegisterPartial` excepts it).
- `core.py:279`: "previous installed revision restored" (`core.py:286`), but neither the units in
  `/etc/systemd/system` nor the plugin are put back (allowed), and after a copy that failed half way `git checkout` refuses, or
  leaves those files of the target alone that it finds changed under the revision it is on; then the services are
  restarted on a mixture (`mixed`; `InstalledIsRunning`, `kept`).
- `core.py:258`: an update that is killed before its record exists, or an install that is killed, leaves services on
  the old code that a later update does not restart, as it compares revisions (`InstalledIsRunning`, `kept`).
- `core.py:101`: the plugin's own code, `__init__.py`, is not among the paths whose change restarts the gateway
  (allowed: area `entry`). `docs/INSTALL.md:192`.
- `core.py:692`: `install` on an installed host leaves running services on the old code (`InstalledIsRunning`,
  `kept`). `cli.py:35`: "Install or update the Control services".
- `core.py:676`: an install that fails after generating the token never shows it; the next one prints "use the
  existing token" (`core.py:707`; allowed: `TokensAgree` is about a token that was told).
- `core.py:584`: a rotation whose restart of the API fails puts the environment back under a bridge that already
  runs with the new token, and says "failed" (allowed: `TokensAgree` is about rotations that pass).
  `docs/INSTALL.md:225` has the operator confirm by hand.
- `core.py:537`: `control-api.env` is rendered anew, without what the operator has set in it (not in the model, which has the tokens).
  `docs/INSTALL.md:236`, `docs/DEPLOYMENT.md:87`.
- `host.py:153`: when the exit is noticed before the footer wins, a traceback held back as cleanup becomes
  progress (allowed). `test_host.py:153`.
- `main.py:126`: an attempt in `attention_required`, which still runs, can be retried next to itself (allowed).
  `main.py:130`.
- `main.py:328`: a linked submission repeated with its key is refused once its source is archived (allowed).
  `NATIVE_STORE_ROUTE_MAPPING.md:94-96`.
- `main.py:382`: a new session runs in the project's primary folder, not in the original's (allowed).
  `NATIVE_STORE_ROUTE_MAPPING.md:89`.
- `app/tasks/[taskId].tsx:117`: "Edit and retry" posts to a route that always refuses it (`main.py:340`; not in the
  model, where the route has no effect).
- `app/projects/[projectId].tsx:33`: archiving the retry that resolved a failure makes the failure the latest
  attempt again (allowed). `inbox-work-thread-state.ts:23-24`.
- `workspace.py:136`: a removal acts on what it read two connections earlier (`PrimaryIsOne`, `RetainsAFolder`).
  `workspace.py:95`, `workspace.py:130`.

## 7. Abstractions and what is left out

- Contents of tasks, prompts, events and messages; formatting, validation and refusals that change nothing.
- `TaskService`: a write that raises may have written the row, when it was its event that failed. The contents of
  task events and `reconcile_after_restart`, which nothing calls, are left out. What the executor does is `Outcome`,
  with the results that `PluginExecution` and `CommandRuns` can have.
- `Bridge`: one live connection per request id; `close()` cuts all connections at once; malformed and
  unauthenticated messages are left out. What Hermes does is `Progress`, `Finish` and `Break`, as `CommandRuns`
  allows it; what the readers of an abandoned run still emit when their job is over is not recorded by any job and
  left out.
- `HermesChild`: lines are their kinds; the awaits of the callback inside a reader are one step with the line that
  is read, at whose end it may raise; a grandchild that keeps a pipe open after the child has exited is left out.
- `Attempts`: strict native mode; creation times never decrease but may be equal; execution reduced to statuses.
- `ProjectFolders`: a list of folders of one project; names and descriptions are data; the listing is left out.
- `ManagedWorkspace`: "registered" stands for a row that is archived as well; the shared name of the temporary file
  of `write_manifest`, and the reading and writing of `synchronize`, are one step; a recovery names a slug at most
  twice; a registered project whose primary folder is another directory ("conflict") does not occur; an adopted
  project has the slug of the workspace whose folder it adopts, or lies elsewhere; renames of projects and the
  listing of files are left out.
- `OfflineQueue`: the order of the items; the backoff is "may be passed over"; an answer that the app cannot read
  counts as out of reach, as it does for the form.
- `EventStream`: the lists of a refresh are one answer; storing the cache and setting the state are one step;
  projects, agents and work threads follow the same lines as tasks.
- `RateLimiter`: the clock moves in whole units.
- `Installer`: the virtual environment, modes and owners of files, the database; refusals before any change; a
  `disable` that fails; a directory whose removal was cut off counts as there or as gone; `doctor`, `status` and
  `run-test` (whose `run_test_task` compares with "cancelled", where the API says "canceled").
- Not modelled at all: the bridge's runner, notifications, the model catalogue, authentication, the audit log,
  screens, navigation and theme, and the deployment files. They keep no state that another part reads, or only
  append, or are configuration.

## 8. Plan

Done: the modules of section 2 with their runs, one abstract specification for a task and one for a run with the
refinements of both proved, and the proofs of section 4.

Left, in this order:

1. The executor's results in `TaskService` replaced by the answers of `RunService`, so that one specification says
   what a client of the API sees of a run.
2. Requests that rename a managed project, between the steps of the others.
3. A second device in `EventStream`.

Out of reach: proofs of liveness.
