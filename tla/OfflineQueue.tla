---------------------------- MODULE OfflineQueue ----------------------------
(***************************************************************************)
(* The offline queue of the mobile app against POST /tasks.  A submission  *)
(* has an idempotency key before its first attempt; when the API cannot be *)
(* reached it goes into a queue in AsyncStorage, and refreshes flush that  *)
(* queue.  Every operation on the queue loads all of it, works on the copy *)
(* and saves the copy, with other operations running in between; a load    *)
(* that fails is taken for an empty queue, and a save may fail.  The API   *)
(* may answer, refuse, fail or be out of reach, and a request that has had *)
(* no answer in time may still arrive.                                     *)
(*                                                                         *)
(* The order of the queue is abstracted; an item is "retrying" once it has *)
(* failed, and may then be passed over while its backoff has not elapsed.  *)
(***************************************************************************)
EXTENDS Naturals, FiniteSets

CONSTANTS
  Keys,               \* submissions, by their idempotency key
  Flushers,           \* calls of flushTaskQueue that may be under way at a time
  MaxKills,           \* bound: how often the app is killed
  SpoilOnce           \* bound: whether at most one load overlaps an operation or fails

ASSUME OfflineAssumption == MaxKills \in Nat /\ SpoilOnce \in BOOLEAN

VARIABLES
  stored,       \* the queue in AsyncStorage: the state of the item of each key
  form,         \* where submit() of the key stands
  again,        \* the submission of the same draft it repeats under a new key, or itself
  formCopy,     \* the queue as enqueueTask has loaded it
  flush,        \* whether a flush is under way
  todo,         \* the items it has not come to yet
  flushCopy,    \* the queue it will save
  edit,         \* removeQueuedTask or retryQueuedTask under way: which, and of what key
  editCopy,     \* the queue as it has loaded it
  stray,        \* requests the app gave up that may still reach the API
  barred,       \* keys whose project is unknown to the API, or archived
  tasks,        \* how many tasks the API has created for the key
  discarded,    \* keys the user has discarded
  overlapped,   \* history: an operation on the queue began before another had saved
  misread,      \* history: a load has failed, and there were items
  kills

appVars == <<form, again, formCopy, flush, todo, flushCopy, edit, editCopy>>
vars == <<stored, appVars, stray, barred, tasks, discarded, overlapped, misread, kills>>

Items == {"none", "pending", "retrying"}
Queues == [Keys -> Items]
Empty == [k \in Keys |-> "none"]
NoEdit == [op |-> "none"]
Edits == {NoEdit} \union [op : {"discard", "retry"}, key : Keys]

\* Some operation holds a copy of the queue that it will save.
Held ==
  \/ \E k \in Keys : form[k] = "saving"
  \/ \E f \in Flushers : flush[f]
  \/ edit # NoEdit

\* What loadTaskQueue returns: the queue, or [] if it cannot be read.
Loadable == {stored, Empty}

\* An operation loads the queue.
Loads(queue) ==
  /\ SpoilOnce /\ (Held \/ queue # stored) => ~overlapped /\ ~misread
  /\ misread' = (misread \/ queue # stored)
  /\ overlapped' = (overlapped \/ Held)

-----------------------------------------------------------------------------
(* The API.                                                                *)

\* create_task: a key that has a task gets that task back, before its project is
\* looked at; a new one is refused while its project is unknown or archived.
Accept(k) ==
  /\ k \in barred => tasks[k] > 0
  /\ tasks' = [tasks EXCEPT ![k] = IF @ = 0 THEN 1 ELSE @]

Refuse(k) == k \in barred /\ tasks[k] = 0 /\ UNCHANGED tasks

\* A request arrives after the app has given it up.
StrayArrives(k) ==
  /\ k \in stray
  /\ stray' = stray \ {k}
  /\ Accept(k) \/ Refuse(k)
  /\ UNCHANGED <<stored, appVars, barred, discarded, overlapped, misread, kills>>

\* A project is archived or removed, or comes back.
ChangeProject(k) ==
  /\ barred' = IF k \in barred THEN barred \ {k} ELSE barred \union {k}
  /\ UNCHANGED <<stored, appVars, stray, tasks, discarded, overlapped, misread, kills>>

\* A request fails for the app: it is refused or never arrives, its answer is
\* lost or an error, or nothing comes in time and it arrives later.
Fails(k) ==
  \/ UNCHANGED <<tasks, stray>>
  \/ Accept(k) /\ UNCHANGED stray
  \/ stray' = stray \union {k} /\ UNCHANGED tasks

-----------------------------------------------------------------------------
(* submit() of the form.                                                   *)

\* What the user may submit under a new key: a new draft, or one that has not
\* gone through as far as the user can tell, which is then still in the form.
Repeats(k) == {k} \union
  {p \in Keys : /\ form[p] \in {"refused", "failed", "timedOut", "unsaved", "interrupted"}
                /\ \A l \in Keys \ {p} : again[l] # p}

\* The first attempt: it succeeds; the API refuses it; the API fails when it has
\* created the task (a broadcast raises); nothing comes within ten seconds, which
\* the form shows as an error of the API; or it cannot be reached, as which the
\* form also takes an answer that it cannot read or act upon.
Submit(k) ==
  /\ form[k] = "draft"
  /\ \E p \in Repeats(k) : again' = [again EXCEPT ![k] = p]
  /\ \/ Accept(k) /\ form' = [form EXCEPT ![k] = "submitted"] /\ UNCHANGED stray
     \/ form' = [form EXCEPT ![k] = "refused"] /\ UNCHANGED <<tasks, stray>>
     \/ Accept(k) /\ form' = [form EXCEPT ![k] = "failed"] /\ UNCHANGED stray
     \/ \E ending \in {"timedOut", "unreachable"} : form' = [form EXCEPT ![k] = ending] /\ Fails(k)
  /\ UNCHANGED <<stored, formCopy, flush, todo, flushCopy, edit, editCopy, barred, discarded, overlapped,
                 misread, kills>>

\* Mutant: errors the API has answered are queued, too.
QueuedOnAnyError == {"refused", "failed", "unreachable"}

\* The errors that do not begin with "API ", as an answer of the API and the
\* timeout do: only such a submission is queued.
Queued == {"unreachable"}

\* enqueueTask loads the queue.
EnqueueLoad(k) ==
  /\ form[k] \in Queued
  /\ \E queue \in Loadable : Loads(queue) /\ formCopy' = [formCopy EXCEPT ![k] = queue]
  /\ form' = [form EXCEPT ![k] = "saving"]
  /\ UNCHANGED <<stored, again, flush, todo, flushCopy, edit, editCopy, stray, barred, tasks, discarded, kills>>

\* ... and saves it with the item: the user reads that the task is saved, or that
\* it could not be.
EnqueueSave(k) ==
  /\ form[k] = "saving"
  /\ \/ form' = [form EXCEPT ![k] = "saved"] /\ stored' = [formCopy[k] EXCEPT ![k] = "pending"]
     \/ form' = [form EXCEPT ![k] = "unsaved"] /\ UNCHANGED stored
  /\ formCopy' = [formCopy EXCEPT ![k] = Empty]
  /\ UNCHANGED <<again, flush, todo, flushCopy, edit, editCopy, stray, barred, tasks, discarded, overlapped,
                 misread, kills>>

-----------------------------------------------------------------------------
(* flushTaskQueue.                                                         *)

FlushLoad(f) ==
  /\ ~flush[f]
  /\ \E queue \in Loadable :
       /\ Loads(queue)
       /\ todo' = [todo EXCEPT ![f] = {k \in Keys : queue[k] # "none"}]
       /\ flushCopy' = [flushCopy EXCEPT ![f] = queue]
  /\ flush' = [flush EXCEPT ![f] = TRUE]
  /\ UNCHANGED <<stored, form, again, formCopy, edit, editCopy, stray, barred, tasks, discarded, kills>>

Handled(f, k, item) ==
  /\ todo' = [todo EXCEPT ![f] = @ \ {k}]
  /\ flushCopy' = [flushCopy EXCEPT ![f][k] = item]
  /\ UNCHANGED <<stored, form, again, formCopy, flush, edit, editCopy, barred, discarded, overlapped, misread, kills>>

\* The backoff of the item has not elapsed.
Skip(f, k) ==
  /\ k \in todo[f]
  /\ flushCopy[f][k] = "retrying"
  /\ Handled(f, k, "retrying")
  /\ UNCHANGED <<stray, tasks>>

\* Mutant: an item whose attempt failed is given up.
GivenUp == "none"

\* An item whose attempt failed, with whatever error, is kept.
Kept == "retrying"

\* Mutant: only items that have not failed yet are attempted.
DueOnce == {"pending"}

\* An item may be attempted at once, or when its backoff has elapsed.
Due == {"pending", "retrying"}

\* The item is submitted under its key and the API answers: it has the task, or
\* it refuses it, and the item is kept.
Answered(f, k) ==
  /\ k \in todo[f]
  /\ flushCopy[f][k] \in Due
  /\ \/ Handled(f, k, "none") /\ Accept(k)
     \/ Handled(f, k, Kept) /\ Refuse(k)
  /\ UNCHANGED stray

\* Or the attempt fails, and the item is kept.
Unanswered(f, k) ==
  /\ k \in todo[f]
  /\ flushCopy[f][k] \in Due
  /\ Handled(f, k, Kept)
  /\ Fails(k)

\* What remains is saved over whatever the queue has become, unless that fails.
FlushSave(f) ==
  /\ flush[f]
  /\ todo[f] = {}
  /\ flush' = [flush EXCEPT ![f] = FALSE]
  /\ stored' \in {stored, flushCopy[f]}
  /\ flushCopy' = [flushCopy EXCEPT ![f] = Empty]
  /\ UNCHANGED <<form, again, formCopy, todo, edit, editCopy, stray, barred, tasks, discarded, overlapped,
                 misread, kills>>

-----------------------------------------------------------------------------
(* The buttons of a queued task.                                           *)

EditLoad(op, k) ==
  /\ edit = NoEdit
  /\ stored[k] # "none"
  /\ \E queue \in Loadable : Loads(queue) /\ editCopy' = queue
  /\ edit' = [op |-> op, key |-> k]
  /\ UNCHANGED <<stored, form, again, formCopy, flush, todo, flushCopy, stray, barred, tasks, discarded, kills>>

\* "Discard" takes the item out; "Retry now" makes it due at once; neither does
\* anything if the queue cannot be saved.
EditSave ==
  /\ edit # NoEdit
  /\ edit' = NoEdit
  /\ \/ /\ edit.op = "discard"
        /\ stored' = [editCopy EXCEPT ![edit.key] = "none"]
        /\ discarded' = discarded \union {edit.key}
     \/ /\ edit.op = "retry"
        /\ stored' = [editCopy EXCEPT ![edit.key] = IF @ = "none" THEN "none" ELSE "pending"]
        /\ UNCHANGED discarded
     \/ UNCHANGED <<stored, discarded>>
  /\ editCopy' = Empty
  /\ UNCHANGED <<form, again, formCopy, flush, todo, flushCopy, stray, barred, tasks, overlapped, misread, kills>>

-----------------------------------------------------------------------------

\* The app is killed: only AsyncStorage survives.
Kill ==
  /\ kills < MaxKills
  /\ kills' = kills + 1
  /\ form' = [k \in Keys |-> IF form[k] \in {"unreachable", "saving"} THEN "interrupted" ELSE form[k]]
  /\ flush' = [f \in Flushers |-> FALSE]
  /\ todo' = [f \in Flushers |-> {}]
  /\ edit' = NoEdit
  /\ formCopy' = [k \in Keys |-> Empty]
  /\ flushCopy' = [f \in Flushers |-> Empty]
  /\ editCopy' = Empty
  /\ UNCHANGED <<stored, again, stray, barred, tasks, discarded, overlapped, misread>>

Init ==
  /\ stored = Empty
  /\ form = [k \in Keys |-> "draft"]
  /\ again = [k \in Keys |-> k]
  /\ formCopy = [k \in Keys |-> stored]
  /\ flush = [f \in Flushers |-> FALSE]
  /\ todo = [f \in Flushers |-> {}]
  /\ flushCopy = [f \in Flushers |-> stored]
  /\ edit = NoEdit
  /\ editCopy = stored
  /\ stray = {}
  /\ barred = {}
  /\ tasks = [k \in Keys |-> 0]
  /\ discarded = {}
  /\ overlapped = FALSE
  /\ misread = FALSE
  /\ kills = 0

Next ==
  \/ \E k \in Keys : Submit(k) \/ EnqueueLoad(k) \/ EnqueueSave(k) \/ StrayArrives(k) \/ ChangeProject(k)
  \/ \E f \in Flushers :
       FlushLoad(f) \/ FlushSave(f) \/ \E k \in Keys : Skip(f, k) \/ Answered(f, k) \/ Unanswered(f, k)
  \/ \E op \in {"discard", "retry"}, k \in Keys : EditLoad(op, k)
  \/ EditSave
  \/ Kill

Spec == Init /\ [][Next]_vars

\* Refreshes go on for as long as the app does (every 30 seconds on the task
\* list), each comes to its end, the backoff elapses (it is at most 300 seconds)
\* and now and then the API answers, what it may.
Fairness ==
  /\ \A k \in Keys : WF_vars(EnqueueLoad(k) \/ EnqueueSave(k))
  /\ WF_vars(EditSave)
  /\ \A f \in Flushers :
       /\ SF_vars(FlushLoad(f))
       /\ WF_vars(FlushSave(f))
       /\ WF_vars(\E k \in Keys : Skip(f, k) \/ Answered(f, k) \/ Unanswered(f, k))
       /\ \A k \in Keys : SF_vars(Answered(f, k))

FairSpec == Spec /\ Fairness

-----------------------------------------------------------------------------
(* Properties.                                                             *)

\* Every variable holds a value of its kind, and only a flush has items to come to.
TypeOK ==
  /\ stored \in Queues
  /\ form \in [Keys -> {"draft", "submitted", "refused", "failed", "timedOut", "interrupted", "unreachable",
                      "saving", "saved", "unsaved"}]
  /\ again \in [Keys -> Keys]
  /\ formCopy \in [Keys -> Queues]
  /\ flush \in [Flushers -> BOOLEAN]
  /\ todo \in [Flushers -> SUBSET Keys]
  /\ \A f \in Flushers : ~flush[f] => todo[f] = {}
  /\ flushCopy \in [Flushers -> Queues]
  /\ edit \in Edits
  /\ editCopy \in Queues
  /\ stray \in SUBSET Keys
  /\ barred \in SUBSET Keys
  /\ tasks \in [Keys -> Nat]
  /\ discarded \in SUBSET Keys

\* A submission becomes at most one task, through lost answers, late arrivals,
\* overlapping operations, killed apps and items that come back into the queue.
\* A draft that the user submits again, under a new key, becomes a second task
\* only if the API failed after it had created the first, did not answer in time,
\* or could not be reached and the queue not be saved, or if the app was killed
\* before it knew: what the app calls queued or refused is not also done twice.
OneTaskPerSubmission ==
  /\ \A k \in Keys : tasks[k] <= 1
  /\ \A k \in Keys : LET p == again[k] IN
       p # k /\ tasks[p] > 0 /\ tasks[k] > 0 => form[p] \in {"failed", "timedOut", "unsaved", "interrupted"}

\* "If submission outcome is unknown after reconnect, reconcile by client-generated
\* idempotency key before creating duplicates": a draft whose first submission
\* had no answer in time does not become two tasks.
OneTaskPerUnanswered ==
  \A k \in Keys : LET p == again[k] IN
    p # k /\ form[p] = "timedOut" => ~(tasks[p] > 0 /\ tasks[k] > 0)

\* "Task saved locally and will retry when the connection returns": until it
\* has become a task or is discarded, it is in the queue.
SavedIsKept ==
  \A k \in Keys : form[k] = "saved" => stored[k] # "none" \/ tasks[k] > 0 \/ k \in discarded

\* So it is, at least as long as AsyncStorage can be read whenever it is asked.
SavedIsKeptWhenRead == misread \/ SavedIsKept

\* A saved submission is only ever lost, and a discarded one only comes back into
\* the queue, by an operation on the queue that overlapped another or could not
\* read it, whatever else fails, arrives late or is killed.
OnlyOverlapsAndMisreadsSpoil ==
  overlapped \/ misread \/ (SavedIsKept /\ \A k \in discarded : stored[k] = "none")

\* A saved submission becomes a task once its project takes it, unless it is
\* discarded or an overlap or a failed read has lost it: neither errors, nor saves
\* that fail, nor refusals while the project is archived make the app give it up.
SavedIsSubmitted ==
  \A k \in Keys :
    <>[](k \notin barred) =>
      (form[k] = "saved" ~> tasks[k] > 0 \/ k \in discarded \/ overlapped \/ misread)

=============================================================================
