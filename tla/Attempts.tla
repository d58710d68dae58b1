------------------------------ MODULE Attempts ------------------------------
(***************************************************************************)
(* Linked attempts: the routes of control_api/main.py that make a new task *)
(* out of an earlier one (retry, continue, edit-retry, new-session), with  *)
(* the idempotency keys, the approval gate and the native project context  *)
(* each goes through, and the work threads that projection.py derives from *)
(* them.  A route runs from its first check to the insertion of the attempt *)
(* without an await, so that no other submission comes between; but the    *)
(* folder requests of ProjectFolders run in pool threads and do.  How an   *)
(* attempt is executed is the subject of TaskService; only its statuses    *)
(* remain.                                                                 *)
(***************************************************************************)
EXTENDS ProjectFolders, Sequences, SequencesExt

CONSTANTS
  Keys,          \* idempotency keys the clients use
  Settings       \* the deployments and the bounds of the behaviours

\* Of a setting, gate is CONTROL_API_REQUIRE_TASK_APPROVAL = 1, everything else
\* bounds the behaviour: the folders the project begins with, the threads and the
\* operations on the project, the keys, how many attempts, sessions and distinct
\* creation times there are, how attempts end and which routes are used.
ASSUME AttemptsAssumption ==
  \A s \in Settings :
    /\ s.gate \in BOOLEAN
    /\ s.folders \subseteq Folders
    /\ s.threads \subseteq Threads /\ s.ops \subseteq Ops
    /\ s.keys \subseteq Keys
    /\ {s.attempts, s.sessions} \subseteq Nat
    /\ s.clock \in Nat \ {0}
    /\ s.outcomes \subseteq {"completed", "failed", "canceled", "rejected"}
    /\ s.routes \subseteq {"create", "retry", "continue", "edit-retry", "new-session"}

ASSUME KeysAssumption == None \notin Keys

Active == {"awaiting_approval", "queued", "running", "attention_required"}
Terminal == {"completed", "failed", "canceled", "rejected"}

VARIABLES
  setting,    \* which of the settings this is
  attempts,   \* the tasks, in the order of their creation
  sessions,   \* the working directory of each Hermes session (state.db)
  clock,      \* created_at of a task created now
  submission  \* the request whose project context is being resolved

taskVars == <<setting, attempts, sessions, clock>>
vars == <<taskVars, submission, foldersVars>>

Ids == DOMAIN attempts

NoSubmission ==
  [step |-> "none", source |-> 0, root |-> 0, key |-> None, folder |-> None,
   session |-> 0, asked |-> FALSE, base |-> None, alone |-> TRUE]

Init ==
  /\ setting \in Settings
  /\ attempts = <<>>
  /\ sessions = <<>>
  /\ clock = 1
  /\ submission = NoSubmission
  /\ CreatedWith(setting.folders)

-----------------------------------------------------------------------------
(* A submission.  A request names a folder and a session or None and 0.    *)

\* get_task_by_idempotency_key, 0 when there is none.
Known(key) ==
  IF \E i \in Ids : key # None /\ attempts[i].key = key
  THEN CHOOSE i \in Ids : attempts[i].key = key
  ELSE 0

\* require_task_approval.
NeedsApproval(asked) == asked \/ setting.gate

\* Mutant: the parent is taken for the root.
RootIsParent(source) == source

\* The root of a request made from source.
RootFrom(source) ==
  IF attempts[source].root = 0 THEN source ELSE attempts[source].root

\* create_task and submit_linked_task up to the first look at the project.  A
\* known key is answered with its attempt, an archived project and one without a
\* primary folder are refused.
Submit(source, root, key, folder, session, asked) ==
  /\ submission = NoSubmission
  /\ Len(attempts) < setting.attempts
  /\ Known(key) = 0
  /\ ~shelved
  /\ primary # None
  /\ submission' = [step |-> "folder", source |-> source, root |-> root, key |-> key,
                    folder |-> folder, session |-> session, asked |-> asked,
                    base |-> IF folder = None THEN primary ELSE folder, alone |-> TRUE]
  /\ UNCHANGED <<taskVars, foldersVars>>

\* Mutant: a folder that was valid once is taken for valid.
InProjectOnce(folder) == folder \in rows \/ \E i \in Ids : attempts[i].folder = folder

\* validate_project_execution_folder.
InProject(folder) == folder \in rows

\* The attempt that the submission asked for, in its execution folder.
Insert(folder) ==
  /\ attempts' = Append(attempts,
       [status   |-> IF NeedsApproval(submission.asked) THEN "awaiting_approval" ELSE "queued",
        archived |-> FALSE,
        gated    |-> NeedsApproval(submission.asked),
        parent   |-> submission.source, root |-> submission.root, key |-> submission.key,
        folder   |-> folder, session |-> submission.session,
        at       |-> clock])
  /\ UNCHANGED <<setting, sessions, clock>>

Refuse == UNCHANGED taskVars

\* The second look at the project: is the folder one of its folders?
CheckFolder ==
  /\ submission.step = "folder"
  /\ \/ /\ ~InProject(submission.base)
        /\ Refuse
        /\ submission' = NoSubmission
     \/ /\ InProject(submission.base) /\ submission.session = 0
        /\ Insert(submission.base)
        /\ submission' = NoSubmission
     \/ /\ InProject(submission.base) /\ submission.session # 0
        /\ submission' = [submission EXCEPT !.step = "session"]
        /\ UNCHANGED taskVars
  /\ UNCHANGED foldersVars

\* Mutant: the folder of the request is used, not that of the session.
FolderOfRequest(session) == submission.base

\* The working directory of a resumed session.
SessionFolder(session) == sessions[session]

\* validate_session, which looks again: the session's directory must be one of the
\* project's folders, and the one the request names if it names one.
CheckSession ==
  /\ submission.step = "session"
  /\ LET cwd == SessionFolder(submission.session)
     IN  IF InProject(cwd) /\ submission.folder \in {None, cwd} THEN Insert(cwd) ELSE Refuse
  /\ submission' = NoSubmission
  /\ UNCHANGED foldersVars

\* _require_recovery_source.
Recoverable(source) ==
  /\ ~attempts[source].archived
  /\ attempts[source].status \notin {"awaiting_approval", "queued", "running"}

Create(key, folder, session, asked) ==
  Submit(0, 0, key, folder, session, asked)

Retry(source, key) ==
  LET original == attempts[source]
  IN  /\ Recoverable(source)
      /\ Submit(source, RootFrom(source), key, original.folder, original.session, original.gated)

Continue(source, key, asked) ==
  /\ attempts[source].session # 0
  /\ Recoverable(source)
  /\ Submit(source, RootFrom(source), key, None, attempts[source].session, asked)

EditRetry(source, key, asked) ==
  Recoverable(source) /\ Submit(source, RootFrom(source), key, None, 0, asked)

NewSession(source, key, asked) ==
  Recoverable(source) /\ Submit(source, RootFrom(source), key, None, 0, asked)

-----------------------------------------------------------------------------
(* What happens to an attempt afterwards.                                  *)

Move(i, from, to) ==
  /\ attempts[i].status \in from
  /\ to \in setting.outcomes \cup Active
  /\ attempts' = [attempts EXCEPT ![i].status = to]
  /\ UNCHANGED <<setting, sessions, clock>>

Approve(i) == Move(i, {"awaiting_approval"}, "queued")
Start(i) == Move(i, {"queued"}, "running")
Quiet(i) == Move(i, {"running"}, "attention_required")
Speak(i) == Move(i, {"attention_required"}, "running")
Fail(i) == Move(i, {"running", "attention_required"}, "failed")
Cancel(i) == Move(i, Active, "canceled")
Reject(i) == Move(i, {"awaiting_approval"}, "rejected")

\* The result names the session Hermes ran in: the resumed one, or a new one
\* in the execution folder.
Complete(i) ==
  /\ "completed" \in setting.outcomes
  /\ attempts[i].status \in {"running", "attention_required"}
  /\ \/ /\ attempts' = [attempts EXCEPT ![i].status = "completed"]
        /\ UNCHANGED sessions
     \/ /\ attempts[i].session = 0
        /\ Len(sessions) < setting.sessions
        /\ sessions' = Append(sessions, attempts[i].folder)
        /\ attempts' = [attempts EXCEPT ![i].status = "completed",
                                        ![i].session = Len(sessions) + 1]
  /\ UNCHANGED <<setting, clock>>

Archive(i) ==
  /\ attempts[i].status \in Terminal
  /\ attempts' = [attempts EXCEPT ![i].archived = TRUE]
  /\ UNCHANGED <<setting, sessions, clock>>

Restore(i) ==
  /\ attempts[i].archived
  /\ attempts' = [attempts EXCEPT ![i].archived = FALSE]
  /\ UNCHANGED <<setting, sessions, clock>>

Tick ==
  /\ clock < setting.clock
  /\ clock' = clock + 1
  /\ UNCHANGED <<setting, attempts, sessions>>

Submissions ==
  \/ /\ "create" \in setting.routes
     /\ \E key \in setting.keys \cup {None}, folder \in Folders \cup {None},
           session \in {0} \cup DOMAIN sessions, asked \in BOOLEAN :
          Create(key, folder, session, asked)
  \/ \E source \in Ids, key \in setting.keys \cup {None} :
       \/ "retry" \in setting.routes /\ Retry(source, key)
       \/ \E asked \in BOOLEAN :
            \/ "continue" \in setting.routes /\ Continue(source, key, asked)
            \/ "edit-retry" \in setting.routes /\ EditRetry(source, key, asked)
            \/ "new-session" \in setting.routes /\ NewSession(source, key, asked)

\* Everything else the event loop does waits for the submission.
LaterStep ==
  /\ \/ Tick
     \/ \E i \in Ids :
          \/ Start(i) \/ Quiet(i) \/ Speak(i) \/ Fail(i) \/ Complete(i)
          \/ Approve(i) \/ Reject(i) \/ Cancel(i) \/ Archive(i) \/ Restore(i)
  /\ submission = NoSubmission
  /\ UNCHANGED <<submission, foldersVars>>

\* The pool threads do not wait.
ProjectStep ==
  /\ \E r \in setting.threads : FoldersStep(r, setting.ops)
  /\ submission' = [submission EXCEPT
       !.alone = @ /\ (submission # NoSubmission => projectVars' = projectVars)]
  /\ UNCHANGED taskVars

Next == Submissions \/ CheckFolder \/ CheckSession \/ LaterStep \/ ProjectStep

Spec == Init /\ [][Next]_vars

-----------------------------------------------------------------------------
(* list_work_threads.                                                      *)

Visible(archivedToo) == {i \in Ids : archivedToo \/ ~attempts[i].archived}

RootOf(i) == IF attempts[i].root = 0 THEN i ELSE attempts[i].root

Group(root, archivedToo) == {i \in Visible(archivedToo) : RootOf(i) = root}

Earlier(i, j) ==
  \/ attempts[i].at < attempts[j].at
  \/ attempts[i].at = attempts[j].at /\ i < j

\* The sort of a list of attempts, which is stable.
Chronological(S) ==
  CHOOSE s \in SetToSeqs(S) : \A j, k \in DOMAIN s : j < k => Earlier(s[j], s[k])

RootOnly(root, group) == group \cap {root}

\* The attempts of a group from which an ordering starts: its root, and those
\* whose parent is hidden.
Tops(root, group) ==
  {i \in group : i = root \/ attempts[i].parent \notin group}

\* _order_work_thread_attempts: each attempt, then its descendants.  An attempt
\* is always created after its parent, which bounds the recursion.
Timeline(root, group) ==
  LET children(i) == {c \in group \ {root} : attempts[c].parent = i}
      below[i \in Ids] ==
        LET next == Chronological(children(i))
        IN  <<i>> \o FlattenSeq([k \in DOMAIN next |-> below[next[k]]])
      top == Chronological(Tops(root, group))
  IN  FlattenSeq([k \in DOMAIN top |-> below[top[k]]])

\* max over (created_at, position).
LatestPlace(timeline) ==
  CHOOSE k \in DOMAIN timeline : \A j \in DOMAIN timeline :
    \/ attempts[timeline[j]].at < attempts[timeline[k]].at
    \/ attempts[timeline[j]].at = attempts[timeline[k]].at /\ j <= k

Latest(root, archivedToo) ==
  LET timeline == Timeline(root, Group(root, archivedToo))
  IN  timeline[LatestPlace(timeline)]

Roots(archivedToo) == {RootOf(i) : i \in Visible(archivedToo)}
-----------------------------------------------------------------------------

\* Every variable keeps its shape; an attempt is younger than its parent.
TypeOK ==
  /\ setting \in Settings
  /\ Len(attempts) <= setting.attempts
  /\ \A i \in Ids :
       /\ attempts[i] \in
            [status   : Active \cup Terminal,
             archived : BOOLEAN, gated : BOOLEAN,
             parent   : 0..(i - 1), root : 0..(i - 1),
             key      : Keys \cup {None}, folder : Folders,
             session  : 0..Len(sessions),
             at       : 1..clock]
  /\ sessions \in Seq(Folders)
  /\ Len(sessions) <= setting.sessions
  /\ FoldersTypeOK
  /\ submission.step \in {"none", "folder", "session"}
  /\ clock \in 1..setting.clock

\* The root an attempt stores is the original of its whole lineage, however
\* long the chain of retries and continuations that led to it: a work thread is
\* found by that number alone.
LineageIsRooted ==
  \A i \in Ids :
    IF attempts[i].parent = 0
    THEN attempts[i].root = 0
    ELSE /\ attempts[i].root = RootOf(attempts[i].parent)
         /\ attempts[attempts[i].root].parent = 0

\* An attempt in a resumed session runs in the directory of that session, even
\* when the project's primary folder has changed since, so that Hermes never
\* sees another context (resolve_project_context).
SessionKeepsItsFolder ==
  \A i \in Ids :
    attempts[i].session # 0 => attempts[i].folder = sessions[attempts[i].session]

\* An attempt is queued for a project that is not archived, in one of its folders,
\* however old the attempt is that it retries and whatever became of the project
\* since; only a request that changes the project meanwhile can have another
\* effect (resolve_project_context looks at it two or three times).
ContextHolds ==
  [][Len(attempts') > Len(attempts) /\ submission.alone =>
       /\ ~shelved
       /\ Last(attempts').folder \in rows
       /\ submission.folder = None /\ submission.session = 0 =>
            Last(attempts').folder = primary]_vars

\* A work thread lists each of its attempts once, parents first, also when some
\* of their ancestors are archived and hidden; and the one it calls the latest is
\* one that nothing in it was created after and nothing in it continues, also when
\* creation times are equal (list_work_threads, _order_work_thread_attempts).
TimelinesAreWhole ==
  \A archivedToo \in BOOLEAN : \A root \in Roots(archivedToo) :
    LET group == Group(root, archivedToo)
        timeline == Timeline(root, group)
        latest == Latest(root, archivedToo)
    IN  /\ Len(timeline) = Cardinality(group)
        /\ ToSet(timeline) = group
        /\ \A j, k \in DOMAIN timeline :
             attempts[timeline[j]].parent = timeline[k] => k < j
        /\ \A i \in group :
             attempts[i].at <= attempts[latest].at /\ attempts[i].parent # latest

=============================================================================
