------------------------ MODULE OfflineQueue_proofs ------------------------
(***************************************************************************)
(* Proofs about OfflineQueue, for any set of submissions, any number of    *)
(* flushes that overlap and any number of kills.  That a submission is one *)
(* task needs an invariant about what is not there: a submission that has  *)
(* not been sent, or was refused, has left no trace that a later step of   *)
(* another operation could bring back.                                     *)
(***************************************************************************)
EXTENDS OfflineQueue, TLAPS

\* Every variable holds a value of its kind.
THEOREM TypeCorrect == Spec => []TypeOK
<1>1. Init => TypeOK
  BY DEF Init, TypeOK, Empty, Queues, Items, Edits
<1>2. ASSUME TypeOK, [Next]_vars PROVE TypeOK'
  <2> USE <1>2 DEF TypeOK
  <2> USE DEF appVars, Accept, Refuse, Fails, Handled
  <2>0. Loadable \subseteq Queues
    BY DEF Loadable, Empty, Queues, Items
  <2>1. ASSUME NEW k \in Keys, Submit(k) PROVE TypeOK'
    <3>1. again' \in [Keys -> Keys]
      BY <2>1 DEF Submit, Repeats
    <3> QED
      BY <2>1, <3>1 DEF Submit
  <2>2. ASSUME NEW k \in Keys, EnqueueLoad(k) \/ EnqueueSave(k) PROVE TypeOK'
    <3>1. CASE EnqueueLoad(k)
      BY <2>0, <3>1 DEF EnqueueLoad, Loads
    <3>2. CASE EnqueueSave(k)
      <4>1. stored' \in Queues /\ Empty \in Queues
        BY <3>2 DEF EnqueueSave, Empty, Queues, Items
      <4> QED
        BY <3>2, <4>1 DEF EnqueueSave
    <3> QED
      BY <2>2, <3>1, <3>2
  <2>3. ASSUME NEW k \in Keys, StrayArrives(k) \/ ChangeProject(k) PROVE TypeOK'
    BY <2>3 DEF StrayArrives, ChangeProject
  <2>4. ASSUME NEW f \in Flushers, FlushLoad(f) \/ FlushSave(f) PROVE TypeOK'
    <3>1. CASE FlushLoad(f)
      BY <2>0, <3>1 DEF FlushLoad, Loads
    <3>2. CASE FlushSave(f)
      <4>1. Empty \in Queues
        BY DEF Empty, Queues, Items
      <4> QED
        BY <3>2, <4>1 DEF FlushSave
    <3> QED
      BY <2>4, <3>1, <3>2
  <2>5. ASSUME NEW f \in Flushers, NEW k \in Keys, Skip(f, k) \/ Answered(f, k) \/ Unanswered(f, k) PROVE TypeOK'
    <3>1. ASSUME NEW item \in Items, Handled(f, k, item)
          PROVE  todo' \in [Flushers -> SUBSET Keys] /\ flushCopy' \in [Flushers -> Queues]
      BY <3>1 DEF Queues
    <3>2. \E item \in Items : Handled(f, k, item)
      BY <2>5 DEF Skip, Answered, Unanswered, Kept, Items
    <3>3. todo' \in [Flushers -> SUBSET Keys] /\ flushCopy' \in [Flushers -> Queues]
      BY <3>1, <3>2
    <3>4. \A g \in Flushers : ~flush[g] => todo'[g] = {}
      BY <3>2
    <3>5. tasks' \in [Keys -> Nat] /\ stray' \in SUBSET Keys
      BY <2>5 DEF Skip, Answered, Unanswered
    <3> QED
      BY <3>2, <3>3, <3>4, <3>5
  <2>6. ASSUME NEW op \in {"discard", "retry"}, NEW k \in Keys, EditLoad(op, k) PROVE TypeOK'
    BY <2>0, <2>6 DEF EditLoad, Loads, Edits
  <2>7. CASE EditSave
    <3>1. edit.key \in Keys
      BY <2>7 DEF EditSave, Edits
    <3> QED
      BY <2>7, <3>1 DEF EditSave, Edits, Empty, Queues, Items
  <2>8. CASE Kill
    BY <2>8 DEF Kill, Edits, Empty, Queues, Items
  <2>9. CASE UNCHANGED vars
    BY <2>9 DEF vars
  <2> QED
    BY <1>2, <2>1, <2>2, <2>3, <2>4, <2>5, <2>6, <2>7, <2>8, <2>9 DEF Next
<1> QED
  BY <1>1, <1>2, PTL DEF Spec

-----------------------------------------------------------------------------

\* Nothing holds an item of the submission or may still send it.
NoTrace(k) ==
  /\ tasks[k] = 0
  /\ k \notin stray
  /\ stored[k] = "none"
  /\ editCopy[k] = "none"
  /\ \A l \in Keys : formCopy[l][k] = "none"
  /\ \A f \in Flushers : flushCopy[f][k] = "none" /\ k \notin todo[f]

\* How a submission ends that the user may repeat.
Repeatable == {"refused", "failed", "timedOut", "unsaved", "interrupted"}

\* A key has one task at most; a submission that has not been made, or that was
\* refused, has left no trace; and what the user repeats had no success.
SubmissionInv ==
  /\ \A k \in Keys : tasks[k] \in {0, 1}
  /\ \A k \in Keys : form[k] \in {"draft", "refused"} => NoTrace(k)
  /\ \A k \in Keys : again[k] # k => form[again[k]] \in Repeatable

\* No operation on the queue, of whatever overlap, brings an item back that
\* would be submitted a second time.
THEOREM SubmissionInvariant == Spec => []SubmissionInv
<1>1. Init => SubmissionInv
  BY DEF Init, SubmissionInv, NoTrace, Empty
<1>2. ASSUME SubmissionInv, TypeOK, [Next]_vars PROVE SubmissionInv'
  <2> USE <1>2 DEF TypeOK, SubmissionInv, NoTrace, Repeatable
  <2> USE DEF appVars, Accept, Refuse, Fails, Handled
  <2>1. ASSUME NEW k \in Keys, Submit(k) PROVE SubmissionInv'
    <3>1. PICK p \in Repeats(k) : again' = [again EXCEPT ![k] = p]
      BY <2>1 DEF Submit
    <3>2. p \in Keys /\ (p = k \/ form[p] \in Repeatable)
      BY <3>1 DEF Repeats
    <3>3. \A l \in Keys : l # k => form'[l] = form[l]
      BY <2>1 DEF Submit
    <3>4. \A l \in Keys : again'[l] # l => form'[again'[l]] \in Repeatable
      BY <2>1, <3>1, <3>2, <3>3 DEF Submit
    <3>5. \A l \in Keys : tasks'[l] \in {0, 1}
      BY <2>1 DEF Submit
    <3>6. ASSUME NEW l \in Keys, form'[l] \in {"draft", "refused"} PROVE NoTrace(l)'
      BY <2>1, <3>6 DEF Submit
    <3> QED
      BY <3>4, <3>5, <3>6
  <2>2. ASSUME NEW k \in Keys, EnqueueLoad(k) \/ EnqueueSave(k) PROVE SubmissionInv'
    <3>1. CASE EnqueueLoad(k)
      BY <3>1 DEF EnqueueLoad, Loads, Loadable, Empty, Queued
    <3>2. CASE EnqueueSave(k)
      <4>1. ASSUME NEW l \in Keys, form'[l] \in {"draft", "refused"} PROVE NoTrace(l)'
        BY <3>2, <4>1 DEF EnqueueSave, Empty, Queues
      <4>2. \A l \in Keys : again'[l] # l => form'[again'[l]] \in Repeatable
        BY <3>2 DEF EnqueueSave
      <4> QED
        BY <3>2, <4>1, <4>2 DEF EnqueueSave
    <3> QED
      BY <2>2, <3>1, <3>2
  <2>3. ASSUME NEW k \in Keys, StrayArrives(k) \/ ChangeProject(k) PROVE SubmissionInv'
    BY <2>3 DEF StrayArrives, ChangeProject
  <2>4. ASSUME NEW f \in Flushers, FlushLoad(f) \/ FlushSave(f) PROVE SubmissionInv'
    <3>1. CASE FlushLoad(f)
      BY <3>1 DEF FlushLoad, Loads, Loadable, Empty
    <3>2. CASE FlushSave(f)
      BY <3>2 DEF FlushSave, Empty
    <3> QED
      BY <2>4, <3>1, <3>2
  <2>5. ASSUME NEW f \in Flushers, NEW k \in Keys, Skip(f, k) \/ Answered(f, k) \/ Unanswered(f, k) PROVE SubmissionInv'
    <3>1. k \in todo[f] /\ form' = form /\ again' = again
      BY <2>5 DEF Skip, Answered, Unanswered
    <3>2. \A l \in Keys : tasks'[l] \in {0, 1}
      BY <2>5 DEF Skip, Answered, Unanswered
    <3>3. ASSUME NEW l \in Keys, form[l] \in {"draft", "refused"} PROVE NoTrace(l)'
      <4>1. NoTrace(l) /\ l # k
        BY <3>1, <3>3
      <4>2. tasks'[l] = 0 /\ l \notin stray'
        BY <2>5, <4>1 DEF Skip, Answered, Unanswered
      <4>3. \A g \in Flushers : flushCopy'[g][l] = "none" /\ l \notin todo'[g]
        <5>1. PICK item : Handled(f, k, item)
          BY <2>5 DEF Skip, Answered, Unanswered
        <5> QED
          BY <4>1, <5>1 DEF Queues
      <4>4. UNCHANGED <<stored, editCopy, formCopy>>
        BY <2>5 DEF Skip, Answered, Unanswered
      <4> QED
        BY <4>1, <4>2, <4>3, <4>4
    <3> QED
      BY <3>1, <3>2, <3>3
  <2>6. ASSUME NEW op \in {"discard", "retry"}, NEW k \in Keys, EditLoad(op, k) PROVE SubmissionInv'
    BY <2>6 DEF EditLoad, Loads, Loadable, Empty
  <2>7. CASE EditSave
    <3>1. edit.key \in Keys
      BY <2>7 DEF EditSave, Edits
    <3> QED
      BY <2>7, <3>1 DEF EditSave, Empty, Queues, Items
  <2>8. CASE Kill
    BY <2>8 DEF Kill, Empty
  <2>9. CASE UNCHANGED vars
    BY <2>9 DEF vars
  <2> QED
    BY <1>2, <2>1, <2>2, <2>3, <2>4, <2>5, <2>6, <2>7, <2>8, <2>9 DEF Next
<1> QED
  BY <1>1, <1>2, TypeCorrect, PTL DEF Spec

\* A submission becomes at most one task, and a draft submitted again becomes a
\* second one only after an error that left open what had become of the first.
THEOREM OneTaskTheorem == Spec => []OneTaskPerSubmission
<1>1. SubmissionInv /\ TypeOK => OneTaskPerSubmission
  BY DEF SubmissionInv, TypeOK, OneTaskPerSubmission, NoTrace, Repeatable
<1> QED
  BY <1>1, SubmissionInvariant, TypeCorrect, PTL

-----------------------------------------------------------------------------

\* The queue a holder has is the stored one, and a flush has only taken out of
\* it what has become a task; no two operations hold a copy at a time.
HolderInv ==
  /\ \A k, l \in Keys : form[k] = "saving" /\ form[l] = "saving" => k = l
  /\ \A f, g \in Flushers : flush[f] /\ flush[g] => f = g
  /\ (\E k \in Keys : form[k] = "saving") => edit = NoEdit /\ \A f \in Flushers : ~flush[f]
  /\ edit # NoEdit => \A f \in Flushers : ~flush[f]
  /\ \A k \in Keys : form[k] = "saving" => formCopy[k] = stored
  /\ edit # NoEdit => editCopy = stored /\ stored[edit.key] # "none"
  /\ \A f \in Flushers, k \in Keys : flush[f] =>
       /\ flushCopy[f][k] # "none" => stored[k] # "none"
       /\ stored[k] # "none" => flushCopy[f][k] # "none" \/ tasks[k] > 0

\* What is stored or has been discarded was saved; until an overlap or a failed
\* read, what was saved is kept and what was discarded is gone.
QueueInv ==
  /\ \A k \in Keys : stored[k] # "none" \/ k \in discarded => form[k] = "saved"
  /\ SavedIsKept
  /\ \A k \in discarded : stored[k] = "none"

SpoilInv == overlapped \/ misread \/ (HolderInv /\ QueueInv)

\* Without an overlap or a failed read nothing is lost from the queue and nothing
\* comes back, whichever saves fail.
THEOREM SpoilInvariant == Spec => []SpoilInv
<1>1. Init => SpoilInv
  BY DEF Init, SpoilInv, HolderInv, QueueInv, SavedIsKept, Empty
<1>2. ASSUME SpoilInv, TypeOK, [Next]_vars PROVE SpoilInv'
  <2> SUFFICES ASSUME ~overlapped', ~misread' PROVE HolderInv' /\ QueueInv'
    BY DEF SpoilInv
  <2> USE <1>2 DEF TypeOK, HolderInv, QueueInv, SavedIsKept
  <2> USE DEF appVars, Accept, Refuse, Fails, Handled
  <2>0. ~overlapped /\ ~misread => HolderInv /\ QueueInv
    BY DEF SpoilInv
  <2>1. ASSUME NEW k \in Keys, Submit(k) PROVE HolderInv' /\ QueueInv'
    <3>1. /\ HolderInv /\ QueueInv
          /\ UNCHANGED <<stored, formCopy, flush, todo, flushCopy, edit, editCopy, discarded>>
      BY <2>0, <2>1 DEF Submit
    <3>2. /\ form[k] = "draft" /\ form'[k] \notin {"saving", "saved"}
          /\ \A l \in Keys : l # k => form'[l] = form[l]
      BY <2>1 DEF Submit
    <3>3. \A l \in Keys : tasks[l] > 0 => tasks'[l] > 0
      BY <2>1 DEF Submit
    <3> QED
      BY <3>1, <3>2, <3>3
  <2>2. ASSUME NEW k \in Keys, EnqueueLoad(k) PROVE HolderInv' /\ QueueInv'
    <3>1. /\ HolderInv /\ QueueInv /\ ~Held
          /\ UNCHANGED <<stored, flush, todo, flushCopy, edit, editCopy, tasks, discarded>>
      BY <2>0, <2>2 DEF EnqueueLoad, Loads
    <3>2. PICK queue \in Loadable : Loads(queue) /\ formCopy' = [formCopy EXCEPT ![k] = queue]
      BY <2>2 DEF EnqueueLoad
    <3>3. queue = stored
      BY <3>2 DEF Loads
    <3>4. /\ form[k] = "unreachable" /\ form'[k] = "saving" /\ formCopy'[k] = stored
          /\ \A l \in Keys : l # k => form'[l] = form[l]
      BY <2>2, <3>2, <3>3 DEF EnqueueLoad, Queued
    <3> QED
      BY <3>1, <3>4 DEF Held
  <2>3. ASSUME NEW k \in Keys, EnqueueSave(k) PROVE HolderInv' /\ QueueInv'
    <3>1. /\ HolderInv /\ QueueInv
          /\ UNCHANGED <<flush, todo, flushCopy, edit, editCopy, tasks, discarded>>
      BY <2>0, <2>3 DEF EnqueueSave
    <3>2. /\ form[k] = "saving" /\ formCopy[k] = stored
          /\ \A l \in Keys : l # k => form'[l] = form[l]
          /\ \/ form'[k] = "saved" /\ stored' = [stored EXCEPT ![k] = "pending"]
             \/ form'[k] = "unsaved" /\ stored' = stored
      BY <2>3, <3>1 DEF EnqueueSave
    <3>3. CASE form'[k] = "saved" /\ stored' = [stored EXCEPT ![k] = "pending"]
      <4>1. stored'[k] = "pending" /\ \A l \in Keys : l # k => stored'[l] = stored[l]
        BY <3>3 DEF Queues
      <4> QED
        BY <3>1, <3>2, <3>3, <4>1
    <3>4. CASE form'[k] = "unsaved" /\ stored' = stored
      BY <3>1, <3>2, <3>4
    <3> QED
      BY <3>2, <3>3, <3>4
  <2>4. ASSUME NEW k \in Keys, StrayArrives(k) \/ ChangeProject(k) PROVE HolderInv' /\ QueueInv'
    <3>1. /\ HolderInv /\ QueueInv
          /\ UNCHANGED <<stored, appVars, discarded>>
      BY <2>0, <2>4 DEF StrayArrives, ChangeProject
    <3>2. \A l \in Keys : tasks[l] > 0 => tasks'[l] > 0
      BY <2>4 DEF StrayArrives, ChangeProject
    <3> QED
      BY <3>1, <3>2
  <2>5. ASSUME NEW f \in Flushers, FlushLoad(f) PROVE HolderInv' /\ QueueInv'
    <3>1. /\ HolderInv /\ QueueInv /\ ~Held
          /\ UNCHANGED <<stored, form, formCopy, edit, editCopy, tasks, discarded>>
          /\ flush' = [flush EXCEPT ![f] = TRUE] /\ flushCopy'[f] = stored
      BY <2>0, <2>5 DEF FlushLoad, Loads
    <3> QED
      BY <3>1 DEF Held
  <2>6. ASSUME NEW f \in Flushers, FlushSave(f) PROVE HolderInv' /\ QueueInv'
    <3>1. /\ HolderInv /\ QueueInv /\ flush[f]
          /\ UNCHANGED <<form, formCopy, edit, editCopy, tasks, discarded>>
          /\ flush' = [flush EXCEPT ![f] = FALSE] /\ stored' \in {stored, flushCopy[f]}
      BY <2>0, <2>6 DEF FlushSave
    <3>2. \A g \in Flushers : ~flush'[g]
      BY <3>1
    <3>3. edit = NoEdit /\ \A k \in Keys : form[k] # "saving"
      BY <3>1
    <3> QED
      BY <3>1, <3>2, <3>3
  <2>7. ASSUME NEW f \in Flushers, NEW k \in Keys, Skip(f, k) \/ Answered(f, k) \/ Unanswered(f, k) PROVE HolderInv' /\ QueueInv'
    <3>1. PICK item \in Items : Handled(f, k, item) /\ (item = "none" => tasks'[k] > 0)
      BY <2>7 DEF Skip, Answered, Unanswered, Kept, Items
    <3>2. /\ HolderInv /\ QueueInv
          /\ UNCHANGED <<stored, form, formCopy, flush, edit, editCopy, discarded>>
      BY <2>0, <3>1
    <3>3. flush[f] /\ flushCopy[f][k] # "none"
      BY <2>7 DEF Skip, Answered, Unanswered, Due
    <3>4. \A l \in Keys : tasks[l] > 0 => tasks'[l] > 0
      BY <2>7 DEF Skip, Answered, Unanswered
    <3>5. /\ flushCopy'[f][k] = item
          /\ \A l \in Keys : l # k => flushCopy'[f][l] = flushCopy[f][l]
          /\ \A g \in Flushers : g # f => flushCopy'[g] = flushCopy[g]
      BY <3>1 DEF Queues
    <3> QED
      BY <3>1, <3>2, <3>3, <3>4, <3>5
  <2>8. ASSUME NEW op \in {"discard", "retry"}, NEW k \in Keys, EditLoad(op, k) PROVE HolderInv' /\ QueueInv'
    <3>1. /\ HolderInv /\ QueueInv /\ ~Held
          /\ UNCHANGED <<stored, form, formCopy, flush, flushCopy, tasks, discarded>>
          /\ editCopy' = stored /\ edit'.key = k /\ stored[k] # "none"
      BY <2>0, <2>8 DEF EditLoad, Loads
    <3> QED
      BY <3>1 DEF Held
  <2>9. CASE EditSave
    <3>1. /\ HolderInv /\ QueueInv /\ edit # NoEdit /\ edit' = NoEdit
          /\ UNCHANGED <<form, formCopy, flush, flushCopy, tasks>>
          /\ editCopy = stored /\ stored[edit.key] # "none"
      BY <2>0, <2>9 DEF EditSave
    <3>2. edit.key \in Keys
      BY <3>1 DEF Edits
    <3>3. (\A f \in Flushers : ~flush[f]) /\ \A k \in Keys : form[k] # "saving"
      BY <3>1
    <3>4. CASE edit.op = "discard" /\ stored' = [stored EXCEPT ![edit.key] = "none"]
               /\ discarded' = discarded \union {edit.key}
      <4>1. stored'[edit.key] = "none" /\ \A l \in Keys : l # edit.key => stored'[l] = stored[l]
        BY <3>2, <3>4 DEF Queues
      <4> QED
        BY <3>1, <3>2, <3>3, <3>4, <4>1
    <3>5. CASE stored' = [stored EXCEPT ![edit.key] = IF @ = "none" THEN "none" ELSE "pending"]
               /\ UNCHANGED discarded
      <4>1. \A l \in Keys : stored'[l] = "none" <=> stored[l] = "none"
        BY <3>2, <3>5 DEF Queues
      <4> QED
        BY <3>1, <3>3, <3>5, <4>1
    <3> QED
      BY <2>9, <3>1, <3>4, <3>5 DEF EditSave
  <2>10. CASE Kill
    <3>1. /\ HolderInv /\ QueueInv /\ edit' = NoEdit /\ (\A f \in Flushers : ~flush'[f])
          /\ UNCHANGED <<stored, tasks, discarded>>
          /\ \A k \in Keys : form'[k] # "saving" /\ (form'[k] = "saved" <=> form[k] = "saved")
      BY <2>0, <2>10 DEF Kill
    <3> QED
      BY <3>1
  <2>11. CASE UNCHANGED vars
    BY <2>0, <2>11 DEF vars
  <2> QED
    BY <1>2, <2>1, <2>2, <2>3, <2>4, <2>5, <2>6, <2>7, <2>8, <2>9, <2>10, <2>11 DEF Next
<1> QED
  BY <1>1, <1>2, TypeCorrect, PTL DEF Spec

\* What was saved is lost, and what was discarded comes back, only where operations
\* on the queue overlapped or could not read it: not by other errors, late arrivals,
\* saves that fail or kills.
THEOREM OnlyOverlapsSpoilTheorem == Spec => []OnlyOverlapsAndMisreadsSpoil
<1>1. SpoilInv => OnlyOverlapsAndMisreadsSpoil
  BY DEF SpoilInv, QueueInv, OnlyOverlapsAndMisreadsSpoil
<1> QED
  BY <1>1, SpoilInvariant, PTL

=============================================================================
