---------------------------- MODULE EventStream ----------------------------
(***************************************************************************)
(* What a device knows about the tasks of the API: ConnectionManager       *)
(* numbers broadcasts and sends a snapshot to every new WebSocket, the     *)
(* data store of the app merges snapshots, events and the answers to       *)
(* refreshes.  The contents of a task are its version (updated_at).        *)
(*                                                                         *)
(* A change is stored and broadcast in two steps, because a handler may    *)
(* await a notification in between; broadcasts therefore come in any order.*)
(* The database may fail a change that is in memory already, which is then *)
(* neither stored nor broadcast.                                           *)
(* The lists of a refresh are one answer, and storing the cache and        *)
(* setting the state are one step.                                         *)
(***************************************************************************)
EXTENDS Naturals, Sequences

CONSTANTS
  Tasks,
  Refreshes,          \* calls of refresh() that may be under way at a time
  MaxChanges,         \* bound: changes to all tasks together
  MaxBreaks           \* bound: lost connections and restarts of the API together

ASSUME StreamAssumption == {MaxChanges, MaxBreaks} \subseteq Nat

VARIABLES
  version,      \* the version of each task that the API has in memory
  stored,       \* the version that its database has
  changes,      \* how many changes there were: time goes on, whatever is lost
  unsent,       \* versions whose broadcast is still to come: <<task, version>>
  seq,          \* ConnectionManager._sequence
  connected,    \* whether the device's socket is open
  link,         \* the messages on their way to it
  received,     \* receivedSnapshot: whether this socket has brought its snapshot
  lastSeq,      \* lastEventSequence
  view,         \* tasks
  stale,
  cache,        \* the tasks of the last refresh, in AsyncStorage
  wanted,       \* whether a refresh is due
  refresh,      \* where each refresh() stands
  answer,       \* the tasks it has been answered with
  missed,       \* history: the broadcast of a change never came to this device
  raced,        \* history: two refreshes were under way at a time
  breaks

storeVars == <<version, stored, changes>>
serverVars == <<storeVars, unsent, seq>>
linkVars == <<connected, link, received, lastSeq>>
viewVars == <<view, stale, cache>>
refreshVars == <<wanted, refresh, answer>>
history == <<missed, raced>>
vars == <<serverVars, linkVars, viewVars, refreshVars, history, breaks>>

Views == [Tasks -> 0 .. MaxChanges]
Messages ==
  [kind : {"snapshot"}, seq : 0 .. MaxChanges, tasks : Views] \union
  [kind : {"event"}, seq : 1 .. MaxChanges, task : Tasks, version : 1 .. MaxChanges]

-----------------------------------------------------------------------------
(* The API.                                                                *)

Versioned(t) ==
  /\ changes < MaxChanges
  /\ changes' = changes + 1
  /\ version' = [version EXCEPT ![t] = changes']

\* A handler or an execution stores a change of the task.
Change(t) ==
  /\ Versioned(t)
  /\ stored' = [stored EXCEPT ![t] = version'[t]]
  /\ unsent' = unsent \union {<<t, version'[t]>>}
  /\ UNCHANGED <<seq, linkVars, viewVars, refreshVars, history, breaks>>

\* The database fails before or after the task was stored: the handler raises
\* with the change in memory, and nothing is broadcast.
StoreFails(t) ==
  /\ Versioned(t)
  /\ stored' = [stored EXCEPT ![t] = version'[t]] \/ UNCHANGED stored
  /\ missed' = TRUE
  /\ UNCHANGED <<unsent, seq, linkVars, viewVars, refreshVars, raced, breaks>>

\* broadcast.  It raises when the socket of an earlier device has gone, and
\* does not come to this one then.
Broadcast(t, v) ==
  /\ <<t, v>> \in unsent
  /\ unsent' = unsent \ {<<t, v>>}
  /\ seq' = seq + 1
  /\ \/ /\ connected
        /\ link' = Append(link, [kind |-> "event", seq |-> seq', task |-> t, version |-> v])
        /\ UNCHANGED missed
     \/ ~connected /\ UNCHANGED <<link, missed>>
     \/ connected /\ missed' = TRUE /\ UNCHANGED link
  /\ UNCHANGED <<storeVars, connected, received, lastSeq, viewVars, refreshVars, raced, breaks>>

\* The API restarts from its database: it counts from 0 again, and what it was
\* about to send is lost.
Restart ==
  /\ breaks < MaxBreaks
  /\ breaks' = breaks + 1
  /\ seq' = 0
  /\ unsent' = {}
  /\ connected' = FALSE
  /\ link' = <<>>
  /\ version' = stored
  /\ UNCHANGED <<stored, changes, received, lastSeq, viewVars, refreshVars, history>>

-----------------------------------------------------------------------------
(* The connection.                                                         *)

\* Mutant: the flag is not per socket.
ReceivedBefore == received

\* receivedSnapshot of a socket that opens.
ReceivedByNewSocket == FALSE

\* A socket opens: the first message is a snapshot, and the app refreshes.
Connect ==
  /\ ~connected
  /\ connected' = TRUE
  /\ received' = ReceivedByNewSocket
  /\ link' = <<[kind |-> "snapshot", seq |-> seq, tasks |-> version]>>
  /\ wanted' = TRUE
  /\ UNCHANGED <<serverVars, lastSeq, viewVars, refresh, answer, history, breaks>>

Drop ==
  /\ connected
  /\ breaks < MaxBreaks
  /\ breaks' = breaks + 1
  /\ connected' = FALSE
  /\ link' = <<>>
  /\ UNCHANGED <<serverVars, received, lastSeq, viewVars, refreshVars, history>>

\* The first snapshot of a socket replaces everything, whatever its sequence
\* number, and a refresh is due; another one counts only if it is newer.
ReceiveSnapshot ==
  /\ link # <<>>
  /\ Head(link).kind = "snapshot"
  /\ link' = Tail(link)
  /\ \/ /\ ~received \/ Head(link).seq > lastSeq
        /\ received' = TRUE
        /\ lastSeq' = Head(link).seq
        /\ view' = Head(link).tasks
        /\ stale' = FALSE
        /\ wanted' = TRUE
     \/ /\ received /\ Head(link).seq <= lastSeq
        /\ UNCHANGED <<received, lastSeq, view, stale, wanted>>
  /\ UNCHANGED <<serverVars, connected, cache, refresh, answer, history, breaks>>

\* mergeTask: an event does not replace a newer task.
Merge(tasks, e) == [tasks EXCEPT ![e.task] = IF @ > e.version THEN @ ELSE e.version]

\* Mutant: only a gap makes a refresh due.
WantedAfterGap(gap) == wanted \/ gap

\* reconcile() after an event that was applied.
WantedAfterEvent(gap) == TRUE

\* An event before the snapshot, or with an old number, is ignored.  Every other
\* makes a refresh due; a gap also marks the data as stale.
ReceiveEvent ==
  /\ link # <<>>
  /\ Head(link).kind = "event"
  /\ link' = Tail(link)
  /\ LET e == Head(link)
         gap == e.seq # lastSeq + 1
     IN  \/ /\ received /\ e.seq > lastSeq
            /\ view' = Merge(view, e)
            /\ lastSeq' = e.seq
            /\ stale' = gap
            /\ wanted' = WantedAfterEvent(gap)
         \/ /\ ~(received /\ e.seq > lastSeq)
            /\ UNCHANGED <<view, lastSeq, stale, wanted>>
  /\ UNCHANGED <<serverVars, connected, received, cache, refresh, answer, history, breaks>>

-----------------------------------------------------------------------------
(* refresh().                                                              *)

Send(r) ==
  /\ refresh[r] = "idle"
  /\ refresh' = [refresh EXCEPT ![r] = "sent"]
  /\ raced' = (raced \/ \E q \in Refreshes : refresh[q] # "idle")
  /\ UNCHANGED <<serverVars, linkVars, viewVars, answer, missed, breaks>>

\* A refresh that is due begins.
RefreshDue(r) ==
  /\ wanted
  /\ wanted' = FALSE
  /\ Send(r)

\* A screen, the user or a timer of the task list asks for one.
Poll(r) ==
  /\ UNCHANGED wanted
  /\ Send(r)

\* The API answers with the tasks as they are.
Answer(r) ==
  /\ refresh[r] = "sent"
  /\ refresh' = [refresh EXCEPT ![r] = "answered"]
  /\ answer' = [answer EXCEPT ![r] = version]
  /\ UNCHANGED <<serverVars, linkVars, viewVars, wanted, history, breaks>>

Forget(r) == answer' = [answer EXCEPT ![r] = [t \in Tasks |-> 0]]

\* Mutant: an answer is only looked at when the data are marked as stale.
ShownWhenStale(r) == IF stale THEN answer[r] ELSE view

\* The tasks that set() puts into the state.
Shown(r) == answer[r]

\* The answer replaces everything that is known.
Apply(r) ==
  /\ refresh[r] = "answered"
  /\ refresh' = [refresh EXCEPT ![r] = "idle"]
  /\ view' = Shown(r)
  /\ cache' = answer[r]
  /\ stale' = FALSE
  /\ Forget(r)
  /\ UNCHANGED <<serverVars, linkVars, wanted, history, breaks>>

\* A request fails or times out: the cached tasks are shown, as stale.
Fail(r) ==
  /\ refresh[r] \in {"sent", "answered"}
  /\ refresh' = [refresh EXCEPT ![r] = "idle"]
  /\ view' = cache
  /\ stale' = TRUE
  /\ Forget(r)
  /\ UNCHANGED <<serverVars, linkVars, cache, wanted, history, breaks>>

-----------------------------------------------------------------------------

\* The app has been used before: its cache holds the tasks as they are.
Init ==
  /\ version = [t \in Tasks |-> 0]
  /\ stored = version
  /\ changes = 0
  /\ unsent = {}
  /\ seq = 0
  /\ connected = FALSE
  /\ link = <<>>
  /\ received = FALSE
  /\ lastSeq = 0
  /\ view = version
  /\ stale = FALSE
  /\ cache = version
  /\ wanted = TRUE
  /\ refresh = [r \in Refreshes |-> "idle"]
  /\ answer = [r \in Refreshes |-> version]
  /\ missed = FALSE
  /\ raced = FALSE
  /\ breaks = 0

Next ==
  \/ \E t \in Tasks : Change(t) \/ StoreFails(t) \/ \E v \in 1 .. MaxChanges : Broadcast(t, v)
  \/ Restart \/ Connect \/ Drop \/ ReceiveSnapshot \/ ReceiveEvent
  \/ \E r \in Refreshes : RefreshDue(r) \/ Poll(r) \/ Answer(r) \/ Apply(r) \/ Fail(r)

Spec == Init /\ [][Next]_vars

\* Messages arrive, a refresh comes to an end within its timeouts, the task list
\* polls every 30 seconds, and the API answers now and then.
Fairness ==
  /\ WF_vars(ReceiveSnapshot) /\ WF_vars(ReceiveEvent)
  /\ WF_vars(\E t \in Tasks, v \in 1 .. MaxChanges : Broadcast(t, v))
  /\ \A r \in Refreshes :
       /\ WF_vars(Answer(r) \/ Apply(r) \/ Fail(r))
       /\ SF_vars(Poll(r) \/ RefreshDue(r))
       /\ SF_vars(Answer(r))
       /\ SF_vars(Apply(r))

FairSpec == Spec /\ Fairness

-----------------------------------------------------------------------------
(* Properties.                                                             *)

\* Every variable holds a value of its kind.
TypeOK ==
  /\ version \in Views
  /\ stored \in Views
  /\ changes \in 0 .. MaxChanges
  /\ unsent \subseteq Tasks \X (1 .. MaxChanges)
  /\ seq \in 0 .. MaxChanges
  /\ connected \in BOOLEAN
  /\ link \in Seq(Messages)
  /\ received \in BOOLEAN
  /\ lastSeq \in 0 .. MaxChanges
  /\ view \in Views
  /\ stale \in BOOLEAN
  /\ cache \in Views
  /\ wanted \in BOOLEAN
  /\ refresh \in [Refreshes -> {"idle", "sent", "answered"}]
  /\ answer \in [Refreshes -> Views]
  /\ missed \in BOOLEAN
  /\ raced \in BOOLEAN
  /\ breaks \in 0 .. MaxBreaks

\* Nothing is under way: the app would say so if its data were not current.
Settled ==
  /\ connected /\ link = <<>> /\ unsent = {}
  /\ ~wanted
  /\ \A r \in Refreshes : refresh[r] = "idle"

\* A connected app in which nothing is under way shows every task as the API
\* has it, or says that its data are stale, whatever snapshots, events and
\* answers have overtaken each other or been ignored: only a change whose broadcast
\* raised or, for want of a database, was never made, and refreshes that overlap,
\* can deceive it.
Fresh ==
  Settled /\ ~stale /\ ~missed /\ ~raced => view = version

\* A snapshot or event that is on its way counts: no message of an open socket is
\* numbered at or below what the app has applied from it.
NothingIsIgnored ==
  received /\ connected => \A i \in DOMAIN link : link[i].seq > lastSeq

\* In the end the app shows the tasks as they are, or says that it does not, in
\* spite of lost events, of old answers that come last, and of changes that a
\* restart has taken back.
CatchesUp ==
  <>[](view = version \/ stale)

=============================================================================
