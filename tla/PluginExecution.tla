-------------------------- MODULE PluginExecution --------------------------
(***************************************************************************)
(* HermesPluginExecutor against the bridge: the API submits a task under   *)
(* its stable id, follows the event stream, reconnects once when it breaks *)
(* off, and gives up on a silent bridge.  The API process may die and take *)
(* its tasks up again; a task may be canceled at the API, which closes the *)
(* connection and tells the bridge nothing.                                *)
(***************************************************************************)
EXTENDS Bridge, FiniteSets

CONSTANTS
  ApiSlots,           \* max_concurrent_tasks of the API
  MaxDisruptions,     \* bound: deaths of the API and stops of the bridge together
  Impatient           \* whether the inactivity limit can expire

ASSUME ExecutionAssumption ==
  /\ IsFiniteSet(Requests)
  /\ ApiSlots \in Nat \ {0}
  /\ MaxDisruptions \in Nat
  /\ Impatient \in BOOLEAN

VARIABLES
  client,       \* HermesPluginExecutor.run for each task
  attempt,      \* its loop variable, 0 or 1
  lastSequence, \* last_sequence of _run_once
  outcome,      \* how run ended
  apiRestarts

clientVars == <<client, attempt, lastSequence, outcome>>
vars == <<bridgeVars, clientVars, apiRestarts>>

Busy == {r \in Requests : client[r] \in {"reading", "sleeping"}}

\* run ends and _run_once closes the connection.
End(r, result) ==
  /\ client' = [client EXCEPT ![r] = "done"]
  /\ outcome' = [outcome EXCEPT ![r] = result]
  /\ attempt' = [attempt EXCEPT ![r] = 0]
  /\ lastSequence' = [lastSequence EXCEPT ![r] = 0]
  /\ HangUp(r)

BridgeAside == UNCHANGED <<bridge, jobVars, cacheVars, condemned, bridgeStops>>

-----------------------------------------------------------------------------

\* Mutant: the sequence expected of a new connection continues the old one.
ContinuedSequence(r) == lastSequence[r]

\* last_sequence at the beginning of _run_once.
FirstSequence(r) == 0

\* _run_once sends the request; its sequence check starts afresh.
Connected(r, n) ==
  /\ client' = [client EXCEPT ![r] = "reading"]
  /\ attempt' = [attempt EXCEPT ![r] = n]
  /\ lastSequence' = [lastSequence EXCEPT ![r] = FirstSequence(r)]
  /\ UNCHANGED outcome

\* A task is given an execution slot of the API, or is resumed after its restart.
Start(r) ==
  /\ client[r] = "idle"
  /\ Cardinality(Busy) < ApiSlots
  /\ Submit(r)
  /\ Connected(r, 0)
  /\ UNCHANGED apiRestarts

\* The second and last attempt, with the same request id.
Reconnect(r) ==
  /\ client[r] = "sleeping"
  /\ Submit(r)
  /\ Connected(r, 1)
  /\ UNCHANGED apiRestarts

\* The socket is gone or refuses: not an error that run retries.
ConnectRefused(r) ==
  /\ bridge = "down"
  /\ \/ client[r] = "idle" /\ Cardinality(Busy) < ApiSlots
     \/ client[r] = "sleeping"
  /\ End(r, IF client[r] = "idle" THEN "refused" ELSE "lost")
  /\ BridgeAside
  /\ UNCHANGED apiRestarts

\* A line is read: its sequence number is checked, terminal events end the run.
Receive(r) ==
  /\ client[r] = "reading"
  /\ wire[r] # <<>>
  /\ LET event == Head(wire[r])
         inOrder == event.seq = 0 \/ event.seq = lastSequence[r] + 1
     IN  \/ /\ ~inOrder
            /\ End(r, "invalid")
         \/ /\ inOrder
            /\ event.kind \in Terminals
            /\ End(r, event.kind)
         \/ /\ inOrder
            /\ event.kind \notin Terminals
            /\ lastSequence' = [lastSequence EXCEPT ![r] = event.seq]
            /\ wire' = [wire EXCEPT ![r] = Tail(@)]
            /\ UNCHANGED <<client, attempt, outcome, stream, offset, upto, open>>
  /\ BridgeAside
  /\ UNCHANGED apiRestarts

\* Mutant: a connection that breaks off is final.
NeverReconnects(r) == FALSE

\* The error is retried by the first of the two attempts.
Reconnects(r) == attempt[r] = 0

\* End of file before a terminal event: reconnect once, then give up.
ReadEof(r) ==
  /\ client[r] = "reading"
  /\ wire[r] = <<>>
  /\ ~open[r]
  /\ \/ /\ Reconnects(r)
        /\ client' = [client EXCEPT ![r] = "sleeping"]
        /\ HangUp(r)
        /\ UNCHANGED <<attempt, lastSequence, outcome>>
     \/ /\ ~Reconnects(r)
        /\ End(r, "lost")
  /\ BridgeAside
  /\ UNCHANGED apiRestarts

\* Nothing was received for timeout_seconds.  A running job has heartbeats, so
\* only a job that waits for a slot of the bridge can be silent for so long.
Timeout(r) ==
  /\ Impatient
  /\ client[r] = "reading"
  /\ wire[r] = <<>>
  /\ open[r]
  /\ job[r] = "queued" /\ slots = 0
  /\ End(r, "stale")
  /\ BridgeAside
  /\ UNCHANGED apiRestarts

\* The task is canceled at the API: CancelledError closes the connection.
CancelRun(r) ==
  /\ r \in Busy
  /\ End(r, "canceled")
  /\ BridgeAside
  /\ UNCHANGED apiRestarts

\* The API process dies; the next one resumes what was running.
ApiRestart ==
  /\ apiRestarts + bridgeStops < MaxDisruptions
  /\ apiRestarts' = apiRestarts + 1
  /\ client' = [r \in Requests |-> IF r \in Busy THEN "idle" ELSE client[r]]
  /\ stream' = [r \in Requests |-> "none"]
  /\ offset' = [r \in Requests |-> 0]
  /\ upto' = [r \in Requests |-> 0]
  /\ wire' = [r \in Requests |-> <<>>]
  /\ open' = [r \in Requests |-> FALSE]
  /\ attempt' = [r \in Requests |-> 0]
  /\ lastSequence' = [r \in Requests |-> 0]
  /\ UNCHANGED outcome
  /\ BridgeAside

\* The bridge is told to stop.
StopBridge ==
  /\ apiRestarts + bridgeStops < MaxDisruptions
  /\ Close
  /\ UNCHANGED <<clientVars, apiRestarts>>

-----------------------------------------------------------------------------

Init ==
  /\ BridgeInit
  /\ client = [r \in Requests |-> "idle"]
  /\ attempt = [r \in Requests |-> 0]
  /\ lastSequence = [r \in Requests |-> 0]
  /\ outcome = [r \in Requests |-> "none"]
  /\ apiRestarts = 0

ClientStep(r) ==
  \/ Start(r) \/ Reconnect(r) \/ ConnectRefused(r)
  \/ Receive(r) \/ ReadEof(r) \/ Timeout(r) \/ CancelRun(r)

Next ==
  \/ \E r \in Requests : ClientStep(r)
  \/ \E r \in Requests : BridgeStep(r) /\ UNCHANGED <<clientVars, apiRestarts>>
  \/ StopBridge
  \/ BridgeRestart /\ UNCHANGED <<clientVars, apiRestarts>>
  \/ ApiRestart

Spec == Init /\ [][Next]_vars

\* Both event loops run what is ready, and Hermes runs end.
Fairness ==
  \A r \in Requests :
    /\ WF_vars((WriteRecords(r) \/ Drained(r) \/ Launch(r) \/ Retire(r))
               /\ UNCHANGED <<clientVars, apiRestarts>>)
    /\ WF_vars(((\E kind \in Terminals : Finish(r, kind)) \/ Break(r) \/ Terminate(r))
               /\ UNCHANGED <<clientVars, apiRestarts>>)
    /\ WF_vars(Receive(r) \/ ReadEof(r) \/ Reconnect(r) \/ ConnectRefused(r))
    /\ WF_vars(Closed /\ UNCHANGED <<clientVars, apiRestarts>>)
    /\ SF_vars(Start(r) \/ ConnectRefused(r))

FairSpec == Spec /\ Fairness

-----------------------------------------------------------------------------
(* Properties.                                                             *)

Outcomes == Terminals \union {"none", "refused", "invalid", "lost", "stale", "canceled"}

\* Every variable holds a value of its kind.
TypeOK ==
  /\ bridge \in {"up", "closing", "down"}
  /\ job \in [Requests -> Live \union {"none", "finished"}]
  /\ records \in [Requests -> Seq(Kinds)]
  /\ queue \in Seq(Requests)
  /\ slots \in 0..BridgeSlots
  /\ replay \in Seq(Requests) /\ Len(replay) <= CacheSize
  /\ kept \in [Requests -> Seq(Kinds)]
  /\ condemned \in SUBSET Requests
  /\ stream \in [Requests -> {"none", "ready", "draining", "waiting"}]
  /\ offset \in [Requests -> Nat]
  /\ upto \in [Requests -> Nat]
  /\ wire \in [Requests -> Seq([kind : Kinds, seq : Nat])]
  /\ open \in [Requests -> BOOLEAN]
  /\ launches \in [Requests -> Nat]
  /\ client \in [Requests -> {"idle", "reading", "sleeping", "done"}]
  /\ attempt \in [Requests -> 0..1]
  /\ lastSequence \in [Requests -> Nat]
  /\ outcome \in [Requests -> Outcomes]

\* No interleaving of emitting, draining, joining and replaying shows the
\* executor a gap or a repetition in the sequence numbers, which it would
\* take for a failure of the task.
SequenceAccepted ==
  \A r \in Requests : outcome[r] # "invalid"

\* The slots are those of running jobs, and a slot is never left idle for the
\* job of a client that was canceled, has died or was never heard of again.
BridgeSlotsAccounted ==
  slots + Cardinality({r \in Requests : job[r] = "running"}) = BridgeSlots

\* The run of a request as RunService sees it.
RunOf(r) ==
  CASE job[r] = "none" -> "absent"
    [] job[r] = "queued" -> "accepted"
    [] job[r] = "running" -> "running"
    [] OTHER -> IF records[r] # <<>> /\ Last(records[r]) \in Terminals
                THEN Last(records[r]) ELSE "dropped"

\* As long as the bridge was never stopped, did not run the request again and the
\* run did not break, the API does not fail the task for a lost connection, though
\* _stream_job may return before the last records are written: the replay heals
\* it.  And what the API reports is the result of the job.
OutcomeIsTheJobs ==
  \A r \in Requests : bridgeStops = 0 /\ launches[r] <= 1 /\ RunOf(r) # "dropped" =>
    /\ outcome[r] \notin {"lost", "refused"}
    /\ outcome[r] \in Terminals => records[r] # <<>> /\ Last(records[r]) = outcome[r]

WordOf(r) == {wire[r][k].kind : k \in DOMAIN wire[r]} \intersect Terminals

AnswerOf(r) == IF outcome[r] \in Terminals \union {"none"} THEN outcome[r] ELSE "error"

Runs == [r \in Requests |-> RunOf(r)]
Words == [r \in Requests |-> WordOf(r)]
Answers == [r \in Requests |-> AnswerOf(r)]

Service == INSTANCE RunService WITH
  Retention <- CacheSize, service <- bridge, run <- Runs, word <- Words, answer <- Answers

\* Connections, records, the queue and the replay cache are details of the
\* service of RunService: a run turns from one state to another only as it says,
\* the API hears the verdict of the run itself or none, accepted work that was not
\* launched is dropped only by a bridge that stops, and none is left when it is down.
ImplementsRunService == Service!ServiceSpec

\* The run of a job that a connected bridge has accepted ends with an outcome.
RunEnds ==
  \A r \in Requests : client[r] = "reading" ~> client[r] = "done"

=============================================================================
