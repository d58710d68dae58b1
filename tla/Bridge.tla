------------------------------ MODULE Bridge -------------------------------
(***************************************************************************)
(* HermesExtensionServer: the local bridge that owns the Hermes jobs.  A   *)
(* job is created by the first connection that submits its request id, is  *)
(* joined by later ones, and outlives them all; its records are streamed   *)
(* to whoever is connected and kept for a replay when it is over.          *)
(*                                                                         *)
(* At most one connection per request id is alive at a time (the executor  *)
(* closes one before it opens the next), so connections are named by their *)
(* request.  The n-th record of a job carries sequence number n: emit      *)
(* counts and appends without an await between the two.                    *)
(***************************************************************************)
EXTENDS Integers, Sequences, SequencesExt

CONSTANTS
  Requests,           \* request ids, the task ids of the API
  BridgeSlots,        \* max_concurrent_tasks of the bridge
  CacheSize,          \* replay_cache_size
  MaxRecords          \* bound: records a job emits before its terminal one

ASSUME BridgeAssumption ==
  /\ BridgeSlots \in Nat \ {0}
  /\ CacheSize \in Nat \ {0}
  /\ MaxRecords \in Nat

VARIABLES
  bridge,       \* the process: "up", "closing" (inside close()) or "down"
  job,          \* the job of each request: out of _jobs when "finished", left there
                \* for ever when "abandoned"
  records,      \* _BridgeJob.records
  queue,        \* the waiters of _task_slots, in order
  slots,        \* the value of _task_slots
  replay,       \* the keys of _replay_cache, oldest first
  kept,         \* the records stored for each of those keys
  condemned,    \* jobs that close() cancelled and waits for
  stream,       \* where _stream_job of the connection stands
  offset,       \* its offset, the records it has drained
  upto,         \* the records it has written, while it drains
  wire,         \* events written to the connection and not yet read
  open,         \* whether the bridge still holds the connection open
  launches,     \* history: how often this bridge process ran Hermes for the request
  bridgeStops   \* history: how often the bridge was stopped

jobVars == <<job, records, queue, slots, launches>>
cacheVars == <<replay, kept>>
streamVars == <<stream, offset, upto, wire, open>>
bridgeVars == <<bridge, jobVars, cacheVars, condemned, streamVars, bridgeStops>>

Terminals == {"completed", "failed"}
Kinds == {"progress"} \union Terminals          \* a heartbeat counts as progress
Live == {"queued", "running", "retiring", "abandoned"}        \* the keys of _jobs

Event(kind, seq) == [kind |-> kind, seq |-> seq]

\* The events of the records from i+1 on, as they are written to a connection.
Numbered(log, i) == [k \in 1..(Len(log) - i) |-> Event(log[i + k], i + k)]

-----------------------------------------------------------------------------
(* Connections.                                                            *)

\* The beginning of _stream_job on a new connection.
Join(r) ==
  /\ stream' = [stream EXCEPT ![r] = "ready"]
  /\ offset' = [offset EXCEPT ![r] = 0]
  /\ upto' = [upto EXCEPT ![r] = 0]
  /\ wire' = [wire EXCEPT ![r] = <<>>]
  /\ open' = [open EXCEPT ![r] = TRUE]

\* The connection gets some events and is closed.
AnswerAndClose(r, events) ==
  /\ stream' = [stream EXCEPT ![r] = "none"]
  /\ offset' = [offset EXCEPT ![r] = 0]
  /\ upto' = [upto EXCEPT ![r] = 0]
  /\ wire' = [wire EXCEPT ![r] = events]
  /\ open' = [open EXCEPT ![r] = FALSE]

NewJob(r) ==
  /\ job' = [job EXCEPT ![r] = "queued"]
  /\ records' = [records EXCEPT ![r] = <<>>]
  /\ queue' = Append(queue, r)
  /\ UNCHANGED <<slots, launches>>

\* The look-up in _replay_cache.
Retained(r) == r \in Range(replay)

\* Mutant: a bridge that is shutting down still takes new work.
RefusesNothing == FALSE

\* The check of _closing, which only a request without a job comes to.
Refuses == bridge = "closing"

\* _handle_client: replay what is retained, else join the job or create it.
\* The refusal of a closing bridge is an event without a sequence number.
Submit(r) ==
  /\ bridge # "down"
  /\ \/ /\ Retained(r)
        /\ AnswerAndClose(r, Numbered(kept[r], 0))
        /\ UNCHANGED jobVars
     \/ /\ ~Retained(r) /\ job[r] \in Live
        /\ Join(r)
        /\ UNCHANGED jobVars
     \/ /\ ~Retained(r) /\ job[r] \notin Live
        /\ \/ /\ Refuses
              /\ AnswerAndClose(r, <<Event("failed", 0)>>)
              /\ UNCHANGED jobVars
           \/ /\ ~Refuses
              /\ NewJob(r)
              /\ Join(r)
  /\ UNCHANGED <<bridge, cacheVars, condemned, bridgeStops>>

\* The other end closed the connection: the stream ends, the job does not.
HangUp(r) ==
  /\ stream' = [stream EXCEPT ![r] = "none"]
  /\ offset' = [offset EXCEPT ![r] = 0]
  /\ upto' = [upto EXCEPT ![r] = 0]
  /\ wire' = [wire EXCEPT ![r] = <<>>]
  /\ open' = [open EXCEPT ![r] = FALSE]

StreamEnds(r) ==
  /\ stream' = [stream EXCEPT ![r] = "none"]
  /\ open' = [open EXCEPT ![r] = FALSE]
  /\ offset' = [offset EXCEPT ![r] = 0]
  /\ upto' = [upto EXCEPT ![r] = 0]
  /\ UNCHANGED wire

\* Mutant: job.changed is cleared after the records were looked at.
WakeupLost(r) == FALSE

\* job.changed was set since the stream began to wait.
Notified(r) == Len(records[r]) > offset[r] \/ job[r] = "finished"

\* _stream_job writes what is new and drains the connection; with nothing new
\* it returns if the job is done, and waits for the next change if it is not.
WriteRecords(r) ==
  /\ \/ stream[r] = "ready"
     \/ stream[r] = "waiting" /\ Notified(r)
  /\ \/ /\ Len(records[r]) > offset[r]
        /\ wire' = [wire EXCEPT ![r] = @ \o Numbered(records[r], offset[r])]
        /\ upto' = [upto EXCEPT ![r] = Len(records[r])]
        /\ stream' = [stream EXCEPT ![r] = "draining"]
        /\ UNCHANGED <<offset, open>>
     \/ /\ Len(records[r]) = offset[r]
        /\ job[r] = "finished"
        /\ StreamEnds(r)
     \/ /\ Len(records[r]) = offset[r]
        /\ job[r] # "finished"
        /\ stream' = [stream EXCEPT ![r] = "waiting"]
        /\ UNCHANGED <<offset, upto, wire, open>>
  /\ UNCHANGED <<bridge, jobVars, cacheVars, condemned, bridgeStops>>

\* The drain is over.  A job that finished meanwhile ends the stream, though
\* records may have been appended since they were last looked at.
Drained(r) ==
  /\ stream[r] = "draining"
  /\ \/ job[r] = "finished" /\ StreamEnds(r)
     \/ /\ job[r] # "finished"
        /\ stream' = [stream EXCEPT ![r] = "ready"]
        /\ offset' = [offset EXCEPT ![r] = upto[r]]
        /\ UNCHANGED <<upto, wire, open>>
  /\ UNCHANGED <<bridge, jobVars, cacheVars, condemned, bridgeStops>>

-----------------------------------------------------------------------------
(* Jobs.                                                                   *)

Emit(r, kind) == records' = [records EXCEPT ![r] = Append(@, kind)]

\* _run_job: the slot is granted, Hermes is launched and the heartbeats begin.
Launch(r) ==
  /\ queue # <<>> /\ Head(queue) = r
  /\ r \notin condemned
  /\ slots > 0
  /\ queue' = Tail(queue)
  /\ slots' = slots - 1
  /\ job' = [job EXCEPT ![r] = "running"]
  /\ launches' = [launches EXCEPT ![r] = @ + 1]
  /\ UNCHANGED <<bridge, records, cacheVars, condemned, streamVars, bridgeStops>>

\* Output of Hermes, or a heartbeat; also while it is being killed.
Progress(r) ==
  /\ job[r] = "running"
  /\ Len(records[r]) < MaxRecords
  /\ Emit(r, "progress")
  /\ UNCHANGED <<bridge, job, queue, slots, launches, cacheVars, condemned, streamVars, bridgeStops>>

\* Mutant: the slot is released by hand, and not when Hermes raised.
ReleasedAfterResult(kind) == IF kind = "completed" THEN slots + 1 ELSE slots

\* The end of "async with self._task_slots".
Released(kind) == slots + 1

\* Hermes returned or raised: the slot is released and the terminal record
\* emitted; the job is done once its heartbeat task has been awaited.
Finish(r, kind) ==
  /\ job[r] = "running"
  /\ r \notin condemned
  /\ Emit(r, kind)
  /\ slots' = Released(kind)
  /\ job' = [job EXCEPT ![r] = "retiring"]
  /\ UNCHANGED <<bridge, queue, launches, cacheVars, condemned, streamVars, bridgeStops>>

\* Hermes' handler raised CancelledError though nobody cancelled the job (SubprocessHandler:
\* the wait that follows its SIGTERM may cancel what it waits for).  _run_job takes that
\* for a shutdown: the slot is released and no terminal record is emitted.
Break(r) ==
  /\ job[r] = "running"
  /\ r \notin condemned
  /\ slots' = slots + 1
  /\ job' = [job EXCEPT ![r] = "retiring"]
  /\ UNCHANGED <<bridge, records, queue, launches, cacheVars, condemned, streamVars, bridgeStops>>

\* close() cancelled the job.  No terminal record is emitted: a job that waits
\* for its slot leaves the queue and is done, and one that runs kills Hermes.
Terminate(r) ==
  /\ r \in condemned
  /\ \/ /\ job[r] = "queued"
        /\ job' = [job EXCEPT ![r] = "finished"]
        /\ queue' = RemoveFirst(queue, r)
        /\ condemned' = condemned \ {r}
        /\ UNCHANGED slots
     \/ /\ job[r] = "running"
        /\ job' = [job EXCEPT ![r] = "retiring"]
        /\ slots' = slots + 1
        /\ UNCHANGED <<queue, condemned>>
  /\ UNCHANGED <<bridge, records, launches, cacheVars, streamVars, bridgeStops>>

\* _store_replay: the newest CacheSize record lists are kept.
StoreReplay(r) ==
  LET keys == Append(RemoveFirst(replay, r), r)
      excess == IF Len(keys) > CacheSize THEN Len(keys) - CacheSize ELSE 0
  IN  /\ replay' = SubSeq(keys, excess + 1, Len(keys))
      /\ kept' = [q \in Requests |-> IF q \notin Range(replay') THEN <<>>
                                      ELSE IF q = r THEN records[r] ELSE kept[q]]

\* The rest of the finally clause: done, retained, and out of _jobs.
Retire(r) ==
  /\ job[r] = "retiring"
  /\ job' = [job EXCEPT ![r] = "finished"]
  /\ \/ records[r] # <<>> /\ StoreReplay(r)
     \/ records[r] = <<>> /\ UNCHANGED cacheVars
  /\ condemned' = condemned \ {r}
  /\ UNCHANGED <<bridge, records, queue, slots, launches, streamVars, bridgeStops>>

-----------------------------------------------------------------------------
(* The process.                                                            *)

\* close(): no new jobs from here on, and every job is cancelled and awaited,
\* with the server still listening.  A job caught in its finally clause is
\* cancelled out of it: it is never done, nor retained, nor out of _jobs.
Close ==
  /\ bridge = "up"
  /\ bridge' = "closing"
  /\ bridgeStops' = bridgeStops + 1
  /\ condemned' = {r \in Requests : job[r] \in {"queued", "running"}}
  /\ job' = [r \in Requests |-> IF job[r] = "retiring" THEN "abandoned" ELSE job[r]]
  /\ UNCHANGED <<records, queue, slots, launches, cacheVars, streamVars>>

\* The jobs are gone: the connections are cut, and the socket is removed.
Closed ==
  /\ bridge = "closing"
  /\ condemned = {}
  /\ bridge' = "down"
  /\ stream' = [r \in Requests |-> "none"]
  /\ open' = [r \in Requests |-> FALSE]
  /\ offset' = [r \in Requests |-> 0]
  /\ upto' = [r \in Requests |-> 0]
  /\ UNCHANGED <<jobVars, cacheVars, condemned, wire, bridgeStops>>

\* systemd starts the bridge again, with nothing in memory.
Restart ==
  /\ bridge = "down"
  /\ bridge' = "up"
  /\ job' = [r \in Requests |-> "none"]
  /\ records' = [r \in Requests |-> <<>>]
  /\ queue' = <<>>
  /\ slots' = BridgeSlots
  /\ replay' = <<>>
  /\ kept' = [r \in Requests |-> <<>>]
  /\ launches' = [r \in Requests |-> 0]
  /\ UNCHANGED <<condemned, streamVars, bridgeStops>>

-----------------------------------------------------------------------------

BridgeInit ==
  /\ bridge = "up"
  /\ job = [r \in Requests |-> "none"]
  /\ records = [r \in Requests |-> <<>>]
  /\ queue = <<>>
  /\ slots = BridgeSlots
  /\ replay = <<>>
  /\ kept = [r \in Requests |-> <<>>]
  /\ condemned = {}
  /\ stream = [r \in Requests |-> "none"]
  /\ offset = [r \in Requests |-> 0]
  /\ upto = [r \in Requests |-> 0]
  /\ wire = [r \in Requests |-> <<>>]
  /\ open = [r \in Requests |-> FALSE]
  /\ launches = [r \in Requests |-> 0]
  /\ bridgeStops = 0

\* What the bridge does of its own accord; connections come and go with the client.
BridgeStep(r) ==
  \/ WriteRecords(r) \/ Drained(r) \/ Launch(r) \/ Progress(r)
  \/ \E kind \in Terminals : Finish(r, kind)
  \/ Break(r) \/ Terminate(r) \/ Retire(r)

BridgeRestart == Closed \/ Restart

=============================================================================
