-------------------------- MODULE SubprocessHandler --------------------------
(***************************************************************************)
(* SubprocessHermesTaskHandler of hermes_extension/host.py: how the bridge *)
(* supervises one Hermes command.  run() waits for the exit, for the       *)
(* "Session:" footer or for the hard limit, whichever comes first.  The    *)
(* close() of the bridge may cancel it once, at whatever await it stands,  *)
(* those of its own except and finally clauses included.                   *)
(***************************************************************************)
EXTENDS HermesChild

\* emit_process_heartbeats: quiet as soon as the exit is known.
Beat ==
  /\ beating
  /\ ~known
  /\ beats < MaxBeats
  /\ beats' = beats + 1
  /\ UNCHANGED <<childVars, known, reader, readVars, events, runVars>>

\* asyncio.wait returned because of the exit or of the footer.
Woken ==
  /\ by = "bridge" /\ phase = "wait"
  /\ known \/ completed
  /\ IF completed /\ ~known
     THEN /\ footer' = TRUE
          /\ child' = IF child = "alive" THEN "dying" ELSE child
          /\ phase' = "terminating"
     ELSE phase' = "gathering" /\ UNCHANGED <<footer, child>>
  /\ UNCHANGED <<code, blocked, said, pipe, known, reader, readVars, beats, events,
                 by, beating, cause, outcome>>

\* run() raises inside its try: what the except clause will find.
Raises(why) ==
  /\ phase' = "unwinding"
  /\ cause' = why
  /\ UNCHANGED <<said, pipe, known, reader, readVars, beats, events,
                 by, beating, footer, outcome>>

\* asyncio.wait returned because of timeout_seconds.
LimitReached ==
  /\ HardLimit
  /\ by = "bridge" /\ phase = "wait"
  /\ ~known /\ ~completed
  /\ Kill
  /\ Raises("limit")

Stopped ==
  /\ by = "bridge" /\ phase = "terminating"
  /\ known
  /\ phase' = "gathering"
  /\ UNCHANGED <<childVars, known, reader, readVars, beats, events,
                 by, beating, footer, cause, outcome>>

\* Mutant: terminate() without the five second limit.
GraceNeverOver == FALSE

\* The child is still there five seconds after SIGTERM.
GraceOver == ~known

\* wait_for cancels the task it waited for, so that awaiting that task again
\* after process.kill() raises CancelledError.
NotStopped ==
  /\ by = "bridge" /\ phase = "terminating"
  /\ GraceOver
  /\ Kill
  /\ Raises("waiter")

\* Mutant: a reader that failed counts as one that has ended.
StreamsSettled == \A s \in Streams : reader[s] \in {"ended", "broken"}

StreamsEnded == \A s \in Streams : reader[s] = "ended"

\* Both readers have ended: what was held back is released unless the footer
\* ended the run, and the exit code decides, unless the run is cancelled while it
\* waits for its helper tasks in the finally clause.
Gathered ==
  /\ by = "bridge" /\ phase = "gathering"
  /\ StreamsEnded
  /\ IF footer
     THEN UNCHANGED <<lines, events>>
     ELSE /\ lines' = [lines EXCEPT !["stderr"] = @ \o candidate]
          /\ events' = IF noisy THEN events ELSE events \o candidate
  /\ beating' = FALSE
  /\ phase' = "ended"
  /\ \/ outcome' = (IF code # 0 /\ ~footer THEN "error" ELSE "result") /\ UNCHANGED cause
     \/ Cancels /\ outcome' = "cancelled" /\ cause' = "cancel"
  /\ UNCHANGED <<childVars, known, reader, candidate, completed, suppress, noisy,
                 beats, by, footer>>

\* asyncio.gather raises what broke a reader, with or without the footer.
GatherRaises ==
  /\ by = "bridge" /\ phase = "gathering"
  /\ \E s \in Streams : reader[s] = "broken"
  /\ UNCHANGED lifeVars
  /\ Raises("reader")

\* The bridge cancels the run at one of the awaits inside the try.
Cancel ==
  /\ Cancels
  /\ by = "bridge" /\ phase \in {"wait", "terminating", "gathering"}
  /\ IF known THEN UNCHANGED lifeVars ELSE Kill
  /\ Raises("cancel")

\* The bridge cancels it while the prompt is written: that is before the try,
\* and nothing stops the child.
CancelPrompt ==
  /\ Cancels
  /\ by = "bridge" /\ phase = "prompt"
  /\ phase' = "ended"
  /\ cause' = "prompt"
  /\ outcome' = "cancelled"
  /\ UNCHANGED <<childVars, known, reader, readVars, beats, events, by, beating, footer>>

\* Mutant: the exception path does not wait for the process it has killed.
LeftToItself == TRUE

Reaped == known

\* except BaseException and finally: the child is reaped, then every helper task
\* is cancelled and waited for.  A cancellation at one of these later awaits only
\* takes the place of what run() was raising.
Unwound ==
  /\ by = "bridge" /\ phase = "unwinding"
  /\ Reaped
  /\ reader' = ReadersCancelled
  /\ beating' = FALSE
  /\ phase' = "ended"
  /\ \/ outcome' = (IF cause \in {"limit", "reader"} THEN "error" ELSE "cancelled") /\ UNCHANGED cause
     \/ Cancels /\ cause # "cancel" /\ outcome' = "cancelled" /\ cause' = "cancel"
  /\ UNCHANGED <<childVars, known, readVars, beats, events, by, footer>>

\* The cancellation comes while the except clause waits for the child that it has
\* killed: the run skips the cancelling of its readers, and only the heartbeat is
\* ended by the finally clause.
Abandoned ==
  /\ Cancels
  /\ by = "bridge" /\ phase = "unwinding"
  /\ ~known /\ cause # "cancel"
  /\ beating' = FALSE
  /\ phase' = "ended"
  /\ cause' = "abandoned"
  /\ outcome' = "cancelled"
  /\ UNCHANGED <<childVars, known, reader, readVars, beats, events, by, footer>>

BridgeNext ==
  \/ Beat
  \/ Woken \/ LimitReached \/ Stopped \/ NotStopped \/ Gathered \/ GatherRaises
  \/ Cancel \/ CancelPrompt \/ Unwound \/ Abandoned

=============================================================================
