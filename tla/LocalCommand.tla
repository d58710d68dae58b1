---------------------------- MODULE LocalCommand ----------------------------
(***************************************************************************)
(* LocalHermesCommandExecutor of hermes_client.py: how the Control API     *)
(* supervises a Hermes command when no bridge is configured.  It waits for *)
(* the exit and for both readers under one hard limit, prompt included;    *)
(* the footer only silences what follows it.                               *)
(***************************************************************************)
EXTENDS HermesChild

\* process.wait() returned.
Exited ==
  /\ by = "api" /\ phase = "wait"
  /\ known
  /\ phase' = "gathering"
  /\ UNCHANGED <<childVars, known, reader, readVars, beats, events,
                 by, beating, footer, cause, outcome>>

\* Both readers have ended: what was held back is released unless the footer
\* was seen, and the exit code decides, with or without the footer.
Finished ==
  /\ by = "api" /\ phase = "gathering"
  /\ \A s \in Streams : reader[s] = "ended"
  /\ IF completed
     THEN UNCHANGED <<lines, events>>
     ELSE /\ lines' = [lines EXCEPT !["stderr"] = @ \o candidate]
          /\ events' = events \o candidate
  /\ phase' = "ended"
  /\ outcome' = IF code # 0 THEN "error" ELSE "result"
  /\ UNCHANGED <<childVars, known, reader, candidate, completed, suppress, noisy,
                 beats, by, beating, footer, cause>>

\* The callback raises for one of the lines that were held back.
ReleaseRaises ==
  /\ by = "api" /\ phase = "gathering"
  /\ \A s \in Streams : reader[s] = "ended"
  /\ ~completed
  /\ lines' = [lines EXCEPT !["stderr"] = @ \o candidate]
  /\ \E n \in DOMAIN candidate : events' = events \o SubSeq(candidate, 1, n)
  /\ phase' = "ended"
  /\ outcome' = "error"
  /\ UNCHANGED <<childVars, known, reader, candidate, completed, suppress, noisy,
                 beats, by, beating, footer, cause>>

\* The gathering raises what broke a reader; the other one goes on.
ReaderFailed ==
  /\ by = "api" /\ phase = "gathering"
  /\ \E s \in Streams : reader[s] = "broken"
  /\ phase' = "ended"
  /\ cause' = "reader"
  /\ outcome' = "error"
  /\ UNCHANGED <<childVars, known, reader, readVars, beats, events, by, beating, footer>>

\* wait_for gives run_process up because of the limit or of a cancellation.
\* Its readers are only cancelled with it when it was gathering them.  process.kill()
\* raises ProcessLookupError, which is then what the caller gets, when the exit is
\* known and the pipes are closed already.
GivenUp ==
  /\ by = "api" /\ phase \in {"prompt", "wait", "gathering"}
  /\ \/ HardLimit /\ cause' = "limit"
     \/ Cancels /\ cause' = "cancel"
  /\ Kill
  /\ reader' = IF phase = "gathering" THEN ReadersCancelled ELSE reader
  /\ \/ phase' = "unwinding" /\ UNCHANGED outcome
     \/ known /\ phase' = "ended" /\ outcome' = "error"
  /\ UNCHANGED <<said, pipe, known, readVars, beats, events, by, beating, footer>>

\* The process is reaped before the exception goes on.
Raised ==
  /\ by = "api" /\ phase = "unwinding"
  /\ known
  /\ phase' = "ended"
  /\ outcome' = IF cause = "limit" THEN "error" ELSE "cancelled"
  /\ UNCHANGED <<childVars, known, reader, readVars, beats, events,
                 by, beating, footer, cause>>

\* The caller cancels the run, perhaps again, while it waits for the process it has
\* killed: it is not waited for any longer.
LeftUnreaped ==
  /\ Cancels
  /\ by = "api" /\ phase = "unwinding"
  /\ ~known
  /\ phase' = "ended"
  /\ cause' = "abandoned"
  /\ outcome' = "cancelled"
  /\ UNCHANGED <<childVars, known, reader, readVars, beats, events, by, beating, footer>>

ApiNext == Exited \/ Finished \/ ReleaseRaises \/ ReaderFailed \/ GivenUp \/ Raised \/ LeftUnreaped

=============================================================================
