----------------------------- MODULE HermesChild -----------------------------
(***************************************************************************)
(* A Hermes command and what reads it.  Both the bridge (host.py) and, when *)
(* no bridge is configured, the Control API (hermes_client.py) start the    *)
(* command, write the prompt to its stdin unless it takes it as an          *)
(* argument, and drain its two pipes with a reader task each.  The modules  *)
(* SubprocessHandler and LocalCommand say how each of them supervises it.   *)
(*                                                                         *)
(* What asyncio buffers of a stream counts as part of the pipe.             *)
(***************************************************************************)
EXTENDS Naturals, Sequences, SequencesExt

CONSTANTS
  MaxLines,    \* bound: lines the child writes in all
  MaxBeats,    \* bound: heartbeats of the run
  PipeSize,    \* bound: lines a pipe holds before the child's write blocks
  HardLimit,   \* an operator configured timeout_seconds
  Cancels      \* the run may be cancelled by whoever called it

ASSUME ChildAssumption ==
  /\ MaxLines \in Nat
  /\ MaxBeats \in Nat
  /\ PipeSize \in Nat \ {0}
  /\ HardLimit \in BOOLEAN
  /\ Cancels \in BOOLEAN

Streams == {"stdout", "stderr"}

\* "footer" is a line that names the session, "trace" the first line of a
\* traceback, "noise" the line about the threading shutdown, "huge" a line
\* longer than a StreamReader takes.
Lines == {"text", "footer", "trace", "noise", "huge"}

VARIABLES
  by,          \* who supervises: the "bridge" or the "api" itself
  child,       \* "alive", "dying" after SIGTERM, "dead"
  code,        \* exit code of a dead child: 0, or 1 for any other
  blocked,     \* the stream whose full pipe the child is blocked on
  said,        \* everything the child wrote to each stream, in order (history)
  pipe,        \* what the readers have not read of each stream
  known,       \* process.returncode is set and process.wait() has returned
  reader,      \* state of each read_stream task
  lines,       \* stdout_lines and stderr_lines
  candidate,   \* cleanup_candidate
  completed,   \* completion_event, or semantic_completion
  suppress,    \* suppress_shutdown_noise of each reader
  noisy,       \* shutdown_noise
  beats,       \* heartbeats so far
  beating,     \* the heartbeat task runs
  events,      \* progress lines passed on, in order
  phase,       \* where run() is
  footer,      \* completed_from_footer
  cause,       \* why it unwinds
  outcome      \* what run() returned or raised

lifeVars == <<child, code, blocked>>
childVars == <<lifeVars, said, pipe>>
readVars == <<lines, candidate, completed, suppress, noisy>>
runVars == <<by, beating, phase, footer, cause, outcome>>
vars == <<childVars, known, reader, readVars, beats, events, runVars>>

\* With the prompt as an argument of the command the readers start at once.
Init ==
  /\ by \in {"bridge", "api"}
  /\ child = "alive"
  /\ code = 0
  /\ blocked = "none"
  /\ said = [s \in Streams |-> <<>>]
  /\ pipe = [s \in Streams |-> <<>>]
  /\ known = FALSE
  /\ phase \in {"prompt", "wait"}
  /\ reader = [s \in Streams |-> IF phase = "prompt" THEN "idle" ELSE "reading"]
  /\ lines = [s \in Streams |-> <<>>]
  /\ candidate = <<>>
  /\ completed = FALSE
  /\ suppress = [s \in Streams |-> FALSE]
  /\ noisy = FALSE
  /\ beats = 0
  /\ beating = (phase = "wait" /\ by = "bridge")
  /\ events = <<>>
  /\ footer = FALSE
  /\ cause = "none"
  /\ outcome = "none"

-----------------------------------------------------------------------------
(* The child.  It writes and exits as it likes unless it is blocked, may   *)
(* ignore SIGTERM for as long as it likes, and is noticed by the event     *)
(* loop some time after it is dead.                                        *)

Full(s) == Len(pipe[s]) = PipeSize
MayWrite == child # "dead" /\ Len(said["stdout"]) + Len(said["stderr"]) < MaxLines

Write(s, line) ==
  /\ MayWrite
  /\ blocked \in {"none", s} /\ ~Full(s)
  /\ blocked' = "none"
  /\ said' = [said EXCEPT ![s] = Append(@, line)]
  /\ pipe' = [pipe EXCEPT ![s] = Append(@, line)]
  /\ UNCHANGED <<child, code, known, reader, readVars, beats, events, runVars>>

Block(s) ==
  /\ MayWrite
  /\ blocked = "none" /\ Full(s)
  /\ blocked' = s
  /\ UNCHANGED <<child, code, said, pipe, known, reader, readVars, beats, events, runVars>>

Exit(c) ==
  /\ child = "dying" \/ (child = "alive" /\ blocked = "none")
  /\ child' = "dead"
  /\ code' = c
  /\ blocked' = "none"
  /\ UNCHANGED <<said, pipe, known, reader, readVars, beats, events, runVars>>

Notice ==
  /\ child = "dead"
  /\ ~known
  /\ known' = TRUE
  /\ UNCHANGED <<childVars, reader, readVars, beats, events, runVars>>

\* process.kill(): SIGKILL cannot be ignored.
Kill ==
  IF child = "dead"
  THEN UNCHANGED lifeVars
  ELSE child' = "dead" /\ code' = 1 /\ blocked' = "none"

-----------------------------------------------------------------------------
(* read_stream: a line after the footer is dropped, a traceback on stderr  *)
(* is held back, any other line is kept and passed on; only the bridge     *)
(* silences the noise of a threading shutdown, and only the callback of    *)
(* the Control API, which stores and broadcasts the line, may raise.       *)

Held(s, line) == s = "stderr" /\ (candidate # <<>> \/ line = "trace")

Keep(s, line) ==
  LET noise == by = "bridge" /\ line = "noise"
      quiet == suppress[s] \/ noise
  IN  /\ lines' = [lines EXCEPT ![s] = Append(@, line)]
      /\ completed' = (line = "footer")
      /\ suppress' = [suppress EXCEPT ![s] = quiet]
      /\ noisy' = (noisy \/ noise)
      /\ events' = IF quiet THEN events ELSE Append(events, line)
      /\ UNCHANGED candidate

\* Mutant: stderr is only read when stdout has ended.
InTurn(s) == reader[s] = "reading" /\ (s = "stderr" => reader["stdout"] = "ended")

\* Both readers run at the same time.
Reads(s) == reader[s] = "reading"

ReadLine(s) ==
  /\ Reads(s)
  /\ pipe[s] # <<>>
  /\ LET line == Head(pipe[s])
     IN  /\ line # "huge"
         /\ \/ completed /\ UNCHANGED <<readVars, events>>
            \/ /\ ~completed /\ Held(s, line)
               /\ candidate' = Append(candidate, line)
               /\ UNCHANGED <<lines, completed, suppress, noisy, events>>
            \/ ~completed /\ ~Held(s, line) /\ Keep(s, line)
  /\ pipe' = [pipe EXCEPT ![s] = Tail(@)]
  /\ UNCHANGED <<lifeVars, said, known, reader, beats, runVars>>

\* The callback raises: the line is kept, and the reader is gone before it has
\* looked whether the line is the footer.
CallbackRaises(s) ==
  /\ by = "api" /\ Reads(s)
  /\ pipe[s] # <<>>
  /\ LET line == Head(pipe[s])
     IN  /\ line # "huge" /\ ~completed /\ ~Held(s, line)
         /\ lines' = [lines EXCEPT ![s] = Append(@, line)]
         /\ events' = Append(events, line)
  /\ pipe' = [pipe EXCEPT ![s] = Tail(@)]
  /\ reader' = [reader EXCEPT ![s] = "broken"]
  /\ UNCHANGED <<lifeVars, said, known, candidate, completed, suppress, noisy, beats, runVars>>

\* StreamReader.readline raises ValueError, and with it the reader is gone.
ReadHuge(s) ==
  /\ Reads(s)
  /\ pipe[s] # <<>> /\ Head(pipe[s]) = "huge"
  /\ reader' = [reader EXCEPT ![s] = "broken"]
  /\ UNCHANGED <<childVars, known, readVars, beats, events, runVars>>

ReadEnd(s) ==
  /\ Reads(s)
  /\ pipe[s] = <<>>
  /\ child = "dead"
  /\ reader' = [reader EXCEPT ![s] = "ended"]
  /\ UNCHANGED <<childVars, known, readVars, beats, events, runVars>>

\* Mutant: whoever gives the run up leaves the reader tasks running.
ReadersLeft == reader

\* The reader tasks once they are cancelled and waited for.
ReadersCancelled == [s \in Streams |-> IF reader[s] = "broken" THEN "broken" ELSE "ended"]

-----------------------------------------------------------------------------
(* The prompt on stdin.  A long one is only written when the child reads   *)
(* it; one that fits into the pipe is written whatever the child does.     *)

PromptWritten ==
  /\ phase = "prompt"
  /\ phase' = "wait"
  /\ reader' = [s \in Streams |-> "reading"]
  /\ beating' = (by = "bridge")
  /\ UNCHANGED <<childVars, known, readVars, beats, events, by, footer, cause, outcome>>

\* stdin.drain() raises when the child has gone; neither supervisor catches it.
PromptRefused ==
  /\ phase = "prompt"
  /\ child = "dead"
  /\ phase' = "ended"
  /\ cause' = "prompt"
  /\ outcome' = "error"
  /\ UNCHANGED <<childVars, known, reader, readVars, beats, events, by, beating, footer>>

\* A step of the child, of a reader, or of the writing of the prompt.
ChildNext ==
  \/ \E s \in Streams, line \in Lines : Write(s, line)
  \/ \E s \in Streams : Block(s)
  \/ \E c \in {0, 1} : Exit(c)
  \/ Notice
  \/ \E s \in Streams : ReadLine(s) \/ CallbackRaises(s) \/ ReadHuge(s) \/ ReadEnd(s)
  \/ PromptWritten \/ PromptRefused

=============================================================================
