----------------------------- MODULE CommandRuns -----------------------------
(***************************************************************************)
(* One Hermes command under either of its supervisors: the bridge's        *)
(* handler (SubprocessHandler) or the Control API's own (LocalCommand).    *)
(***************************************************************************)
EXTENDS SubprocessHandler, LocalCommand

\* The run has ended and the child has gone, or stays without a supervisor.
Over == phase = "ended" /\ UNCHANGED vars

Next == ChildNext \/ BridgeNext \/ ApiNext \/ Over

Spec == Init /\ [][Next]_vars

\* The event loop runs every ready task and its five second timer.  Nothing
\* is assumed of the child but that it writes on when a pipe takes it again,
\* nor that a run is cancelled.
Fairness ==
  /\ WF_vars(Notice) /\ WF_vars(PromptRefused)
  /\ \A s \in Streams :
       /\ WF_vars(ReadLine(s) \/ ReadHuge(s) \/ ReadEnd(s))
       /\ WF_vars(blocked = s /\ \E line \in Lines : Write(s, line))
  /\ WF_vars(Woken) /\ WF_vars(Stopped) /\ WF_vars(NotStopped)
  /\ WF_vars(Gathered \/ GatherRaises) /\ WF_vars(Unwound)
  /\ WF_vars(Exited) /\ WF_vars(Finished \/ ReaderFailed) /\ WF_vars(Raised)

FairSpec == Spec /\ Fairness

-----------------------------------------------------------------------------

\* Every variable keeps its shape, and run() has an outcome when it has ended.
TypeOK ==
  /\ by \in {"bridge", "api"}
  /\ child \in {"alive", "dying", "dead"}
  /\ code \in {0, 1}
  /\ blocked \in Streams \union {"none"}
  /\ said \in [Streams -> Seq(Lines)]
  /\ pipe \in [Streams -> Seq(Lines)]
  /\ known \in BOOLEAN
  /\ reader \in [Streams -> {"idle", "reading", "ended", "broken"}]
  /\ lines \in [Streams -> Seq(Lines)]
  /\ candidate \in Seq(Lines)
  /\ completed \in BOOLEAN
  /\ suppress \in [Streams -> BOOLEAN]
  /\ noisy \in BOOLEAN
  /\ beats \in 0..MaxBeats
  /\ beating \in BOOLEAN
  /\ events \in Seq(Lines)
  /\ phase \in {"prompt", "wait", "terminating", "gathering", "unwinding", "ended"}
  /\ footer \in BOOLEAN
  /\ cause \in {"none", "prompt", "limit", "waiter", "reader", "cancel", "abandoned"}
  /\ outcome \in {"none", "result", "error", "cancelled"}
  /\ phase = "ended" <=> outcome # "none"

\* However a run ends (result, error, hard limit, cancellation at any await), the
\* Hermes process it started is dead, and has been reaped unless it went before it
\* took its prompt or the run was cancelled while it waited for the process it had
\* killed; only the bridge cancelled while it writes the prompt leaves the process
\* running behind.
NoOrphanChild ==
  phase = "ended" =>
    \/ child = "dead" /\ (known \/ cause \in {"prompt", "abandoned"})
    \/ cause = "prompt" /\ outcome = "cancelled"

UpToFooter(sequence) ==
  LET footers == {k \in DOMAIN sequence : sequence[k] = "footer"}
  IN  IF footers = {} THEN sequence
      ELSE SubSeq(sequence, 1, CHOOSE k \in footers : \A j \in footers : k <= j)

\* A result holds every line the child printed on stdout, in order and up to
\* the footer: neither the exit nor the SIGTERM may cut off the tail that is
\* still in the pipe, and a line too long for the reader fails the run.
ResultIsWhole ==
  outcome = "result" /\ ~Contains(said["stderr"], "footer") =>
    lines["stdout"] = UpToFooter(said["stdout"])

\* Once run() has ended no helper task emits anything: an event after it would
\* follow the terminal record of the job (HermesExtensionServer._run_job).  Only
\* readers go on: those of a run of the bridge that was cancelled while it waited
\* for the child it had killed, and those of a command that the Control API gave up.
QuietAfterEnd ==
  [][phase = "ended" /\ (by = "bridge" \/ outcome = "result")
       => beats' = beats /\ (events' = events \/ cause = "abandoned")]_vars

\* A child that writes is never stuck on a full pipe for good, unless a line too
\* long, or a callback that raised, has ended the reader of that pipe or the child
\* does not read its prompt: the two streams are drained independently of each
\* other.
NeverStuck ==
  \A s \in Streams : (blocked = s) ~> (blocked # s \/ reader[s] \in {"broken", "idle"})

\* A run whose child has exited or that was told to stop ends, and so does a
\* run of the bridge that read the footer, even when the child ignores SIGTERM.
RunSettles ==
  (child = "dead" \/ phase = "unwinding" \/ (by = "bridge" /\ completed)) ~> phase = "ended"

\* A run that saw the footer completes with its result, unless the bridge
\* cancelled it (test_host.py, "completes on hermes session footer").
FooterCompletes == by = "bridge" /\ outcome = "cancelled" => cause \in {"cancel", "prompt", "abandoned"}

=============================================================================
