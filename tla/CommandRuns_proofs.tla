------------------------- MODULE CommandRuns_proofs -------------------------
(***************************************************************************)
(* Proofs about CommandRuns, for any number of lines, any capacity of the  *)
(* pipes, and whether or not there is a hard limit or a cancellation.  The *)
(* inductive invariant says what the supervisor knows of the child and of  *)
(* its own helper tasks in every phase.                                    *)
(***************************************************************************)
EXTENDS CommandRuns, TLAPS

\* Every variable keeps its shape, and run() ends with an outcome.
THEOREM TypeCorrect == Spec => []TypeOK
<1>1. ASSUME Init PROVE TypeOK
  <2>1. \A S : <<>> \in Seq(S)
    OBVIOUS
  <2>2. /\ said \in [Streams -> Seq(Lines)] /\ pipe \in [Streams -> Seq(Lines)]
        /\ lines \in [Streams -> Seq(Lines)] /\ candidate \in Seq(Lines) /\ events \in Seq(Lines)
    BY <1>1, <2>1 DEF Init
  <2>3. beating \in BOOLEAN /\ completed \in BOOLEAN /\ suppress \in [Streams -> BOOLEAN]
    BY <1>1 DEF Init
  <2>4. reader \in [Streams -> {"idle", "reading", "ended", "broken"}] /\ beats \in 0..MaxBeats
    BY <1>1, ChildAssumption DEF Init
  <2> QED
    BY <1>1, <2>2, <2>3, <2>4 DEF Init, TypeOK
<1>2. ASSUME TypeOK, [Next]_vars PROVE TypeOK'
  <2> USE <1>2, ChildAssumption DEF TypeOK, Streams, Lines
  <2> USE DEF lifeVars, childVars, readVars, runVars
  <2>1. CASE ChildNext
    <3>1. CASE \E s \in Streams, line \in Lines : Write(s, line)
      BY <3>1 DEF Write
    <3>2. CASE \E s \in Streams : Block(s)
      BY <3>2 DEF Block
    <3>3. CASE \E c \in {0, 1} : Exit(c)
      BY <3>3 DEF Exit
    <3>4. CASE Notice
      BY <3>4 DEF Notice
    <3>5. ASSUME NEW s \in Streams, ReadLine(s) PROVE TypeOK'
      <4>1. pipe' \in [Streams -> Seq(Lines)] /\ Head(pipe[s]) \in Lines
        BY <3>5 DEF ReadLine, Reads
      <4>2. CASE completed /\ UNCHANGED <<readVars, events>>
        BY <3>5, <4>1, <4>2 DEF ReadLine
      <4>3. CASE /\ candidate' = Append(candidate, Head(pipe[s]))
                 /\ UNCHANGED <<lines, completed, suppress, noisy, events>>
        BY <3>5, <4>1, <4>3 DEF ReadLine
      <4>4. CASE Keep(s, Head(pipe[s]))
        <5>0. Append(lines[s], Head(pipe[s])) \in Seq(Lines) /\ Append(events, Head(pipe[s])) \in Seq(Lines)
          BY <4>1
        <5>1. lines' \in [Streams -> Seq(Lines)] /\ events' \in Seq(Lines)
          BY <4>4, <5>0 DEF Keep
        <5>2. completed' \in BOOLEAN /\ suppress' \in [Streams -> BOOLEAN] /\ noisy' \in BOOLEAN /\ UNCHANGED candidate
          BY <4>4 DEF Keep
        <5>3. UNCHANGED <<lifeVars, said, known, reader, beats, runVars>>
          BY <3>5 DEF ReadLine
        <5> QED
          BY <4>1, <5>1, <5>2, <5>3
      <4> QED
        BY <3>5, <4>2, <4>3, <4>4 DEF ReadLine
    <3>9. ASSUME NEW s \in Streams, CallbackRaises(s) PROVE TypeOK'
      <4>1. /\ pipe' \in [Streams -> Seq(Lines)] /\ Head(pipe[s]) \in Lines
            /\ reader' \in [Streams -> {"idle", "reading", "ended", "broken"}]
        BY <3>9 DEF CallbackRaises, Reads
      <4>2. lines' \in [Streams -> Seq(Lines)] /\ events' \in Seq(Lines)
        BY <3>9, <4>1 DEF CallbackRaises
      <4> QED
        BY <3>9, <4>1, <4>2 DEF CallbackRaises
    <3>6. ASSUME NEW s \in Streams, ReadHuge(s) \/ ReadEnd(s) PROVE TypeOK'
      <4>1. /\ reader' \in [Streams -> {"idle", "reading", "ended", "broken"}]
            /\ UNCHANGED <<childVars, known, readVars, beats, events, runVars>>
        BY <3>6 DEF ReadHuge, ReadEnd
      <4> QED
        BY <4>1
    <3>7. CASE PromptWritten
      <4>1. beating' \in BOOLEAN
        BY <3>7 DEF PromptWritten
      <4> QED
        BY <3>7, <4>1 DEF PromptWritten
    <3>8. CASE PromptRefused
      BY <3>8 DEF PromptRefused
    <3> QED
      BY <2>1, <3>1, <3>2, <3>3, <3>4, <3>5, <3>6, <3>7, <3>8, <3>9 DEF ChildNext
  <2>2. CASE BridgeNext
    <3>1. CASE Beat
      BY <3>1 DEF Beat
    <3>2. CASE Woken
      <4>1. CASE completed /\ ~known
        BY <3>2, <4>1 DEF Woken
      <4>2. CASE ~(completed /\ ~known)
        BY <3>2, <4>2 DEF Woken
      <4> QED
        BY <4>1, <4>2
    <3>7. CASE Stopped
      BY <3>7 DEF Stopped
    <3>3. CASE LimitReached \/ NotStopped \/ GatherRaises \/ Cancel
      BY <3>3 DEF LimitReached, NotStopped, GatherRaises, Cancel, Raises, Kill
    <3>4. CASE Gathered
      <4>1. (lines["stderr"] \o candidate) \in Seq(Lines) /\ (events \o candidate) \in Seq(Lines)
        OBVIOUS
      <4>2. lines' \in [Streams -> Seq(Lines)] /\ events' \in Seq(Lines)
        BY <3>4, <4>1 DEF Gathered
      <4>3. /\ beating' \in BOOLEAN /\ phase' = "ended" /\ outcome' \in {"error", "result", "cancelled"}
            /\ cause' \in {cause, "cancel"}
        BY <3>4 DEF Gathered
      <4>4. UNCHANGED <<childVars, known, reader, candidate, completed, suppress, noisy, beats, by, footer>>
        BY <3>4 DEF Gathered
      <4> QED
        BY <4>2, <4>3, <4>4
    <3>5. CASE CancelPrompt \/ Abandoned
      <4>1. beating' \in BOOLEAN
        BY <3>5 DEF CancelPrompt, Abandoned
      <4> QED
        BY <3>5, <4>1 DEF CancelPrompt, Abandoned
    <3>6. CASE Unwound
      <4>1. reader' \in [Streams -> {"idle", "reading", "ended", "broken"}] /\ beating' \in BOOLEAN
            /\ phase' = "ended" /\ outcome' \in {"error", "cancelled"} /\ cause' \in {cause, "cancel"}
        BY <3>6 DEF Unwound, ReadersCancelled
      <4>2. UNCHANGED <<childVars, known, readVars, beats, events, by, footer>>
        BY <3>6 DEF Unwound
      <4> QED
        BY <4>1, <4>2
    <3> QED
      BY <2>2, <3>1, <3>2, <3>3, <3>4, <3>5, <3>6, <3>7 DEF BridgeNext
  <2>3. CASE ApiNext
    <3>1. CASE Exited \/ ReaderFailed \/ Raised \/ LeftUnreaped
      BY <3>1 DEF Exited, ReaderFailed, Raised, LeftUnreaped
    <3>2. CASE Finished
      <4>1. (lines["stderr"] \o candidate) \in Seq(Lines) /\ (events \o candidate) \in Seq(Lines)
        OBVIOUS
      <4>2. lines' \in [Streams -> Seq(Lines)] /\ events' \in Seq(Lines)
        BY <3>2, <4>1 DEF Finished
      <4> QED
        BY <3>2, <4>2 DEF Finished
    <3>3. CASE GivenUp
      <4>1. reader' \in [Streams -> {"idle", "reading", "ended", "broken"}]
        BY <3>3 DEF GivenUp, ReadersCancelled
      <4> QED
        BY <3>3, <4>1 DEF GivenUp, Kill
    <3>4. ASSUME NEW n \in DOMAIN candidate, ReleaseRaises, events' = events \o SubSeq(candidate, 1, n)
          PROVE  TypeOK'
      <4>0. SubSeq(candidate, 1, n) \in Seq(Lines)
        BY <3>4
      <4>1. (lines["stderr"] \o candidate) \in Seq(Lines) /\ (events \o SubSeq(candidate, 1, n)) \in Seq(Lines)
        BY <4>0
      <4>2. lines' \in [Streams -> Seq(Lines)] /\ events' \in Seq(Lines)
        <5>1. lines' = [lines EXCEPT !["stderr"] = @ \o candidate]
          BY <3>4 DEF ReleaseRaises
        <5> QED
          BY <3>4, <4>1, <5>1
      <4> QED
        <5>1. /\ phase' = "ended" /\ outcome' = "error"
              /\ UNCHANGED <<childVars, known, reader, candidate, completed, suppress, noisy, beats,
                             by, beating, footer, cause>>
          BY <3>4 DEF ReleaseRaises
        <5> QED
          BY <4>2, <5>1
    <3> QED
      BY <2>3, <3>1, <3>2, <3>3, <3>4 DEF ApiNext, ReleaseRaises
  <2>4. CASE UNCHANGED vars
    BY <2>4 DEF vars
  <2> QED
    BY <2>1, <2>2, <2>3, <2>4 DEF Next, Over
<1> QED
  BY <1>1, <1>2, PTL DEF Spec

-----------------------------------------------------------------------------

\* What is known of the child: an exit that has been noticed has happened, the
\* readers are only gathered after it, and a run that unwinds has killed it.
ChildInv ==
  /\ known => child = "dead"
  /\ phase = "gathering" => known
  /\ phase = "unwinding" => child = "dead"

\* The helper tasks: they start with the prompt written, only the bridge beats,
\* and a run that has ended has ended its own, but for the readers of a run that
\* was abandoned and those the Control API left behind.
HelperInv ==
  /\ phase = "prompt" => ~beating /\ \A s \in Streams : reader[s] = "idle"
  /\ by = "api" => ~beating
  /\ phase = "ended" /\ by = "bridge" =>
       ~beating /\ (cause = "abandoned" \/ \A s \in Streams : reader[s] # "reading")
  /\ outcome = "result" => \A s \in Streams : reader[s] = "ended"

RunInv == ChildInv /\ HelperInv /\ NoOrphanChild

\* What a supervisor knows of its child and its helpers holds in every phase.
THEOREM RunInvariant == Spec => []RunInv
<1>1. Init => RunInv
  BY DEF Init, RunInv, ChildInv, HelperInv, NoOrphanChild
<1>2. ASSUME RunInv, TypeOK, [Next]_vars PROVE RunInv'
  <2> SUFFICES ChildInv' /\ HelperInv' /\ NoOrphanChild'
    BY <1>2 DEF RunInv
  <2>0. /\ ChildInv /\ HelperInv /\ NoOrphanChild
        /\ by \in {"bridge", "api"}
        /\ phase = "ended" <=> outcome # "none"
        /\ reader \in [Streams -> {"idle", "reading", "ended", "broken"}]
    BY <1>2 DEF RunInv, TypeOK
  <2> USE <2>0 DEF ChildInv, HelperInv, NoOrphanChild
  <2> USE DEF lifeVars, childVars, readVars, runVars, MayWrite
  <2>1. CASE ChildNext
    <3>1. CASE \E s \in Streams, line \in Lines : Write(s, line)
      BY <3>1 DEF Write
    <3>2. CASE \E s \in Streams : Block(s)
      BY <3>2 DEF Block
    <3>3. CASE \E c \in {0, 1} : Exit(c)
      BY <3>3 DEF Exit
    <3>4. CASE Notice
      BY <3>4 DEF Notice
    <3>5. CASE \E s \in Streams : ReadLine(s)
      BY <3>5 DEF ReadLine
    <3>9. CASE \E s \in Streams : CallbackRaises(s)
      BY <3>9 DEF CallbackRaises, Reads
    <3>6. CASE \E s \in Streams : ReadHuge(s) \/ ReadEnd(s)
      BY <3>6 DEF ReadHuge, ReadEnd, Reads
    <3>7. CASE PromptWritten
      <4>1. phase' # "ended" /\ (by' = "api" => ~beating') /\ outcome' # "result"
        BY <3>7 DEF PromptWritten
      <4> QED
        BY <3>7, <4>1 DEF PromptWritten
    <3>8. CASE PromptRefused
      BY <3>8 DEF PromptRefused
    <3> QED
      BY <2>1, <3>1, <3>2, <3>3, <3>4, <3>5, <3>6, <3>7, <3>8, <3>9 DEF ChildNext
  <2>2. CASE BridgeNext
    <3>1. CASE Beat
      BY <3>1 DEF Beat
    <3>2. CASE Woken \/ Stopped
      BY <3>2 DEF Woken, Stopped
    <3>3. CASE LimitReached \/ NotStopped \/ GatherRaises \/ Cancel
      BY <3>3 DEF LimitReached, NotStopped, GraceOver, GatherRaises, Cancel, Raises, Kill
    <3>4. CASE Gathered
      BY <3>4 DEF Gathered, StreamsEnded
    <3>5. CASE CancelPrompt \/ Abandoned
      BY <3>5 DEF CancelPrompt, Abandoned
    <3>6. CASE Unwound
      BY <3>6 DEF Unwound, Reaped, ReadersCancelled
    <3> QED
      BY <2>2, <3>1, <3>2, <3>3, <3>4, <3>5, <3>6 DEF BridgeNext
  <2>3. CASE ApiNext
    <3>1. CASE Exited \/ ReaderFailed \/ Raised \/ LeftUnreaped
      BY <3>1 DEF Exited, ReaderFailed, Raised, LeftUnreaped
    <3>2. CASE Finished \/ ReleaseRaises
      BY <3>2 DEF Finished, ReleaseRaises
    <3>3. CASE GivenUp
      BY <3>3 DEF GivenUp, Kill, ReadersCancelled
    <3> QED
      BY <2>3, <3>1, <3>2, <3>3 DEF ApiNext
  <2>4. CASE UNCHANGED vars
    BY <2>4 DEF vars
  <2> QED
    BY <1>2, <2>1, <2>2, <2>3, <2>4 DEF Next, Over
<1>3. Spec => []TypeOK
  BY TypeCorrect
<1> QED
  BY <1>1, <1>2, <1>3, PTL DEF Spec

\* However a run ends, under either supervisor, its child is dead, unless the bridge
\* cancelled it while it wrote the prompt, and reaped, unless the run was cancelled
\* while it waited for just that.
THEOREM NoOrphanChildTheorem == Spec => []NoOrphanChild
<1>1. RunInv => NoOrphanChild
  BY DEF RunInv
<1> QED
  BY <1>1, RunInvariant, PTL

\* A run that has ended emits nothing more, but for the readers of a run of the
\* bridge that was abandoned and of a command that the Control API gave up.
THEOREM QuietAfterEndTheorem == Spec => QuietAfterEnd
<1> DEFINE Quiet == phase = "ended" /\ (by = "bridge" \/ outcome = "result")
                      => beats' = beats /\ (events' = events \/ cause = "abandoned")
<1>1. ASSUME TypeOK, RunInv, [Next]_vars PROVE Quiet
  <2> SUFFICES ASSUME phase = "ended", by = "bridge" \/ outcome = "result"
               PROVE  beats' = beats /\ (events' = events \/ cause = "abandoned")
    OBVIOUS
  <2>1. ~beating /\ (cause = "abandoned" \/ \A s \in Streams : reader[s] # "reading")
    BY <1>1 DEF RunInv, TypeOK, HelperInv
  <2> USE DEF lifeVars, childVars, readVars, runVars, vars
  <2>2. CASE ChildNext
    BY <2>1, <2>2 DEF ChildNext, Write, Block, Exit, Notice, ReadLine, Reads, CallbackRaises, ReadHuge,
       ReadEnd,
       PromptWritten, PromptRefused
  <2>3. CASE BridgeNext
    BY <2>1, <2>3 DEF BridgeNext, Beat, Woken, LimitReached, Raises, Stopped, NotStopped, Gathered,
       GatherRaises, Cancel, CancelPrompt, Unwound, Abandoned
  <2>4. CASE ApiNext
    BY <2>4 DEF ApiNext, Exited, Finished, ReleaseRaises, ReaderFailed, GivenUp, Raised, LeftUnreaped
  <2> QED
    BY <1>1, <2>2, <2>3, <2>4 DEF Next, Over
<1> QED
  BY <1>1, TypeCorrect, RunInvariant, PTL DEF Spec, QuietAfterEnd

-----------------------------------------------------------------------------
(* The result.                                                             *)

\* How much of a stream its reader has taken out of the pipe.
Consumed(s) == Len(said[s]) - Len(pipe[s])

\* The pipes hold the end of what was said.
PipeInv ==
  \A s \in Streams :
    /\ Len(pipe[s]) <= Len(said[s])
    /\ \A i \in 1 .. Len(pipe[s]) : pipe[s][i] = said[s][Consumed(s) + i]

SaidFooter(s) == \E i \in 1 .. Len(said[s]) : said[s][i] = "footer"

\* What is kept of stdout is what was read of it, up to the line that completed the
\* run, which was a footer on this stream or on the other, unless the reader of stdout
\* broke.
LinesInv ==
  LET out == lines["stdout"]
  IN  reader["stdout"] # "broken" =>
      /\ Len(out) <= Consumed("stdout")
      /\ \A i \in 1 .. Len(out) : out[i] = said["stdout"][i]
      /\ \A i \in 1 .. Len(out) : out[i] = "footer" => completed /\ i = Len(out)
      /\ ~completed => Len(out) = Consumed("stdout")
      /\ completed => (out # <<>> /\ out[Len(out)] = "footer") \/ SaidFooter("stderr")

\* A reader that has ended, not one that was cancelled, has emptied the pipe of a child
\* that is dead.
EndInv ==
  \A s \in Streams :
    reader[s] = "ended" /\ (phase \in {"unwinding", "ended"} => outcome = "result") =>
      child = "dead" /\ pipe[s] = <<>>

WholeInv == PipeInv /\ LinesInv /\ EndInv

\* A step that concerns one stream leaves the other as it is.
LEMMA OtherPipe ==
  ASSUME PipeInv, NEW s \in Streams,
         \A x \in Streams : x # s => pipe'[x] = pipe[x] /\ said'[x] = said[x] /\ Consumed(x)' = Consumed(x),
         Len(pipe'[s]) <= Len(said'[s]),
         \A i \in 1 .. Len(pipe'[s]) : pipe'[s][i] = said'[s][Consumed(s)' + i]
  PROVE  PipeInv'
<1>1. ASSUME NEW x \in Streams, x # s
      PROVE  /\ Len(pipe'[x]) <= Len(said'[x])
             /\ \A i \in 1 .. Len(pipe'[x]) : pipe'[x][i] = said'[x][Consumed(x)' + i]
  <2>1. pipe'[x] = pipe[x] /\ said'[x] = said[x] /\ Consumed(x)' = Consumed(x)
    BY <1>1
  <2>2. Len(pipe[x]) <= Len(said[x]) /\ \A i \in 1 .. Len(pipe[x]) : pipe[x][i] = said[x][Consumed(x) + i]
    BY DEF PipeInv
  <2> QED
    BY <2>1, <2>2, Zenon
<1> QED
  BY <1>1, Zenon DEF PipeInv

\* A line that is read off a pipe is the next one that was said.
LEMMA ReadFacts ==
  ASSUME TypeOK, PipeInv, NEW s \in Streams, pipe[s] # <<>>,
         pipe' = [pipe EXCEPT ![s] = Tail(@)], said' = said
  PROVE  /\ PipeInv'
         /\ Consumed(s) + 1 \in 1 .. Len(said[s])
         /\ Head(pipe[s]) = said[s][Consumed(s) + 1]
         /\ Consumed(s)' = Consumed(s) + 1
         /\ \A x \in Streams : x # s => Consumed(x)' = Consumed(x)
<1>1. /\ pipe[s] \in Seq(Lines) /\ said[s] \in Seq(Lines)
      /\ pipe \in [Streams -> Seq(Lines)] /\ said \in [Streams -> Seq(Lines)]
  BY DEF TypeOK
<1>2. /\ Len(pipe[s]) \in Nat \ {0} /\ Len(said[s]) \in Nat
      /\ Len(Tail(pipe[s])) = Len(pipe[s]) - 1 /\ Head(pipe[s]) = pipe[s][1]
      /\ \A i \in 1 .. Len(pipe[s]) - 1 : Tail(pipe[s])[i] = pipe[s][i + 1]
  BY <1>1
<1>3. pipe'[s] = Tail(pipe[s]) /\ \A x \in Streams : x # s => pipe'[x] = pipe[x]
  BY <1>1
<1>4. Consumed(s)' = Consumed(s) + 1 /\ \A x \in Streams : x # s => Consumed(x)' = Consumed(x)
  BY <1>1, <1>2, <1>3 DEF Consumed
<1>5. 1 \in 1 .. Len(pipe[s]) /\ Consumed(s) + 1 \in 1 .. Len(said[s])
  BY <1>1, <1>2 DEF PipeInv, Consumed
<1>6. Head(pipe[s]) = said[s][Consumed(s) + 1]
  BY <1>2, <1>5 DEF PipeInv
<1>7. \A i \in 1 .. Len(pipe'[s]) : pipe'[s][i] = said'[s][Consumed(s)' + i]
  <2>1. \A i \in 1 .. Len(pipe[s]) - 1 : i + 1 \in 1 .. Len(pipe[s]) /\ Consumed(s) + (i + 1) = (Consumed(s) + 1) + i
    BY <1>1, <1>2 DEF Consumed
  <2> QED
    BY <1>1, <1>2, <1>3, <1>4, <2>1 DEF PipeInv
<1>8. Len(pipe'[s]) <= Len(said'[s])
  BY <1>2, <1>3 DEF PipeInv
<1>9. PipeInv'
  BY <1>3, <1>4, <1>7, <1>8, OtherPipe
<1> QED
  BY <1>4, <1>5, <1>6, <1>9

\* A step that reads and writes no line.
LEMMA OtherWhole ==
  ASSUME WholeInv, UNCHANGED <<said, pipe, completed>>, lines'["stdout"] = lines["stdout"],
         reader'["stdout"] # "broken" => reader["stdout"] # "broken", EndInv'
  PROVE  WholeInv'
BY DEF WholeInv, PipeInv, LinesInv, Consumed, SaidFooter

\* The invariant behind ResultIsWhole: pipe and kept lines are the two ends of what was
\* said on stdout, and a run with a result has ended its readers.
THEOREM WholeInvariant == Spec => []WholeInv
<1>1. Init => WholeInv
  <2> SUFFICES ASSUME Init PROVE WholeInv
    OBVIOUS
  <2>1. /\ said = [s \in Streams |-> <<>>] /\ pipe = [s \in Streams |-> <<>>] /\ lines = [s \in Streams |-> <<>>]
        /\ completed = FALSE /\ \A s \in Streams : reader[s] # "ended"
    BY DEF Init
  <2>2. Streams = {"stdout", "stderr"} /\ Len(<<>>) = 0 /\ \A s \in Streams : Consumed(s) = 0
    BY <2>1 DEF Streams, Consumed
  <2> QED
    BY <2>1, <2>2 DEF WholeInv, PipeInv, LinesInv, EndInv
<1>2. ASSUME TypeOK, TypeOK', RunInv, WholeInv, [Next]_vars PROVE WholeInv'
  <2> USE <1>2
  <2> USE DEF lifeVars, childVars, readVars, runVars, vars
  <2>0. /\ Streams = {"stdout", "stderr"}
        /\ pipe \in [Streams -> Seq(Lines)] /\ said \in [Streams -> Seq(Lines)]
        /\ lines \in [Streams -> Seq(Lines)] /\ completed \in BOOLEAN
        /\ reader \in [Streams -> {"idle", "reading", "ended", "broken"}]
        /\ phase = "ended" <=> outcome # "none"
    BY DEF TypeOK, Streams
  <2>1. ASSUME NEW s \in Streams, NEW line \in Lines, Write(s, line) PROVE WholeInv'
    <3>1. /\ child # "dead" /\ said' = [said EXCEPT ![s] = Append(@, line)]
          /\ pipe' = [pipe EXCEPT ![s] = Append(@, line)]
          /\ UNCHANGED <<child, reader, lines, completed, phase, outcome>>
      BY <2>1 DEF Write, MayWrite
    <3>2. /\ Len(said[s]) \in Nat /\ Len(pipe[s]) \in Nat
          /\ Len(said'[s]) = Len(said[s]) + 1 /\ Len(pipe'[s]) = Len(pipe[s]) + 1
          /\ \A i \in 1 .. Len(said[s]) : said'[s][i] = said[s][i]
          /\ \A i \in 1 .. Len(pipe[s]) : pipe'[s][i] = pipe[s][i]
          /\ said'[s][Len(said[s]) + 1] = line /\ pipe'[s][Len(pipe[s]) + 1] = line
          /\ \A x \in Streams : x # s => said'[x] = said[x] /\ pipe'[x] = pipe[x]
      BY <2>0, <3>1
    <3>3. \A x \in Streams : Consumed(x)' = Consumed(x)
      BY <2>0, <3>1, <3>2 DEF Consumed
    <3>4. PipeInv'
      <4>1. \A i \in 1 .. Len(pipe'[s]) : pipe'[s][i] = said'[s][Consumed(s) + i]
        <5>1. CASE Len(pipe[s]) <= Len(said[s])
          <6>1. \A i \in 1 .. Len(pipe[s]) : Consumed(s) + i \in 1 .. Len(said[s])
            BY <2>0, <3>2, <5>1 DEF Consumed
          <6>2. Consumed(s) + (Len(pipe[s]) + 1) = Len(said[s]) + 1
            BY <2>0, <3>2 DEF Consumed
          <6>3. \A i \in 1 .. Len(pipe'[s]) : i \in 1 .. Len(pipe[s]) \/ i = Len(pipe[s]) + 1
            BY <3>2
          <6> QED
            BY <3>2, <6>1, <6>2, <6>3 DEF WholeInv, PipeInv
        <5> QED
          BY <5>1 DEF WholeInv, PipeInv
      <4>2. Len(pipe'[s]) <= Len(said'[s])
        BY <3>2 DEF WholeInv, PipeInv
      <4> QED
        BY <3>2, <3>3, <4>1, <4>2, OtherPipe DEF WholeInv
    <3>5. LinesInv'
      <4> SUFFICES ASSUME reader["stdout"] # "broken" PROVE LinesInv'
        BY <3>1 DEF LinesInv
      <4>1. Consumed("stdout") <= Len(said["stdout"]) /\ Len(lines["stdout"]) \in Nat /\ Len(said["stdout"]) \in Nat
            /\ Len(pipe["stdout"]) \in Nat
        BY <2>0 DEF Consumed
      <4>2. \A i \in 1 .. Len(lines["stdout"]) : i \in 1 .. Len(said["stdout"])
        BY <2>0, <4>1 DEF WholeInv, LinesInv, Consumed
      <4>3. \A i \in 1 .. Len(lines["stdout"]) : said'["stdout"][i] = said["stdout"][i]
        BY <2>0, <3>2, <4>2
      <4>4. SaidFooter("stderr") => SaidFooter("stderr")'
        BY <2>0, <3>2 DEF SaidFooter
      <4> QED
        BY <2>0, <3>1, <3>3, <4>3, <4>4 DEF WholeInv, LinesInv
    <3>6. EndInv'
      BY <3>1, <3>2 DEF WholeInv, EndInv
    <3> QED
      BY <3>4, <3>5, <3>6 DEF WholeInv
  <2>2. ASSUME NEW s \in Streams, ReadLine(s) PROVE WholeInv'
    <3>1. /\ reader[s] = "reading" /\ pipe[s] # <<>> /\ pipe' = [pipe EXCEPT ![s] = Tail(@)]
          /\ UNCHANGED <<child, said, reader, phase, outcome>>
      BY <2>2 DEF ReadLine, Reads
    <3>2. /\ PipeInv' /\ Consumed(s)' = Consumed(s) + 1
          /\ \A x \in Streams : x # s => Consumed(x)' = Consumed(x)
          /\ Consumed(s) + 1 \in 1 .. Len(said[s]) /\ Head(pipe[s]) = said[s][Consumed(s) + 1]
      BY <3>1, ReadFacts DEF WholeInv
    <3>3. EndInv'
      <4>1. \A x \in Streams : x # s => pipe'[x] = pipe[x]
        BY <2>0, <3>1
      <4> QED
        BY <3>1, <4>1 DEF WholeInv, EndInv
    <3>4. LinesInv'
      <4> DEFINE out == lines["stdout"]
      <4> SUFFICES ASSUME reader["stdout"] # "broken" PROVE LinesInv'
        BY <3>1 DEF LinesInv
      <4>0. /\ Consumed("stdout") \in Int /\ Len(out) \in Nat /\ out \in Seq(Lines) /\ SaidFooter("stderr")' = SaidFooter("stderr")
            /\ LinesInv
        BY <2>0, <3>1 DEF Consumed, SaidFooter, WholeInv
      <4>1. CASE completed
        <5>1. UNCHANGED <<lines, completed>>
          BY <2>2, <4>1 DEF ReadLine
        <5>2. Len(out) <= Consumed("stdout")'
          BY <2>0, <3>2, <4>0 DEF LinesInv
        <5> QED
          BY <3>1, <4>0, <4>1, <5>1, <5>2 DEF LinesInv
      <4>2. CASE ~completed /\ Held(s, Head(pipe[s]))
        <5>1. s = "stderr" /\ UNCHANGED <<lines, completed>>
          BY <2>2, <4>2 DEF ReadLine, Held, Keep
        <5>2. Consumed("stdout")' = Consumed("stdout")
          BY <2>0, <3>2, <5>1
        <5> QED
          BY <3>1, <4>0, <5>1, <5>2 DEF LinesInv
      <4>3. CASE ~completed /\ ~Held(s, Head(pipe[s]))
        <5>1. /\ lines' = [lines EXCEPT ![s] = Append(@, Head(pipe[s]))]
              /\ completed' = (Head(pipe[s]) = "footer")
          BY <2>2, <4>3 DEF ReadLine, Keep
        <5>2. Len(out) = Consumed("stdout") /\ \A i \in 1 .. Len(out) : out[i] # "footer"
          BY <4>0, <4>3 DEF LinesInv
        <5>3. CASE s = "stdout"
          <6>1. /\ lines'["stdout"] = Append(out, Head(pipe[s])) /\ Len(lines'["stdout"]) = Len(out) + 1
                /\ \A i \in 1 .. Len(out) : lines'["stdout"][i] = out[i]
                /\ lines'["stdout"][Len(out) + 1] = Head(pipe[s])
            BY <2>0, <4>0, <5>1, <5>3
          <6>2. \A i \in 1 .. Len(lines'["stdout"]) : i \in 1 .. Len(out) \/ i = Len(out) + 1
            BY <4>0, <6>1
          <6>3. Len(lines'["stdout"]) = Consumed("stdout")'
            BY <3>2, <5>2, <5>3, <6>1
          <6>4. \A i \in 1 .. Len(lines'["stdout"]) : lines'["stdout"][i] = said["stdout"][i]
            BY <3>2, <4>0, <5>2, <5>3, <6>1, <6>2 DEF LinesInv
          <6>5. \A i \in 1 .. Len(lines'["stdout"]) :
                  lines'["stdout"][i] = "footer" => completed' /\ i = Len(lines'["stdout"])
            BY <5>1, <5>2, <6>1, <6>2
          <6>6. completed' => lines'["stdout"] # <<>> /\ lines'["stdout"][Len(lines'["stdout"])] = "footer"
            <7>1. Append(out, Head(pipe[s])) # <<>>
              BY <4>0
            <7>2. lines'["stdout"][Len(lines'["stdout"])] = Head(pipe[s])
              BY <6>1
            <7> QED
              BY <5>1, <6>1, <7>1, <7>2
          <6> QED
            BY <3>1, <4>0, <6>3, <6>4, <6>5, <6>6 DEF LinesInv
        <5>4. CASE s = "stderr"
          <6>1. lines'["stdout"] = out /\ Consumed("stdout")' = Consumed("stdout")
            BY <2>0, <3>2, <5>1, <5>4
          <6>2. completed' => SaidFooter("stderr")
            BY <3>2, <5>1, <5>4 DEF SaidFooter
          <6> QED
            BY <3>1, <4>0, <4>3, <5>2, <6>1, <6>2 DEF LinesInv
        <5> QED
          BY <2>0, <5>3, <5>4
      <4> QED
        BY <4>1, <4>2, <4>3
    <3> QED
      BY <3>2, <3>3, <3>4 DEF WholeInv
  <2>3. ASSUME NEW s \in Streams, ReadEnd(s) PROVE WholeInv'
    <3>1. /\ pipe[s] = <<>> /\ child = "dead" /\ reader' = [reader EXCEPT ![s] = "ended"]
          /\ reader[s] = "reading"
          /\ UNCHANGED <<child, said, pipe, lines, completed, phase, outcome>>
      BY <2>3 DEF ReadEnd, Reads
    <3>2. EndInv'
      BY <2>0, <3>1 DEF WholeInv, EndInv
    <3> QED
      BY <2>0, <3>1, <3>2, OtherWhole
  <2>4. ASSUME NEW s \in Streams, ReadHuge(s) PROVE WholeInv'
    <3>1. /\ reader' = [reader EXCEPT ![s] = "broken"]
          /\ UNCHANGED <<child, said, pipe, lines, completed, phase, outcome>>
      BY <2>4 DEF ReadHuge
    <3>2. EndInv'
      BY <2>0, <3>1 DEF WholeInv, EndInv
    <3> QED
      BY <3>1, <3>2, OtherWhole
  <2>9. ASSUME NEW s \in Streams, CallbackRaises(s) PROVE WholeInv'
    <3>1. /\ reader[s] = "reading" /\ pipe[s] # <<>> /\ pipe' = [pipe EXCEPT ![s] = Tail(@)]
          /\ reader' = [reader EXCEPT ![s] = "broken"] /\ \A x \in Streams : x # s => lines'[x] = lines[x]
          /\ UNCHANGED <<child, said, completed, phase, outcome>>
      BY <2>0, <2>9 DEF CallbackRaises, Reads
    <3>2. /\ PipeInv' /\ \A x \in Streams : x # s => Consumed(x)' = Consumed(x)
      BY <3>1, ReadFacts DEF WholeInv
    <3>3. \A x \in Streams : x # s => pipe'[x] = pipe[x] /\ reader'[x] = reader[x]
      BY <2>0, <3>1
    <3>4. EndInv'
      BY <2>0, <3>1, <3>3 DEF WholeInv, EndInv
    <3>5. LinesInv'
      BY <2>0, <3>1, <3>2, <3>3 DEF WholeInv, LinesInv, SaidFooter
    <3> QED
      BY <3>2, <3>4, <3>5 DEF WholeInv
  <2>5. CASE \/ (\E s \in Streams : Block(s)) \/ (\E c \in {0, 1} : Exit(c)) \/ Notice \/ PromptRefused
             \/ Beat \/ Woken \/ Stopped \/ LimitReached \/ NotStopped \/ GatherRaises \/ Cancel \/ CancelPrompt
             \/ Abandoned \/ LeftUnreaped \/ Exited \/ ReaderFailed \/ Raised \/ UNCHANGED vars
    <3>1. /\ UNCHANGED <<said, pipe, lines, completed, reader>> /\ (child = "dead" => child' = "dead")
          /\ \/ UNCHANGED <<phase, outcome>>
             \/ phase' = "ended" /\ outcome' \in {"error", "cancelled"}
             \/ phase' = "unwinding" /\ UNCHANGED outcome /\ phase # "ended"
             \/ {phase, phase'} \subseteq {"prompt", "wait", "terminating", "gathering"} /\ UNCHANGED outcome
      BY <2>0, <2>5 DEF Block, Exit, Notice, PromptRefused, Beat, Woken, Stopped, LimitReached, NotStopped, GatherRaises,
         Cancel, CancelPrompt, Abandoned, LeftUnreaped, Exited, ReaderFailed, Raised, Raises, Kill
    <3>2. EndInv'
      BY <2>0, <3>1 DEF WholeInv, EndInv
    <3> QED
      BY <3>1, <3>2, OtherWhole
  <2>6. CASE PromptWritten
    <3>1. /\ UNCHANGED <<said, pipe, lines, completed>> /\ \A s \in Streams : reader'[s] = "reading"
          /\ \A s \in Streams : reader[s] = "idle"
      BY <2>6 DEF PromptWritten, RunInv, HelperInv
    <3>2. EndInv'
      BY <3>1 DEF EndInv
    <3> QED
      BY <2>0, <3>1, <3>2, OtherWhole
  <2>7. CASE Unwound \/ GivenUp
    <3>1. /\ UNCHANGED <<said, pipe, lines, completed>>
          /\ \/ phase' = "ended" /\ outcome' \in {"error", "cancelled"}
             \/ phase' = "unwinding" /\ UNCHANGED outcome /\ phase # "ended"
          /\ reader'["stdout"] # "broken" => reader["stdout"] # "broken"
      BY <2>0, <2>7 DEF Unwound, GivenUp, ReadersCancelled
    <3>2. EndInv'
      BY <2>0, <3>1 DEF EndInv
    <3> QED
      BY <3>1, <3>2, OtherWhole
  <2>8. CASE Gathered \/ Finished \/ ReleaseRaises
    <3>1. /\ UNCHANGED <<said, pipe, completed, child, reader>> /\ phase = "gathering"
          /\ lines' = lines \/ lines' = [lines EXCEPT !["stderr"] = @ \o candidate]
      BY <2>8 DEF Gathered, Finished, ReleaseRaises
    <3>2. lines'["stdout"] = lines["stdout"]
      BY <2>0, <3>1
    <3>3. EndInv'
      BY <3>1 DEF WholeInv, EndInv
    <3> QED
      BY <3>1, <3>2, <3>3, OtherWhole
  <2> QED
    BY <2>1, <2>2, <2>3, <2>4, <2>5, <2>6, <2>7, <2>8, <2>9 DEF Next, Over, ChildNext, BridgeNext, ApiNext
<1> QED
  BY <1>1, <1>2, TypeCorrect, RunInvariant, PTL DEF Spec

\* ResultIsWhole: whatever ends a run with a result, its stdout is all that was printed
\* up to the footer, unless a footer on stderr has silenced both streams.
THEOREM ResultIsWholeTheorem == Spec => []ResultIsWhole
<1>1. TypeOK /\ RunInv /\ WholeInv => ResultIsWhole
  <2> SUFFICES ASSUME TypeOK, RunInv, WholeInv, outcome = "result", ~Contains(said["stderr"], "footer")
               PROVE  lines["stdout"] = UpToFooter(said["stdout"])
    BY DEF ResultIsWhole
  <2> DEFINE out == lines["stdout"]
             all == said["stdout"]
             footers == {k \in DOMAIN all : all[k] = "footer"}
  <2>1. /\ out \in Seq(Lines) /\ all \in Seq(Lines) /\ Len(out) \in Nat /\ Len(all) \in Nat
        /\ DOMAIN all = 1 .. Len(all) /\ DOMAIN out = 1 .. Len(out)
    BY DEF TypeOK, Streams
  <2>2. pipe["stdout"] = <<>> /\ Consumed("stdout") = Len(all) /\ reader["stdout"] # "broken"
    <3>1. pipe["stdout"] = <<>> /\ reader["stdout"] = "ended"
      BY DEF RunInv, HelperInv, WholeInv, EndInv, Streams
    <3> QED
      BY <2>1, <3>1 DEF Consumed
  <2>3. /\ Len(out) <= Len(all)
        /\ \A i \in 1 .. Len(out) : out[i] = all[i] /\ (out[i] = "footer" => completed /\ i = Len(out))
        /\ ~completed => Len(out) = Len(all)
        /\ completed => out # <<>> /\ out[Len(out)] = "footer"
    BY <2>2 DEF WholeInv, LinesInv, SaidFooter, Contains
  <2>4. UpToFooter(all) = IF footers = {} THEN all
                          ELSE SubSeq(all, 1, CHOOSE k \in footers : \A j \in footers : k <= j)
    BY DEF UpToFooter
  <2>5. CASE ~completed
    <3>1. out = all
      BY <2>1, <2>3, <2>5
    <3>2. footers = {}
      BY <2>1, <2>3, <2>5
    <3> QED
      BY <2>4, <3>1, <3>2
  <2>6. CASE completed
    <3>1. Len(out) \in footers /\ Len(out) \in 1 .. Len(all)
      BY <2>1, <2>3, <2>6
    <3>2. \A j \in footers : Len(out) <= j
      <4>1. ASSUME NEW j \in footers, j < Len(out) PROVE FALSE
        BY <2>1, <2>3, <4>1
      <4> QED
        BY <2>1, <4>1
    <3>3. \A k \in footers : (\A j \in footers : k <= j) => k = Len(out)
      BY <2>1, <3>1, <3>2
    <3>4. (CHOOSE k \in footers : \A j \in footers : k <= j) = Len(out)
      BY <3>1, <3>2, <3>3
    <3>5. SubSeq(all, 1, Len(out)) = out
      BY <2>1, <2>3, <3>1
    <3> QED
      BY <2>4, <3>1, <3>4, <3>5
  <2> QED
    BY <2>5, <2>6
<1> QED
  BY <1>1, TypeCorrect, RunInvariant, WholeInvariant, PTL

=============================================================================
