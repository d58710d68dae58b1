----------------------- MODULE PluginExecution_proofs -----------------------
(***************************************************************************)
(* Proofs about the bridge and its executor, for any requests, slots,      *)
(* cache and number of restarts.  A first invariant is about the jobs:     *)
(* what the queue, the slots, the replay cache and close() have to do with *)
(* each other.  A second one is about what is on the wire of a connection. *)
(* The outcomes and the refinement of RunService follow from both.         *)
(***************************************************************************)
EXTENDS PluginExecution, FiniteSetTheorems, TLAPS

\* Removing an element that occurs at most once.
LEMMA RemoveOnce ==
  ASSUME NEW S, NEW s \in Seq(S), IsInjective(s), NEW e
  PROVE  /\ RemoveFirst(s, e) \in Seq(S)
         /\ IsInjective(RemoveFirst(s, e))
         /\ Len(RemoveFirst(s, e)) <= Len(s)
         /\ \A i \in 1..Len(RemoveFirst(s, e)) : RemoveFirst(s, e)[i] # e /\ \E j \in 1..Len(s) : RemoveFirst(s, e)[i] = s[j]
         /\ \A j \in 1..Len(s) : s[j] # e => \E i \in 1..Len(RemoveFirst(s, e)) : RemoveFirst(s, e)[i] = s[j]
         /\ (\A i \in 1..Len(s) : s[i] # e) => RemoveFirst(s, e) = s
<1>1. CASE \A i \in 1..Len(s) : s[i] # e
  <2>1. RemoveFirst(s, e) = s
    BY <1>1 DEF RemoveFirst
  <2> QED
    BY <1>1, <2>1
<1>2. ASSUME NEW n \in 1..Len(s), s[n] = e
      PROVE  /\ RemoveFirst(s, e) \in Seq(S)
             /\ Len(RemoveFirst(s, e)) = Len(s) - 1
             /\ \A i \in 1..(Len(s) - 1) : RemoveFirst(s, e)[i] = IF i < n THEN s[i] ELSE s[i + 1]
  <2>1. {i \in 1..Len(s) : s[i] = e} = {n}
    BY <1>2 DEF IsInjective
  <2>2. SelectInSeq(s, LAMBDA v : v = e) = n
    <3>1. n = Min({n})
      BY DEF Min
    <3> QED
      BY <2>1, <3>1 DEF SelectInSeq
  <2>3. RemoveFirst(s, e) = SubSeq(s, 1, n - 1) \o SubSeq(s, n + 1, Len(s))
    BY <1>2, <2>2 DEF RemoveFirst, RemoveAt
  <2> DEFINE before == SubSeq(s, 1, n - 1)
             after == SubSeq(s, n + 1, Len(s))
  <2>4. /\ before \in Seq(S) /\ Len(before) = n - 1 /\ \A i \in 1..(n - 1) : before[i] = s[i]
        /\ after \in Seq(S) /\ Len(after) = Len(s) - n /\ \A i \in 1..(Len(s) - n) : after[i] = s[i + n]
    OBVIOUS
  <2>5. RemoveFirst(s, e) = before \o after
    BY <2>3
  <2> HIDE DEF before, after
  <2>6. before \o after \in Seq(S) /\ Len(before \o after) = Len(s) - 1
    BY <2>4
  <2>7. \A i \in 1..(Len(s) - 1) : (before \o after)[i] = IF i < n THEN s[i] ELSE s[i + 1]
    <3> SUFFICES ASSUME NEW i \in 1..(Len(s) - 1)
                 PROVE  (before \o after)[i] = IF i < n THEN s[i] ELSE s[i + 1]
      OBVIOUS
    <3>1. CASE i < n
      BY <2>4, <3>1
    <3>2. CASE ~(i < n)
      <4>1. i - (n - 1) \in 1..(Len(s) - n) /\ (i - (n - 1)) + n = i + 1
        BY <3>2
      <4>2. (before \o after)[i] = after[i - (n - 1)]
        BY <2>4, <3>2, <4>1
      <4> QED
        BY <2>4, <3>2, <4>1, <4>2
    <3> QED
      BY <3>1, <3>2
  <2> QED
    BY <2>5, <2>6, <2>7
<1>3. CASE \E n \in 1..Len(s) : s[n] = e
  <2>1. PICK n \in 1..Len(s) : s[n] = e
    BY <1>3
  <2>3. RemoveFirst(s, e) \in Seq(S) /\ Len(RemoveFirst(s, e)) = Len(s) - 1
    BY <2>1, <1>2
  <2>4. \A i \in 1..(Len(s) - 1) : RemoveFirst(s, e)[i] = IF i < n THEN s[i] ELSE s[i + 1]
    BY <2>1, <1>2
  <2>5. \A j \in 1..Len(s) : j # n => s[j] # e
    BY <2>1 DEF IsInjective
  <2>6. IsInjective(RemoveFirst(s, e))
    <3> DEFINE at(i) == IF i < n THEN i ELSE i + 1
    <3>1. DOMAIN RemoveFirst(s, e) = 1..(Len(s) - 1)
      BY <2>3
    <3>2. \A i \in 1..(Len(s) - 1) : at(i) \in 1..Len(s) /\ RemoveFirst(s, e)[i] = s[at(i)]
      BY <2>4
    <3>3. \A i, j \in 1..(Len(s) - 1) : at(i) = at(j) => i = j
      OBVIOUS
    <3>4. \A i, j \in 1..Len(s) : s[i] = s[j] => i = j
      BY DEF IsInjective
    <3> HIDE DEF at
    <3>5. \A i, j \in 1..(Len(s) - 1) : RemoveFirst(s, e)[i] = RemoveFirst(s, e)[j] => i = j
      BY <3>2, <3>3, <3>4
    <3> QED
      BY <3>1, <3>5 DEF IsInjective
  <2>7. \A i \in 1..(Len(s) - 1) : RemoveFirst(s, e)[i] # e /\ \E j \in 1..Len(s) : RemoveFirst(s, e)[i] = s[j]
    BY <2>4, <2>5, SMTT(30)
  <2>8. \A j \in 1..Len(s) : s[j] # e => \E i \in 1..(Len(s) - 1) : RemoveFirst(s, e)[i] = s[j]
    <3> SUFFICES ASSUME NEW j \in 1..Len(s), s[j] # e
                 PROVE  \E i \in 1..(Len(s) - 1) : RemoveFirst(s, e)[i] = s[j]
      OBVIOUS
    <3>1. CASE j < n
      BY <2>4, <3>1
    <3>2. CASE j > n
      <4>1. j - 1 \in 1..(Len(s) - 1) /\ ~(j - 1 < n) /\ (j - 1) + 1 = j
        BY <3>2
      <4> QED
        BY <2>4, <4>1
    <3> QED
      BY <2>1, <3>1, <3>2
  <2> QED
    BY <2>1, <2>3, <2>6, <2>7, <2>8
<1> QED
  BY <1>1, <1>3

-----------------------------------------------------------------------------
(* Jobs.                                                                   *)

\* The variables of the jobs hold values of their kinds.
JobTypes ==
  /\ bridge \in {"up", "closing", "down"}
  /\ job \in [Requests -> Live \union {"none", "finished"}]
  /\ records \in [Requests -> Seq(Kinds)]
  /\ queue \in Seq(Requests)
  /\ slots \in Nat
  /\ launches \in [Requests -> Nat]
  /\ condemned \subseteq Requests
  /\ bridgeStops \in Nat

\* The queue holds jobs that wait, each once, and close() waits for all that are
\* not over.
QueueInv ==
  /\ IsInjective(queue)
  /\ \A i \in 1..Len(queue) : job[queue[i]] = "queued"
  /\ condemned # {} => bridge = "closing"
  /\ \A r \in condemned : job[r] \in {"queued", "running", "retiring"}
  /\ bridge # "up" => \A r \in Requests : job[r] \in {"queued", "running", "retiring"} => r \in condemned
  /\ bridgeStops = 0 => bridge = "up"

\* What a job in each state has emitted: only its last record may be terminal.
Log(r) ==
  /\ job[r] \in {"none", "queued"} => records[r] = <<>>
  /\ job[r] = "running" => \A i \in 1..Len(records[r]) : records[r][i] = "progress"
  /\ \A i \in 1..(Len(records[r]) - 1) : records[r][i] = "progress"
  /\ bridgeStops = 0 /\ job[r] \in {"running", "retiring", "finished"} => launches[r] > 0

\* The replay cache holds jobs that are over, each once, with all their records;
\* while the bridge is up, those with records that it does not hold have been
\* pushed out.
CacheInv ==
  /\ replay \in Seq(Requests)
  /\ kept \in [Requests -> Seq(Kinds)]
  /\ IsInjective(replay)
  /\ Len(replay) <= CacheSize
  /\ \A r \in Requests : Retained(r) => job[r] = "finished" /\ kept[r] = records[r] /\ records[r] # <<>>
  /\ \A r \in Requests : bridge = "up" /\ job[r] = "finished" /\ records[r] # <<>> /\ ~Retained(r)
                          => Len(replay) = CacheSize

\* The records of every job.
LogInv == \A r \in Requests : Log(r)

\* The invariant of the jobs, which the slots are part of.
JobInv == JobTypes /\ QueueInv /\ LogInv /\ CacheInv /\ BridgeSlotsAccounted

\* A new job is created.
Create(r) ==
  /\ bridge = "up"
  /\ ~Retained(r) /\ job[r] \notin Live
  /\ NewJob(r)
  /\ UNCHANGED <<bridge, cacheVars, condemned, bridgeStops>>

\* What the bridge does with a job it has.
Serves ==
  \/ \E r \in Requests : Launch(r) \/ Progress(r) \/ Break(r) \/ Terminate(r) \/ Retire(r)
  \/ \E r \in Requests, kind \in Terminals : Finish(r, kind)

\* What a step does to the jobs.
JobStep ==
  \/ BridgeAside
  \/ \E r \in Requests : Create(r)
  \/ Serves
  \/ Close \/ Closed \/ Restart

\* Clients and connections reach the jobs only by creating them.
LEMMA SubmitCreates ==
  ASSUME NEW r \in Requests, bridge \in {"up", "closing", "down"}, Submit(r)
  PROVE  BridgeAside \/ Create(r)
BY DEF Submit, Create, Refuses, BridgeAside, jobVars, cacheVars

\* Every step does one of a few things to the jobs.
LEMMA StepsOfJobs ==
  ASSUME bridge \in {"up", "closing", "down"}, [Next]_vars
  PROVE  JobStep
<1>1. CASE \E r \in Requests : ClientStep(r)
  <2>1. PICK r \in Requests : ClientStep(r)
    BY <1>1
  <2>2. CASE Start(r) \/ Reconnect(r)
    BY <2>2, SubmitCreates DEF Start, Reconnect, JobStep
  <2>3. CASE ConnectRefused(r) \/ Receive(r) \/ ReadEof(r) \/ Timeout(r) \/ CancelRun(r)
    BY <2>3 DEF ConnectRefused, Receive, ReadEof, Timeout, CancelRun, JobStep
  <2> QED
    BY <2>1, <2>2, <2>3 DEF ClientStep
<1>2. CASE \E r \in Requests : BridgeStep(r) /\ UNCHANGED <<clientVars, apiRestarts>>
  <2>1. PICK r \in Requests : BridgeStep(r)
    BY <1>2
  <2>2. CASE WriteRecords(r) \/ Drained(r)
    BY <2>2 DEF WriteRecords, Drained, JobStep, BridgeAside
  <2> QED
    BY <2>1, <2>2 DEF BridgeStep, JobStep, Serves
<1>3. CASE UNCHANGED vars
  BY <1>3 DEF vars, bridgeVars, BridgeAside, JobStep
<1>4. CASE StopBridge \/ ApiRestart \/ BridgeRestart
  BY <1>4 DEF StopBridge, ApiRestart, BridgeRestart, JobStep
<1> QED
  BY <1>1, <1>2, <1>3, <1>4 DEF Next

\* A step that leaves the replay cache alone, and what it holds.
LEMMA CacheKept ==
  ASSUME CacheInv, UNCHANGED cacheVars,
         \A q \in Requests : Retained(q) => job'[q] = job[q] /\ records'[q] = records[q],
         \A q \in Requests : bridge' = "up" /\ job'[q] = "finished" /\ records'[q] # <<>>
                               => bridge = "up" /\ job[q] = "finished" /\ records[q] # <<>>
  PROVE  CacheInv'
BY DEF CacheInv, Retained, cacheVars

\* The number of running jobs.
LEMMA Running ==
  ASSUME JobTypes, JobTypes',
         NEW r \in Requests, \A q \in Requests \ {r} : job'[q] = job[q], BridgeSlotsAccounted,
         \/ job[r] = "running" /\ job'[r] # "running" /\ slots' = slots + 1
         \/ job[r] # "running" /\ job'[r] = "running" /\ slots' = slots - 1
         \/ (job[r] = "running" <=> job'[r] = "running") /\ slots' = slots
  PROVE  BridgeSlotsAccounted'
<1> DEFINE R == {q \in Requests : job[q] = "running"}
           S == {q \in Requests : job'[q] = "running"}
<1>1. IsFiniteSet(R) /\ Cardinality(R) \in Nat /\ IsFiniteSet(S) /\ Cardinality(S) \in Nat
  BY ExecutionAssumption, FS_Subset, FS_CardinalityType
<1>2. slots + Cardinality(R) = BridgeSlots
  BY DEF BridgeSlotsAccounted
<1>3. slots' + Cardinality(S) = BridgeSlots
  <2>1. CASE job[r] = "running" /\ job'[r] # "running" /\ slots' = slots + 1
    <3>1. S = R \ {r} /\ r \in R
      BY <2>1
    <3>2. Cardinality(S) = Cardinality(R) - 1
      BY <1>1, <3>1, FS_RemoveElement
    <3> QED
      BY <1>1, <1>2, <2>1, <3>2 DEF JobTypes
  <2>2. CASE job[r] # "running" /\ job'[r] = "running" /\ slots' = slots - 1
    <3>1. S = R \union {r} /\ r \notin R
      BY <2>2
    <3>2. Cardinality(S) = Cardinality(R) + 1
      BY <1>1, <3>1, FS_AddElement
    <3> QED
      BY <1>1, <1>2, <2>2, <3>2 DEF JobTypes
  <2>3. CASE (job[r] = "running" <=> job'[r] = "running") /\ slots' = slots
    <3>1. S = R
      BY <2>3
    <3> QED
      BY <1>2, <2>3, <3>1
  <2> QED
    BY <2>1, <2>2, <2>3
<1> QED
  BY <1>3 DEF BridgeSlotsAccounted

\* A bridge begins without jobs.
LEMMA JobsBegin == Init => JobInv
<1> SUFFICES ASSUME Init PROVE JobInv
  OBVIOUS
<1> USE DEF Init, BridgeInit
<1>1. JobTypes
  BY BridgeAssumption DEF JobTypes
<1>2. QueueInv /\ LogInv
  BY DEF QueueInv, IsInjective, LogInv, Log
<1>3. CacheInv
  BY BridgeAssumption DEF CacheInv, IsInjective, Retained, Range
<1>4. BridgeSlotsAccounted
  <2>1. {r \in Requests : job[r] = "running"} = {}
    OBVIOUS
  <2>2. Cardinality({r \in Requests : job[r] = "running"}) = 0 /\ slots = BridgeSlots /\ BridgeSlots \in Nat
    BY <2>1, FS_EmptySet, BridgeAssumption
  <2> QED
    BY <2>2 DEF BridgeSlotsAccounted
<1> QED
  BY <1>1, <1>2, <1>3, <1>4 DEF JobInv

\* A new job waits at the end of the queue.
LEMMA CreateKeeps ==
  ASSUME JobInv, NEW r \in Requests, Create(r)
  PROVE  JobInv'
<1> USE DEF JobInv, Create, NewJob
<1>1. JobTypes'
  BY DEF JobTypes, Live
<1>2. QueueInv'
  <2>1. \A i \in 1..Len(queue) : queue[i] # r
    BY DEF QueueInv, Live
  <2>2. /\ Len(queue') = Len(queue) + 1 /\ queue'[Len(queue) + 1] = r
        /\ \A i \in 1..Len(queue) : queue'[i] = queue[i]
    BY DEF JobTypes
  <2>3. IsInjective(queue')
    BY <1>1, <2>1, <2>2, SMTT(30) DEF QueueInv, IsInjective, JobTypes
  <2>4. \A i \in 1..Len(queue') : job'[queue'[i]] = "queued"
    BY <2>1, <2>2 DEF QueueInv, JobTypes
  <2> QED
    BY <2>3, <2>4 DEF QueueInv, JobTypes, Live
<1>3. LogInv'
  <2> SUFFICES ASSUME NEW q \in Requests PROVE Log(q)'
    BY DEF LogInv
  <2>1. Log(q)
    BY DEF LogInv
  <2> QED
    BY <2>1 DEF Log, JobTypes
<1>4. CacheInv'
  BY CacheKept DEF JobTypes, CacheInv
<1>5. BridgeSlotsAccounted'
  <2>1. job'[r] = "queued" /\ job[r] # "running" /\ \A q \in Requests \ {r} : job'[q] = job[q]
    BY DEF JobTypes, Live
  <2> QED
    BY <1>1, <2>1, Running
<1> QED
  BY <1>1, <1>2, <1>3, <1>4, <1>5

\* The first of the queue takes a slot and leaves the queue.
LEMMA LaunchKeeps ==
  ASSUME JobInv, NEW r \in Requests, Launch(r)
  PROVE  JobInv'
<1> USE DEF JobInv, Launch
<1>1. JobTypes'
  BY DEF JobTypes, Live
<1>2. /\ Len(queue') = Len(queue) - 1 /\ queue[1] = r /\ Len(queue) >= 1
      /\ \A i \in 1..(Len(queue) - 1) : queue'[i] = queue[i + 1]
  BY DEF JobTypes
<1>3. job[r] = "queued"
  BY <1>2 DEF QueueInv, JobTypes
<1>4. QueueInv'
  <2>0. \A i, j \in 1..Len(queue) : queue[i] = queue[j] => i = j
    <3>1. IsInjective(queue) /\ DOMAIN queue = 1..Len(queue)
      BY DEF QueueInv, JobTypes
    <3> QED
      BY <3>1 DEF IsInjective
  <2>1. IsInjective(queue')
    <3> SUFFICES ASSUME NEW i \in 1..Len(queue'), NEW j \in 1..Len(queue'), queue'[i] = queue'[j]
                 PROVE  i = j
      <4>1. DOMAIN queue' = 1..Len(queue')
        BY <1>1 DEF JobTypes
      <4> QED
        BY <4>1 DEF IsInjective
    <3>1. i + 1 \in 1..Len(queue) /\ j + 1 \in 1..Len(queue)
      BY <1>2 DEF JobTypes
    <3>2. i + 1 = j + 1
      BY <1>2, <2>0, <3>1
    <3> QED
      BY <3>2
  <2>2. \A i \in 1..Len(queue') : job'[queue'[i]] = "queued"
    <3> SUFFICES ASSUME NEW i \in 1..Len(queue') PROVE job'[queue'[i]] = "queued"
      OBVIOUS
    <3>1. i + 1 \in 1..Len(queue) /\ i + 1 # 1 /\ 1 \in 1..Len(queue)
      BY <1>2 DEF JobTypes
    <3>2. queue[i + 1] # r /\ queue[i + 1] \in Requests /\ queue'[i] = queue[i + 1]
      <4>1. queue'[i] = queue[i + 1]
        BY <1>2
      <4>2. queue[i + 1] # queue[1]
        BY <2>0, <3>1
      <4> QED
        BY <1>2, <3>1, <4>1, <4>2 DEF JobTypes
    <3> QED
      BY <3>1, <3>2 DEF QueueInv, JobTypes
  <2> QED
    BY <1>3, <2>1, <2>2 DEF QueueInv, JobTypes
<1>5. LogInv'
  <2> SUFFICES ASSUME NEW q \in Requests PROVE Log(q)'
    BY DEF LogInv
  <2>1. Log(q) /\ Log(r)
    BY DEF LogInv
  <2>2. /\ bridge' = bridge /\ bridgeStops' = bridgeStops /\ records' = records
        /\ launches[q] \in Nat /\ launches'[q] = (IF q = r THEN launches[q] + 1 ELSE launches[q])
        /\ job'[q] = (IF q = r THEN "running" ELSE job[q])
    BY DEF JobTypes
  <2>3. CASE q = r
    BY <1>3, <2>1, <2>2, <2>3 DEF Log
  <2>4. CASE q # r
    BY <2>1, <2>2, <2>4 DEF Log
  <2> QED
    BY <2>3, <2>4
<1>6. CacheInv'
  BY <1>3, CacheKept DEF JobTypes, CacheInv
<1>7. BridgeSlotsAccounted'
  <2>1. job'[r] = "running" /\ \A q \in Requests \ {r} : job'[q] = job[q]
    BY DEF JobTypes
  <2> QED
    BY <1>1, <1>3, <2>1, Running
<1> QED
  BY <1>1, <1>4, <1>5, <1>6, <1>7

\* A running job emits a record that is not terminal.
LEMMA ProgressKeeps ==
  ASSUME JobInv, NEW r \in Requests, Progress(r)
  PROVE  JobInv'
<1> USE DEF JobInv, Progress, Emit
<1>1. JobTypes'
  BY DEF JobTypes, Kinds
<1>2. QueueInv'
  BY DEF QueueInv
<1>3. LogInv'
  <2> SUFFICES ASSUME NEW q \in Requests PROVE Log(q)'
    BY DEF LogInv
  <2>1. Log(q)
    BY DEF LogInv
  <2> QED
    BY <2>1 DEF Log, JobTypes
<1>4. CacheInv'
  BY CacheKept DEF JobTypes, CacheInv
<1>5. BridgeSlotsAccounted'
  BY DEF BridgeSlotsAccounted
<1> QED
  BY <1>1, <1>2, <1>3, <1>4, <1>5

\* A job gives its slot back with its terminal record.
LEMMA FinishKeeps ==
  ASSUME JobInv, NEW r \in Requests, NEW kind \in Terminals, Finish(r, kind)
  PROVE  JobInv'
<1> USE DEF JobInv, Finish, Emit
<1>1. JobTypes'
  BY DEF JobTypes, Kinds, Released, Live
<1>2. QueueInv'
  BY DEF QueueInv, JobTypes
<1>3. LogInv'
  <2> SUFFICES ASSUME NEW q \in Requests PROVE Log(q)'
    BY DEF LogInv
  <2>1. Log(q)
    BY DEF LogInv
  <2>2. CASE q = r
    <3>1. /\ records'[r] = Append(records[r], kind) /\ records[r] \in Seq(Kinds) /\ kind \in Kinds
          /\ job'[r] = "retiring"
      BY DEF JobTypes, Kinds
    <3>2. records'[r] # <<>> /\ Last(records'[r]) = kind
      BY <3>1 DEF Last
    <3>3. \A i \in 1..(Len(records'[r]) - 1) : records'[r][i] = "progress"
      BY <2>1, <2>2, <3>1 DEF Log
    <3>4. bridgeStops' = 0 => launches'[r] > 0
      BY <2>1, <2>2 DEF Log, JobTypes
    <3> QED
      BY <2>2, <3>1, <3>2, <3>3, <3>4 DEF Log
  <2>3. CASE q # r
    BY <2>1, <2>3 DEF Log, JobTypes
  <2> QED
    BY <2>2, <2>3
<1>4. CacheInv'
  BY CacheKept DEF JobTypes, CacheInv
<1>5. BridgeSlotsAccounted'
  <2>1. job'[r] # "running" /\ \A q \in Requests \ {r} : job'[q] = job[q]
    BY DEF JobTypes
  <2> QED
    BY <1>1, <2>1, Running DEF Released
<1> QED
  BY <1>1, <1>2, <1>3, <1>4, <1>5

\* A job whose run broke gives its slot back.
LEMMA BreakKeeps ==
  ASSUME JobInv, NEW r \in Requests, Break(r)
  PROVE  JobInv'
<1> USE DEF JobInv, Break
<1>1. JobTypes'
  BY DEF JobTypes, Live
<1>2. QueueInv'
  BY DEF QueueInv, JobTypes
<1>3. LogInv'
  BY DEF LogInv, Log, JobTypes
<1>4. CacheInv'
  BY CacheKept DEF JobTypes, CacheInv
<1>5. BridgeSlotsAccounted'
  <2>1. job'[r] # "running" /\ \A q \in Requests \ {r} : job'[q] = job[q]
    BY DEF JobTypes
  <2> QED
    BY <1>1, <2>1, Running
<1> QED
  BY <1>1, <1>2, <1>3, <1>4, <1>5

\* A job that close() cancelled gives its slot back or leaves the queue.
LEMMA TerminateKeeps ==
  ASSUME JobInv, NEW r \in Requests, Terminate(r)
  PROVE  JobInv'
<1> USE DEF JobInv, Terminate
<1>0. bridge = "closing" /\ bridgeStops # 0
  BY DEF QueueInv
<1>1. CASE job[r] = "queued" /\ queue' = RemoveFirst(queue, r) /\ job' = [job EXCEPT ![r] = "finished"] /\ condemned' = condemned \ {r} /\ UNCHANGED slots
  <2>1. /\ queue' \in Seq(Requests) /\ IsInjective(queue')
        /\ \A i \in 1..Len(queue') : queue'[i] # r /\ \E j \in 1..Len(queue) : queue'[i] = queue[j]
    <3>1. queue \in Seq(Requests) /\ IsInjective(queue)
      BY DEF QueueInv, JobTypes
    <3> QED
      BY <1>1, <3>1, RemoveOnce
  <2>2. JobTypes'
    BY <1>1, <2>1 DEF JobTypes
  <2>3. QueueInv'
    <3>1. \A i \in 1..Len(queue') : job'[queue'[i]] = "queued"
      <4> SUFFICES ASSUME NEW i \in 1..Len(queue') PROVE job'[queue'[i]] = "queued"
        OBVIOUS
      <4>1. PICK j \in 1..Len(queue) : queue'[i] = queue[j]
        BY <2>1
      <4>2. queue[j] \in Requests /\ queue[j] # r /\ job[queue[j]] = "queued"
        <5>1. queue[j] \in Requests
          BY DEF JobTypes
        <5>2. queue[j] # r
          BY <2>1, <4>1
        <5> QED
          BY <5>1, <5>2 DEF QueueInv
      <4> QED
        BY <1>1, <4>1, <4>2 DEF JobTypes
    <3> QED
      BY <1>0, <1>1, <2>1, <3>1 DEF QueueInv, JobTypes
  <2>4. LogInv'
    BY <1>0, <1>1 DEF LogInv, Log, JobTypes
  <2>5. CacheInv'
    BY <1>0, <1>1, CacheKept DEF JobTypes, CacheInv
  <2>6. BridgeSlotsAccounted'
    <3>1. job'[r] # "running" /\ \A q \in Requests \ {r} : job'[q] = job[q]
      BY <1>1 DEF JobTypes
    <3> QED
      BY <1>1, <2>2, <3>1, Running
  <2> QED
    BY <2>2, <2>3, <2>4, <2>5, <2>6
<1>2. CASE job[r] = "running" /\ job' = [job EXCEPT ![r] = "retiring"] /\ slots' = slots + 1 /\ UNCHANGED <<queue, condemned>>
  <2>2. JobTypes'
    BY <1>2 DEF JobTypes, Live
  <2>3. QueueInv'
    BY <1>0, <1>2 DEF QueueInv, JobTypes
  <2>4. LogInv'
    BY <1>0, <1>2 DEF LogInv, Log, JobTypes
  <2>5. CacheInv'
    BY <1>0, <1>2, CacheKept DEF JobTypes, CacheInv
  <2>6. BridgeSlotsAccounted'
    <3>1. job'[r] # "running" /\ \A q \in Requests \ {r} : job'[q] = job[q]
      BY <1>2 DEF JobTypes
    <3> QED
      BY <1>2, <2>2, <3>1, Running
  <2> QED
    BY <2>2, <2>3, <2>4, <2>5, <2>6
<1> QED
  BY <1>1, <1>2

\* What is pushed out of the cache when r, which it does not hold, is stored.
LEMMA Stored ==
  ASSUME JobInv, NEW r \in Requests, ~Retained(r), StoreReplay(r)
  PROVE  /\ replay' \in Seq(Requests) /\ IsInjective(replay') /\ Len(replay') <= CacheSize
         /\ r \in Range(replay')
         /\ \A q \in Requests \ {r} : q \in Range(replay') => Retained(q)
         /\ Len(replay) = CacheSize \/ (\E q \in Requests \ {r} : Retained(q) /\ q \notin Range(replay'))
              => Len(replay') = CacheSize
         /\ kept' \in [Requests -> Seq(Kinds)]
         /\ \A q \in Requests : q \in Range(replay') => kept'[q] = IF q = r THEN records[r] ELSE kept[q]
<1> USE DEF JobInv, CacheInv
<1> DEFINE keys == Append(replay, r)
           excess == IF Len(keys) > CacheSize THEN Len(keys) - CacheSize ELSE 0
<1>1. replay \in Seq(Requests) /\ Len(replay) \in Nat /\ CacheSize \in Nat \ {0}
  BY BridgeAssumption
<1>2. \A i \in 1..Len(replay) : replay[i] # r
  BY <1>1 DEF Retained, Range
<1>3. RemoveFirst(replay, r) = replay
  BY <1>1, <1>2, RemoveOnce
<1>4. /\ replay' = SubSeq(keys, excess + 1, Len(keys))
      /\ kept' = [q \in Requests |-> IF q \notin Range(replay') THEN <<>>
                                      ELSE IF q = r THEN records[r] ELSE kept[q]]
  BY <1>3 DEF StoreReplay
<1>5. /\ keys \in Seq(Requests) /\ Len(keys) = Len(replay) + 1
      /\ \A i \in 1..Len(replay) : keys[i] = replay[i]
      /\ keys[Len(keys)] = r
  BY <1>1
<1>6. excess \in Nat /\ excess < Len(keys) /\ Len(keys) - excess <= CacheSize
      /\ (excess > 0 => Len(keys) - excess = CacheSize)
  BY <1>1, <1>5
<1> HIDE DEF keys, excess
<1>7. \A i, j \in 1..Len(keys) : keys[i] = keys[j] => i = j
  <2> SUFFICES ASSUME NEW i \in 1..Len(keys), NEW j \in 1..Len(keys), keys[i] = keys[j]
               PROVE  i = j
    OBVIOUS
  <2>1. i = Len(keys) \/ i \in 1..Len(replay)
    BY <1>1, <1>5
  <2>2. j = Len(keys) \/ j \in 1..Len(replay)
    BY <1>1, <1>5
  <2>3. \A m, n \in 1..Len(replay) : replay[m] = replay[n] => m = n
    BY <1>1 DEF IsInjective
  <2> QED
    BY <1>2, <1>5, <2>1, <2>2, <2>3
<1>8. /\ replay' \in Seq(Requests) /\ Len(replay') = Len(keys) - excess
      /\ \A i \in 1..(Len(keys) - excess) : replay'[i] = keys[i + excess]
  BY <1>4, <1>5, <1>6
<1>9. Range(replay') = {replay'[i] : i \in 1..Len(replay')} /\ Range(replay) = {replay[i] : i \in 1..Len(replay)}
  <2>1. DOMAIN replay' = 1..Len(replay') /\ DOMAIN replay = 1..Len(replay)
    BY <1>1, <1>8
  <2> QED
    BY <2>1 DEF Range
<1>10. IsInjective(replay')
  <2> SUFFICES ASSUME NEW i \in 1..Len(replay'), NEW j \in 1..Len(replay'), replay'[i] = replay'[j]
               PROVE  i = j
    <3>1. DOMAIN replay' = 1..Len(replay')
      BY <1>8
    <3> QED
      BY <3>1 DEF IsInjective
  <2>1. i + excess \in 1..Len(keys) /\ j + excess \in 1..Len(keys)
    BY <1>5, <1>6, <1>8
  <2>2. i + excess = j + excess
    BY <1>7, <1>8, <2>1
  <2> QED
    BY <1>6, <2>2
<1>11. r \in Range(replay')
  <2>1. Len(keys) - excess \in 1..Len(replay') /\ (Len(keys) - excess) + excess = Len(keys)
    BY <1>5, <1>6, <1>8
  <2>2. replay'[Len(keys) - excess] = r
    BY <1>5, <1>8, <2>1
  <2> QED
    BY <1>9, <2>1, <2>2
<1>12. \A q \in Requests \ {r} : q \in Range(replay') => Retained(q)
  <2> SUFFICES ASSUME NEW i \in 1..Len(replay'), replay'[i] # r PROVE replay'[i] \in Range(replay)
    BY <1>9 DEF Retained
  <2>0. i + excess \in 1..Len(keys) /\ i \in 1..(Len(keys) - excess)
    BY <1>5, <1>6, <1>8
  <2>1. i + excess \in 1..Len(keys) /\ keys[i + excess] # r
    BY <1>8, <2>0
  <2>2. i + excess # Len(keys)
    BY <1>5, <2>1
  <2>3. i + excess \in 1..Len(replay)
    BY <1>1, <1>5, <2>1, <2>2
  <2> QED
    BY <1>5, <1>8, <1>9, <2>3, ZenonT(30)
<1>13. excess = 0 => \A q \in Requests : Retained(q) => q \in Range(replay')
  <2> SUFFICES ASSUME excess = 0, NEW i \in 1..Len(replay) PROVE replay[i] \in Range(replay')
    BY <1>9 DEF Retained
  <2>1. i \in 1..Len(replay') /\ i + excess = i
    BY <1>1, <1>5, <1>8
  <2> QED
    <3>1. replay'[i] = keys[i + excess] /\ keys[i] = replay[i]
      BY <1>5, <1>8, <2>1
    <3> QED
      BY <1>9, <2>1, <3>1
<1>14. Len(replay) = CacheSize => excess > 0
  BY <1>1, <1>5 DEF excess
<1>15. /\ kept' \in [Requests -> Seq(Kinds)]
       /\ \A q \in Requests : q \in Range(replay') => kept'[q] = IF q = r THEN records[r] ELSE kept[q]
  BY <1>4 DEF JobTypes
<1>16. Len(replay') <= CacheSize /\ (excess > 0 => Len(replay') = CacheSize)
  BY <1>6, <1>8
<1>17. Len(replay) = CacheSize \/ (\E q \in Requests \ {r} : Retained(q) /\ q \notin Range(replay'))
         => Len(replay') = CacheSize
  BY <1>6, <1>13, <1>14, <1>16
<1> QED
  BY <1>8, <1>10, <1>11, <1>12, <1>15, <1>16, <1>17

\* A job that is over is put into the replay cache, and is not awaited any more.
LEMMA RetireKeeps ==
  ASSUME JobInv, NEW r \in Requests, Retire(r)
  PROVE  JobInv'
<1> USE DEF JobInv, Retire
<1>1. JobTypes'
  BY DEF JobTypes
<1>2. QueueInv'
  BY DEF QueueInv, JobTypes
<1>3. LogInv'
  BY DEF LogInv, Log, JobTypes
<1>4. CacheInv'
  <2>1. ~Retained(r) /\ job'[r] = "finished" /\ \A q \in Requests \ {r} : job'[q] = job[q]
    BY DEF CacheInv, JobTypes
  <2>2. CASE records[r] = <<>>
    <3>1. UNCHANGED cacheVars
      BY <2>2
    <3> QED
      BY <2>1, <2>2, <3>1, CacheKept DEF CacheInv
  <2>3. CASE records[r] # <<>>
    <3>1. StoreReplay(r)
      BY <2>3
    <3>2. /\ replay' \in Seq(Requests) /\ IsInjective(replay') /\ Len(replay') <= CacheSize
          /\ r \in Range(replay')
          /\ \A q \in Requests \ {r} : q \in Range(replay') => Retained(q)
          /\ Len(replay) = CacheSize \/ (\E q \in Requests \ {r} : Retained(q) /\ q \notin Range(replay'))
              => Len(replay') = CacheSize
          /\ kept' \in [Requests -> Seq(Kinds)]
          /\ \A q \in Requests : q \in Range(replay') => kept'[q] = IF q = r THEN records[r] ELSE kept[q]
      BY <2>1, <3>1, Stored
    <3>3. \A q \in Requests : Retained(q)' => job'[q] = "finished" /\ kept'[q] = records'[q] /\ records'[q] # <<>>
      BY <2>1, <2>3, <3>2 DEF CacheInv, Retained
    <3>4. \A q \in Requests : bridge' = "up" /\ job'[q] = "finished" /\ records'[q] # <<>> /\ ~Retained(q)'
                                 => Len(replay') = CacheSize
      BY <2>1, <3>2 DEF CacheInv, Retained
    <3> QED
      BY <3>2, <3>3, <3>4 DEF CacheInv
  <2> QED
    BY <2>2, <2>3
<1>5. BridgeSlotsAccounted'
  <2>1. job'[r] # "running" /\ \A q \in Requests \ {r} : job'[q] = job[q]
    BY DEF JobTypes
  <2> QED
    BY <1>1, <2>1, Running
<1> QED
  BY <1>1, <1>2, <1>3, <1>4, <1>5

\* close() awaits all jobs that are not over, and a new process has none.
LEMMA ProcessKeeps ==
  ASSUME JobInv, Close \/ Closed \/ Restart
  PROVE  JobInv'
<1> USE DEF JobInv
<1>1. CASE Close
  <2> USE <1>1 DEF Close
  <2>1. JobTypes'
    BY DEF JobTypes, Live
  <2>2. QueueInv'
    BY DEF QueueInv, JobTypes
  <2>3. LogInv'
    BY DEF LogInv, Log, JobTypes
  <2>4. CacheInv'
    BY CacheKept DEF CacheInv, JobTypes
  <2>5. BridgeSlotsAccounted'
    <3>1. {q \in Requests : job'[q] = "running"} = {q \in Requests : job[q] = "running"}
      BY DEF JobTypes
    <3> QED
      BY <3>1 DEF BridgeSlotsAccounted
  <2> QED
    BY <2>1, <2>2, <2>3, <2>4, <2>5
<1>2. CASE Closed
  <2> USE <1>2 DEF Closed, jobVars
  <2>1. JobTypes' /\ QueueInv' /\ LogInv'
    BY DEF JobTypes, QueueInv, LogInv, Log
  <2>2. CacheInv'
    BY CacheKept DEF CacheInv, JobTypes
  <2>3. BridgeSlotsAccounted'
    BY DEF BridgeSlotsAccounted
  <2> QED
    BY <2>1, <2>2, <2>3
<1>3. CASE Restart
  <2> USE <1>3 DEF Restart
  <2>1. JobTypes'
    BY BridgeAssumption DEF JobTypes
  <2>2. QueueInv'
    BY DEF QueueInv, IsInjective, JobTypes
  <2>3. LogInv'
    BY DEF LogInv, Log, QueueInv
  <2>4. CacheInv'
    BY BridgeAssumption DEF CacheInv, IsInjective, Retained, Range
  <2>5. BridgeSlotsAccounted'
    <3>1. {q \in Requests : job'[q] = "running"} = {}
      OBVIOUS
    <3>2. Cardinality({q \in Requests : job'[q] = "running"}) = 0 /\ slots' = BridgeSlots /\ BridgeSlots \in Nat
      BY <3>1, FS_EmptySet, BridgeAssumption
    <3> QED
      BY <3>2 DEF BridgeSlotsAccounted
  <2> QED
    BY <2>1, <2>2, <2>3, <2>4, <2>5
<1> QED
  BY <1>1, <1>2, <1>3

\* Every step keeps the invariant of the jobs.
LEMMA JobsKeep ==
  ASSUME JobInv, [Next]_vars
  PROVE  JobInv'
<1>1. JobStep
  BY StepsOfJobs DEF JobInv, JobTypes
<1>2. CASE BridgeAside
  BY <1>2 DEF BridgeAside, jobVars, cacheVars, JobInv, JobTypes, QueueInv, LogInv, Log, CacheInv, Retained, BridgeSlotsAccounted
<1> QED
  BY <1>1, <1>2, CreateKeeps, LaunchKeeps, ProgressKeeps, FinishKeeps, BreakKeeps, TerminateKeeps, RetireKeeps, ProcessKeeps
     DEF JobStep, Serves

\* The queue, the slots, the records and the replay cache of the bridge agree.
THEOREM JobsInvariant == Spec => []JobInv
BY JobsBegin, JobsKeep, PTL DEF Spec

-----------------------------------------------------------------------------
(* Connections.                                                            *)

\* The events of a connection.
Events == [kind : Kinds, seq : Nat]

\* The variables of connections and clients hold values of their kinds.
WireTypes ==
  /\ stream \in [Requests -> {"none", "ready", "draining", "waiting"}]
  /\ offset \in [Requests -> Nat]
  /\ upto \in [Requests -> Nat]
  /\ wire \in [Requests -> Seq(Events)]
  /\ open \in [Requests -> BOOLEAN]
  /\ client \in [Requests -> {"idle", "reading", "sleeping", "done"}]
  /\ attempt \in [Requests -> 0..1]
  /\ lastSequence \in [Requests -> Nat]
  /\ outcome \in [Requests -> Outcomes]

\* How many records have been written to the connection.
Written(r) == IF stream[r] = "draining" THEN upto[r] ELSE offset[r]

\* The numbers on the wire follow the last one that was read.
Consecutive(r) == \A k \in 1..Len(wire[r]) : wire[r][k].seq = lastSequence[r] + k

\* The events on the wire are the records with these numbers.
FromRecords(r) ==
  /\ lastSequence[r] + Len(wire[r]) <= Len(records[r])
  /\ \A k \in 1..Len(wire[r]) : wire[r][k].kind = records[r][lastSequence[r] + k]

\* What is on the wire goes on where the client is: records of the job, all that
\* have been written, unless it is the refusal of a bridge that stops.
Flow(r) ==
  /\ open[r] <=> stream[r] # "none"
  /\ client[r] # "reading" => stream[r] = "none" /\ wire[r] = <<>>
  /\ client[r] # "done" => outcome[r] = "none"
  /\ bridge = "down" => stream[r] = "none"
  /\ client[r] = "reading" =>
       \/ stream[r] = "none" /\ wire[r] = <<Event("failed", 0)>> /\ bridgeStops # 0
       \/ /\ Consecutive(r)
          /\ stream[r] # "none" \/ bridgeStops = 0 => FromRecords(r)
          /\ stream[r] # "none" => Written(r) = lastSequence[r] + Len(wire[r])

\* The job of r is over, without a verdict.
Unjudged(r) == job[r] = "finished" /\ ~(records[r] # <<>> /\ Last(records[r]) \in Terminals)

\* As long as the bridge was never stopped, a connection that has ended is that
\* of a job that is over, and the second one has the verdict, or another launch to
\* come, or a broken run.
Heals(r) ==
  bridgeStops = 0 =>
    /\ client[r] = "reading" /\ ~open[r] => job[r] = "finished"
    /\ client[r] = "sleeping" => job[r] = "finished"
    /\ client[r] = "reading" /\ attempt[r] = 1 =>
         /\ launches[r] > 0
         /\ \/ launches[r] > 1
            \/ open[r] /\ job[r] = "queued"
            \/ ~open[r] /\ wire[r] # <<>> /\ wire[r][Len(wire[r])].kind \in Terminals
            \/ ~open[r] /\ Unjudged(r)
    /\ outcome[r] \in Terminals => records[r] # <<>> /\ Last(records[r]) = outcome[r]
    /\ outcome[r] \in {"lost", "refused"} => launches[r] > 1 \/ Unjudged(r)

\* The invariant of connections and outcomes.
WireInv == WireTypes /\ \A r \in Requests : Flow(r) /\ Heals(r) /\ outcome[r] # "invalid"

\* The step leaves the connection and the client of r alone.
Still(r) ==
  /\ stream'[r] = stream[r] /\ offset'[r] = offset[r] /\ upto'[r] = upto[r]
  /\ wire'[r] = wire[r] /\ open'[r] = open[r]
  /\ client'[r] = client[r] /\ attempt'[r] = attempt[r]
  /\ lastSequence'[r] = lastSequence[r] /\ outcome'[r] = outcome[r]

\* The job of r goes on.
Grows(r) ==
  /\ bridge' = "down" => bridge = "down"
  /\ bridgeStops' = 0 => bridgeStops = 0
  /\ bridgeStops # 0 => bridgeStops' # 0
  /\ Len(records[r]) <= Len(records'[r])
  /\ \A i \in 1..Len(records[r]) : records'[r][i] = records[r][i]
  /\ records'[r] = records[r] \/ job[r] = "running"
  /\ bridgeStops' = 0 =>
       /\ job[r] = "finished" => job'[r] = "finished"
       /\ launches[r] <= launches'[r]
       /\ job[r] = "queued" => job'[r] = "queued" \/ launches'[r] > launches[r]

\* What the bridge does to a job keeps what it has emitted.
LEMMA JobGoesOn ==
  ASSUME JobInv, NEW r \in Requests, Serves \/ Close
  PROVE  Grows(r)
<1> USE DEF JobInv
<1>0. /\ launches[r] \in Nat /\ bridgeStops \in Nat /\ records[r] \in Seq(Kinds) /\ Len(records[r]) \in Nat
      /\ (bridgeStops = 0 => bridge = "up")
  BY DEF JobTypes, QueueInv
<1>3. ASSUME NEW s \in Requests, Launch(s) PROVE Grows(r)
  <2>1. records' = records /\ bridge' = bridge /\ bridgeStops' = bridgeStops
    BY <1>3 DEF Launch
  <2>2. job[s] # "finished"
    <3>1. queue # <<>> /\ Head(queue) = s /\ queue \in Seq(Requests)
      BY <1>3 DEF Launch, JobTypes
    <3>2. 1 \in 1..Len(queue) /\ queue[1] = s
      BY <3>1
    <3> QED
      BY <3>2 DEF QueueInv
  <2>3. /\ job[r] = "finished" => job'[r] = "finished"
        /\ launches'[r] = (IF r = s THEN launches[r] + 1 ELSE launches[r])
        /\ r # s => job'[r] = job[r]
    BY <1>3, <2>2 DEF Launch, JobTypes
  <2> QED
    BY <1>0, <2>1, <2>3 DEF Grows
<1>4. ASSUME NEW s \in Requests, Progress(s) PROVE Grows(r)
  <2>1. CASE s = r
    <3>1. records'[r] = Append(records[r], "progress") /\ "progress" \in Kinds
      BY <1>4, <2>1 DEF Progress, Emit, JobTypes, Kinds
    <3>2. Len(records[r]) <= Len(records'[r]) /\ \A i \in 1..Len(records[r]) : records'[r][i] = records[r][i]
      BY <1>0, <3>1
    <3> QED
      BY <1>0, <1>4, <2>1, <3>2 DEF Progress, Grows
  <2>2. CASE s # r
    <3>1. records'[r] = records[r]
      BY <1>4, <2>2 DEF Progress, Emit, JobTypes
    <3> QED
      BY <1>0, <1>4, <3>1 DEF Progress, Grows
  <2> QED
    BY <2>1, <2>2
<1>5. ASSUME NEW s \in Requests, NEW kind \in Terminals, Finish(s, kind) PROVE Grows(r)
  <2>1. CASE s = r
    <3>1. records'[r] = Append(records[r], kind) /\ kind \in Kinds
      BY <1>5, <2>1 DEF Finish, Emit, JobTypes, Kinds
    <3>2. Len(records[r]) <= Len(records'[r]) /\ \A i \in 1..Len(records[r]) : records'[r][i] = records[r][i]
      BY <1>0, <3>1
    <3> QED
      BY <1>0, <1>5, <2>1, <3>2 DEF Finish, Grows
  <2>2. CASE s # r
    <3>1. records'[r] = records[r] /\ job'[r] = job[r]
      BY <1>5, <2>2 DEF Finish, Emit, JobTypes
    <3> QED
      BY <1>0, <1>5, <3>1 DEF Finish, Grows
  <2> QED
    BY <2>1, <2>2
<1>9. ASSUME NEW s \in Requests, Break(s) PROVE Grows(r)
  BY <1>0, <1>9 DEF Break, Grows, JobTypes
<1>6. ASSUME NEW s \in Requests, Terminate(s) PROVE Grows(r)
  <2>1. bridgeStops # 0
    BY <1>6 DEF Terminate, QueueInv
  <2> QED
    BY <1>0, <1>6, <2>1 DEF Terminate, Grows
<1>7. ASSUME NEW s \in Requests, Retire(s) PROVE Grows(r)
  BY <1>0, <1>7 DEF Retire, Grows, JobTypes
<1>8. CASE Close
  BY <1>0, <1>8 DEF Close, Grows
<1> QED
  BY <1>3, <1>4, <1>5, <1>6, <1>7, <1>8, <1>9 DEF Serves

\* At the beginning there are no connections.
LEMMA WireBegins == Init => WireInv
<1> SUFFICES ASSUME Init PROVE WireInv
  OBVIOUS
<1> USE DEF Init, BridgeInit
<1>1. WireTypes
  BY DEF WireTypes, Outcomes, Terminals
<1>2. ASSUME NEW r \in Requests PROVE Flow(r) /\ Heals(r) /\ outcome[r] # "invalid"
  BY DEF Flow, Heals, Terminals
<1> QED
  BY <1>1, <1>2 DEF WireInv

\* A step that leaves the connection of r alone.
LEMMA StillHolds ==
  ASSUME JobInv, JobInv', WireTypes, NEW r \in Requests, Flow(r), Heals(r), outcome[r] # "invalid", Still(r),
         Grows(r) \/ Restart
  PROVE  Flow(r)' /\ Heals(r)' /\ (outcome[r] # "invalid")'
<1> USE DEF JobInv
<1>0. /\ launches[r] \in Nat /\ bridgeStops \in Nat /\ records[r] \in Seq(Kinds) /\ Len(records[r]) \in Nat
      /\ (bridgeStops = 0 => bridge = "up")
      /\ lastSequence[r] \in Nat /\ wire[r] \in Seq(Events) /\ Len(wire[r]) \in Nat
  BY DEF JobTypes, QueueInv, WireTypes
<1>1. CASE Grows(r)
  <2>1. Written(r)' = Written(r)
    BY DEF Written, Still
  <2>2. Consecutive(r) => Consecutive(r)'
    BY DEF Consecutive, Still
  <2>3. FromRecords(r) => FromRecords(r)'
    <3> SUFFICES ASSUME FromRecords(r) PROVE FromRecords(r)'
      OBVIOUS
    <3>1. \A k \in 1..Len(wire[r]) : lastSequence[r] + k \in 1..Len(records[r])
      BY <1>0 DEF FromRecords
    <3>2. lastSequence[r] + Len(wire[r]) <= Len(records'[r])
      BY <1>0, <1>1 DEF FromRecords, Grows
    <3> QED
      BY <1>1, <3>1, <3>2 DEF FromRecords, Grows, Still
  <2>4. Flow(r)'
    BY <1>1, <2>1, <2>2, <2>3 DEF Flow, Still, Grows
  <2>5. Heals(r)'
    <3> SUFFICES ASSUME bridgeStops' = 0 PROVE Heals(r)'
      BY DEF Heals
    <3>1. outcome[r] \in Terminals => records'[r] = records[r]
      <4>1. outcome[r] \in Terminals => records[r] # <<>> /\ Last(records[r]) \in Terminals
        BY <1>1 DEF Heals, Grows
      <4>2. Last(records[r]) \in Terminals /\ records[r] # <<>> => job[r] # "running"
        BY <1>0 DEF LogInv, Log, Last, Terminals
      <4> QED
        BY <1>1, <4>1, <4>2 DEF Grows
    <3>2. /\ launches'[r] \in Nat /\ launches[r] <= launches'[r]
          /\ Unjudged(r) => Unjudged(r)'
      BY <1>1 DEF JobTypes, Grows, Unjudged
    <3>3. CASE client[r] = "reading" /\ attempt[r] = 1
      <4>1. CASE launches[r] > 1
        BY <1>0, <1>1, <3>1, <3>2, <4>1 DEF Heals, Still, Grows
      <4>2. CASE open[r] /\ job[r] = "queued"
        BY <1>0, <1>1, <3>1, <3>2, <3>3, <4>2 DEF Heals, Still, Grows
      <4>3. CASE ~open[r] /\ wire[r] # <<>> /\ wire[r][Len(wire[r])].kind \in Terminals
        BY <1>0, <1>1, <3>1, <3>2, <3>3, <4>3 DEF Heals, Still, Grows
      <4>4. CASE ~open[r] /\ Unjudged(r)
        BY <1>0, <1>1, <3>1, <3>2, <3>3, <4>4 DEF Heals, Still, Grows
      <4> QED
        BY <1>1, <3>3, <4>1, <4>2, <4>3, <4>4 DEF Heals, Grows
    <3>4. CASE ~(client[r] = "reading" /\ attempt[r] = 1)
      BY <1>0, <1>1, <3>1, <3>2, <3>4 DEF Heals, Still, Grows
    <3> QED
      BY <3>3, <3>4
  <2> QED
    BY <2>4, <2>5 DEF Still
<1>2. CASE Restart
  <2>1. stream[r] = "none" /\ bridge = "down" /\ bridgeStops' = bridgeStops /\ bridgeStops # 0
    BY <1>0, <1>2 DEF Restart, Flow
  <2>2. Consecutive(r) => Consecutive(r)'
    BY DEF Consecutive, Still
  <2>3. Flow(r)'
    BY <1>2, <2>1, <2>2 DEF Flow, Still, Restart
  <2> QED
    BY <2>1, <2>3 DEF Heals, Still
<1> QED
  BY <1>1, <1>2

\* The events of a log from a record on.
LEMMA NumberedIs ==
  ASSUME NEW log \in Seq(Kinds), NEW i \in Nat, i <= Len(log)
  PROVE  /\ Numbered(log, i) \in Seq(Events)
         /\ Len(Numbered(log, i)) = Len(log) - i
         /\ \A k \in 1..(Len(log) - i) :
              Numbered(log, i)[k].kind = log[i + k] /\ Numbered(log, i)[k].seq = i + k
<1> DEFINE m == Len(log) - i
<1>1. m \in Nat /\ \A k \in 1..m : i + k \in 1..Len(log) /\ log[i + k] \in Kinds /\ i + k \in Nat
  OBVIOUS
<1>2. \A k \in 1..m : Event(log[i + k], i + k) \in Events
  BY <1>1 DEF Event, Events
<1>3. Numbered(log, i) = [k \in 1..m |-> Event(log[i + k], i + k)]
  BY DEF Numbered
<1> HIDE DEF m
<1>4. Numbered(log, i) \in [1..m -> Events]
  BY <1>2, <1>3
<1>5. Numbered(log, i) \in Seq(Events) /\ Len(Numbered(log, i)) = m
  BY <1>1, <1>4
<1>6. \A k \in 1..m : Numbered(log, i)[k].kind = log[i + k] /\ Numbered(log, i)[k].seq = i + k
  BY <1>3 DEF Event
<1> QED
  BY <1>5, <1>6 DEF m

\* A step of the connection or the client of r leaves the others alone.
Others(r) == \A q \in Requests \ {r} : Still(q) /\ Grows(q)

\* What such a step keeps.
Kept(r) == WireTypes' /\ Flow(r)' /\ Heals(r)' /\ (outcome[r] # "invalid")' /\ Others(r)

\* A step that leaves the jobs alone lets them go on.
LEMMA AsideGrows ==
  ASSUME JobInv, NEW r \in Requests, BridgeAside
  PROVE  Grows(r)
BY DEF JobInv, JobTypes, BridgeAside, jobVars, Grows

\* A run of the executor that ends.
LEMMA EndHolds ==
  ASSUME JobInv, WireInv, NEW r \in Requests, NEW result \in Outcomes \ {"none", "invalid"},
         End(r, result), BridgeAside,
         bridgeStops = 0 /\ result \in Terminals => records[r] # <<>> /\ Last(records[r]) = result,
         bridgeStops = 0 /\ result \in {"lost", "refused"} => launches[r] > 1 \/ Unjudged(r)
  PROVE  Kept(r)
<1> USE DEF WireInv, End, HangUp
<1>1. WireTypes'
  BY DEF WireTypes
<1>2. /\ client'[r] = "done" /\ outcome'[r] = result /\ stream'[r] = "none" /\ open'[r] = FALSE
      /\ wire'[r] = <<>>
  BY DEF WireTypes
<1>3. Flow(r)' /\ Heals(r)'
  BY <1>2 DEF Flow, Heals, Unjudged, BridgeAside, jobVars
<1>4. Others(r)
  BY AsideGrows DEF Others, Still, WireTypes
<1> QED
  BY <1>1, <1>2, <1>3, <1>4 DEF Kept

\* A connection that is made.
LEMMA ConnectHolds ==
  ASSUME JobInv, JobInv', WireInv, NEW r \in Requests, NEW n \in 0..1, Submit(r), Connected(r, n),
         IF n = 0 THEN client[r] = "idle" ELSE client[r] = "sleeping"
  PROVE  Kept(r)
<1> USE DEF WireInv
<1>0. /\ client'[r] = "reading" /\ attempt'[r] = n /\ lastSequence'[r] = 0 /\ outcome'[r] = "none"
      /\ \A q \in Requests \ {r} : client'[q] = client[q] /\ attempt'[q] = attempt[q]
                                     /\ lastSequence'[q] = lastSequence[q] /\ outcome'[q] = outcome[q]
  BY DEF Connected, FirstSequence, WireTypes, Flow
<1>1. /\ client' \in [Requests -> {"idle", "reading", "sleeping", "done"}]
      /\ attempt' \in [Requests -> 0..1] /\ lastSequence' \in [Requests -> Nat]
      /\ outcome' \in [Requests -> Outcomes]
  BY DEF Connected, FirstSequence, WireTypes
<1>2. bridge # "down" /\ bridge' = bridge /\ bridgeStops' = bridgeStops /\ (bridgeStops = 0 => bridge = "up")
  BY DEF Submit, JobInv, QueueInv
<1>3. n = 1 /\ bridgeStops = 0 => job[r] = "finished" /\ launches[r] > 0
  <2> SUFFICES ASSUME n = 1, bridgeStops = 0
               PROVE  job[r] = "finished" /\ launches[r] > 0
    OBVIOUS
  <2>1. job[r] = "finished"
    BY DEF Heals
  <2> QED
    BY <1>2, <2>1 DEF JobInv, LogInv, Log
<1>4. ASSUME NEW events \in Seq(Events), AnswerAndClose(r, events)
      PROVE  /\ stream'[r] = "none" /\ open'[r] = FALSE /\ wire'[r] = events
             /\ WireTypes' /\ \A q \in Requests \ {r} : Still(q)
  BY <1>0, <1>1, <1>4 DEF AnswerAndClose, WireTypes, Still
<1>5. ASSUME Join(r)
      PROVE  /\ stream'[r] = "ready" /\ open'[r] = TRUE /\ wire'[r] = <<>> /\ offset'[r] = 0
             /\ WireTypes' /\ \A q \in Requests \ {r} : Still(q)
  BY <1>0, <1>1, <1>5 DEF Join, WireTypes, Still
<1>6. CASE Retained(r) /\ AnswerAndClose(r, Numbered(kept[r], 0)) /\ UNCHANGED jobVars
  <2>1. job[r] = "finished" /\ kept[r] = records[r] /\ records[r] \in Seq(Kinds) /\ records[r] # <<>>
    BY <1>6 DEF JobInv, CacheInv, JobTypes
  <2>2. /\ Numbered(kept[r], 0) \in Seq(Events) /\ Len(Numbered(kept[r], 0)) = Len(records[r])
        /\ \A k \in 1..Len(records[r]) : /\ Numbered(kept[r], 0)[k].kind = records[r][k]
                                         /\ Numbered(kept[r], 0)[k].seq = k
    <3>1. 0 \in Nat /\ 0 <= Len(records[r]) /\ Len(records[r]) - 0 = Len(records[r])
          /\ \A k \in 1..Len(records[r]) : 0 + k = k
      BY <2>1
    <3>2. /\ Numbered(records[r], 0) \in Seq(Events)
          /\ Len(Numbered(records[r], 0)) = Len(records[r]) - 0
          /\ \A k \in 1..(Len(records[r]) - 0) : /\ Numbered(records[r], 0)[k].kind = records[r][0 + k]
                                               /\ Numbered(records[r], 0)[k].seq = 0 + k
      BY <2>1, <3>1, NumberedIs
    <3> QED
      BY <2>1, <3>1, <3>2
  <2>3. /\ stream'[r] = "none" /\ open'[r] = FALSE /\ wire'[r] = Numbered(kept[r], 0)
        /\ WireTypes' /\ \A q \in Requests \ {r} : Still(q)
    BY <1>4, <1>6, <2>2
  <2>4. records' = records /\ job' = job /\ launches' = launches
    BY <1>6 DEF jobVars
  <2>5. Flow(r)'
    <3>1. Consecutive(r)'
      BY <1>0, <2>2, <2>3 DEF Consecutive
    <3>2. FromRecords(r)'
      BY <1>0, <2>1, <2>2, <2>3, <2>4 DEF FromRecords
    <3> QED
      BY <1>0, <1>2, <2>3, <3>1, <3>2 DEF Flow
  <2>6. Heals(r)'
    <3>1. Len(records[r]) \in 1..Len(records[r])
      BY <2>1
    <3>2. wire'[r] # <<>> /\ wire'[r][Len(wire'[r])].kind = Last(records[r])
      BY <2>1, <2>2, <2>3, <3>1 DEF Last
    <3> QED
      BY <1>0, <1>2, <1>3, <2>1, <2>3, <2>4, <3>2 DEF Heals, Terminals, Unjudged
  <2>7. Others(r)
    <3>1. BridgeAside
      BY <1>6, <2>4 DEF Submit, BridgeAside, jobVars
    <3> QED
      BY <2>3, <3>1, AsideGrows DEF Others
  <2> QED
    BY <1>0, <2>3, <2>5, <2>6, <2>7 DEF Kept
<1>7. CASE ~Retained(r) /\ job[r] \in Live /\ Join(r) /\ UNCHANGED jobVars
  <2>1. records' = records /\ job' = job /\ launches' = launches /\ records[r] \in Seq(Kinds)
    BY <1>7 DEF jobVars, JobInv, JobTypes
  <2>2. Flow(r)'
    <3>1. wire'[r] = <<>> /\ Len(wire'[r]) = 0 /\ stream'[r] = "ready" /\ open'[r] = TRUE /\ offset'[r] = 0
      BY <1>5, <1>7
    <3>2. Consecutive(r)' /\ FromRecords(r)'
      BY <1>0, <2>1, <3>1 DEF Consecutive, FromRecords
    <3>3. Written(r)' = lastSequence'[r] + Len(wire'[r])
      BY <1>0, <3>1 DEF Written
    <3> QED
      BY <1>0, <1>2, <3>1, <3>2, <3>3 DEF Flow
  <2>3. Heals(r)'
    BY <1>0, <1>2, <1>3, <1>5, <1>7, <2>1 DEF Heals, Terminals, Live
  <2>4. Others(r)
    <3>1. BridgeAside
      BY <1>7, <2>1 DEF Submit, BridgeAside, jobVars
    <3> QED
      BY <1>5, <1>7, <3>1, AsideGrows DEF Others
  <2> QED
    BY <1>0, <1>5, <1>7, <2>2, <2>3, <2>4 DEF Kept
<1>8. CASE Refuses /\ AnswerAndClose(r, <<Event("failed", 0)>>) /\ UNCHANGED jobVars
  <2>1. <<Event("failed", 0)>> \in Seq(Events)
    BY DEF Event, Events, Kinds, Terminals
  <2>2. bridgeStops' # 0
    BY <1>2, <1>8 DEF Refuses
  <2>3. Flow(r)' /\ Heals(r)'
    BY <1>0, <1>2, <1>4, <1>8, <2>1, <2>2 DEF Flow, Heals
  <2>4. Others(r)
    <3>1. BridgeAside
      BY <1>8 DEF Submit, BridgeAside, jobVars
    <3> QED
      BY <1>4, <1>8, <2>1, <3>1, AsideGrows DEF Others
  <2> QED
    BY <1>0, <1>4, <1>8, <2>1, <2>3, <2>4 DEF Kept
<1>9. CASE ~Retained(r) /\ job[r] \notin Live /\ ~Refuses /\ NewJob(r) /\ Join(r)
  <2>1. /\ job'[r] = "queued" /\ records'[r] = <<>> /\ launches' = launches
        /\ \A q \in Requests \ {r} : job'[q] = job[q] /\ records'[q] = records[q]
    BY <1>9 DEF NewJob, JobInv, JobTypes
  <2>2. Flow(r)'
    <3>1. wire'[r] = <<>> /\ Len(wire'[r]) = 0 /\ stream'[r] = "ready" /\ open'[r] = TRUE /\ offset'[r] = 0
      BY <1>5, <1>9
    <3>2. Consecutive(r)' /\ FromRecords(r)'
      BY <1>0, <2>1, <3>1 DEF Consecutive, FromRecords
    <3>3. Written(r)' = lastSequence'[r] + Len(wire'[r])
      BY <1>0, <3>1 DEF Written
    <3> QED
      BY <1>0, <1>2, <3>1, <3>2, <3>3 DEF Flow
  <2>3. Heals(r)'
    BY <1>0, <1>2, <1>3, <1>5, <1>9, <2>1 DEF Heals, Terminals
  <2>4. Others(r)
    <3>1. \A q \in Requests \ {r} : Grows(q)
      BY <1>2, <2>1 DEF Grows, JobInv, JobTypes
    <3> QED
      BY <1>5, <1>9, <3>1 DEF Others
  <2> QED
    BY <1>0, <1>5, <1>9, <2>2, <2>3, <2>4 DEF Kept
<1> QED
  BY <1>6, <1>7, <1>8, <1>9 DEF Submit

\* A line that is read is the next one, and its verdict that of the job.
LEMMA NextLine ==
  ASSUME JobInv, WireInv, NEW r \in Requests, client[r] = "reading", wire[r] # <<>>
  PROVE  /\ Head(wire[r]) \in Events /\ Tail(wire[r]) \in Seq(Events)
         /\ Len(Tail(wire[r])) = Len(wire[r]) - 1
         /\ \A k \in 1..(Len(wire[r]) - 1) : Tail(wire[r])[k] = wire[r][k + 1]
         /\ \/ Head(wire[r]).seq = 0 /\ Head(wire[r]).kind \in Terminals /\ bridgeStops # 0
            \/ Head(wire[r]).seq = lastSequence[r] + 1 /\ Consecutive(r)
         /\ bridgeStops = 0 \/ stream[r] # "none" =>
              Consecutive(r) /\ FromRecords(r) /\ Head(wire[r]).seq = lastSequence[r] + 1
         /\ FromRecords(r) => Head(wire[r]).kind = records[r][lastSequence[r] + 1]
         /\ bridgeStops = 0 /\ Head(wire[r]).kind \in Terminals =>
              records[r] # <<>> /\ Last(records[r]) = Head(wire[r]).kind
<1> USE DEF WireInv
<1>1. wire[r] \in Seq(Events) /\ Len(wire[r]) \in Nat \ {0} /\ Head(wire[r]) = wire[r][1] /\ 1 \in 1..Len(wire[r])
      /\ lastSequence[r] \in Nat
  BY DEF WireTypes
<1>2. /\ Head(wire[r]) \in Events /\ Tail(wire[r]) \in Seq(Events)
      /\ Len(Tail(wire[r])) = Len(wire[r]) - 1
      /\ \A k \in 1..(Len(wire[r]) - 1) : Tail(wire[r])[k] = wire[r][k + 1]
  BY <1>1
<1>3. CASE stream[r] = "none" /\ wire[r] = <<Event("failed", 0)>> /\ bridgeStops # 0
  <2>1. Head(wire[r]).seq = 0 /\ Head(wire[r]).kind \in Terminals
    BY <1>1, <1>3 DEF Event, Terminals
  <2>2. FromRecords(r) => Head(wire[r]).kind = records[r][lastSequence[r] + 1]
    BY <1>1 DEF FromRecords
  <2> QED
    BY <1>2, <1>3, <2>1, <2>2
<1>4. CASE Consecutive(r) /\ (stream[r] # "none" \/ bridgeStops = 0 => FromRecords(r))
  <2>1. Head(wire[r]).seq = lastSequence[r] + 1
    BY <1>1, <1>4 DEF Consecutive
  <2>2. FromRecords(r) => /\ Head(wire[r]).kind = records[r][lastSequence[r] + 1]
                          /\ lastSequence[r] + 1 \in 1..Len(records[r])
    <3>1. records[r] \in Seq(Kinds) /\ Len(records[r]) \in Nat
      BY DEF JobInv, JobTypes
    <3> QED
      BY <1>1, <3>1 DEF FromRecords
  <2>3. bridgeStops = 0 /\ Head(wire[r]).kind \in Terminals =>
              records[r] # <<>> /\ Last(records[r]) = Head(wire[r]).kind
    <3> SUFFICES ASSUME bridgeStops = 0, Head(wire[r]).kind \in Terminals
                 PROVE  records[r] # <<>> /\ Last(records[r]) = Head(wire[r]).kind
      OBVIOUS
    <3>1. records[r] \in Seq(Kinds) /\ Len(records[r]) \in Nat
      BY DEF JobInv, JobTypes
    <3>2. lastSequence[r] + 1 \in 1..Len(records[r]) /\ records[r][lastSequence[r] + 1] \in Terminals
      BY <1>4, <2>2
    <3>3. lastSequence[r] + 1 = Len(records[r])
      <4>1. lastSequence[r] + 1 \notin 1..(Len(records[r]) - 1)
        BY <3>2 DEF JobInv, LogInv, Log, Terminals
      <4> QED
        BY <3>1, <3>2, <4>1
    <3> QED
      BY <1>4, <2>2, <3>1, <3>2, <3>3 DEF Last
  <2> QED
    BY <1>2, <1>4, <2>1, <2>2, <2>3
<1> QED
  BY <1>3, <1>4 DEF Flow

\* A line that is read is no gap and no repetition.
LEMMA ReceiveHolds ==
  ASSUME JobInv, WireInv, NEW r \in Requests, Receive(r)
  PROVE  Kept(r)
<1> USE DEF WireInv
<1>0. client[r] = "reading" /\ wire[r] # <<>> /\ BridgeAside /\ lastSequence[r] \in Nat
  BY DEF Receive, WireTypes
<1> DEFINE event == Head(wire[r])
<1>1. /\ event \in Events /\ Tail(wire[r]) \in Seq(Events)
      /\ Len(Tail(wire[r])) = Len(wire[r]) - 1
      /\ \A k \in 1..(Len(wire[r]) - 1) : Tail(wire[r])[k] = wire[r][k + 1]
      /\ \/ event.seq = 0 /\ event.kind \in Terminals /\ bridgeStops # 0
         \/ event.seq = lastSequence[r] + 1 /\ Consecutive(r)
      /\ bridgeStops = 0 \/ stream[r] # "none" => Consecutive(r) /\ FromRecords(r) /\ event.seq = lastSequence[r] + 1
      /\ FromRecords(r) => event.kind = records[r][lastSequence[r] + 1]
      /\ bridgeStops = 0 /\ event.kind \in Terminals => records[r] # <<>> /\ Last(records[r]) = event.kind
  BY <1>0, NextLine
<1>2. event.seq = 0 \/ event.seq = lastSequence[r] + 1
  BY <1>1
<1>3. CASE event.kind \in Terminals
  <2>1. End(r, event.kind)
    BY <1>2, <1>3 DEF Receive
  <2>2. event.kind \in Outcomes \ {"none", "invalid"} /\ event.kind \notin {"lost", "refused"}
    BY <1>3 DEF Outcomes, Terminals
  <2> QED
    BY <1>0, <1>1, <1>3, <2>1, <2>2, EndHolds
<1>4. CASE event.kind \notin Terminals
  <2>0. event.seq = lastSequence[r] + 1 /\ Consecutive(r) /\ event.seq \in Nat
    BY <1>1, <1>4 DEF Events
  <2>1. /\ lastSequence' = [lastSequence EXCEPT ![r] = event.seq]
        /\ wire' = [wire EXCEPT ![r] = Tail(@)]
        /\ UNCHANGED <<client, attempt, outcome, stream, offset, upto, open>>
    BY <1>2, <1>4 DEF Receive
  <2>2. lastSequence'[r] = lastSequence[r] + 1 /\ wire'[r] = Tail(wire[r])
    BY <2>0, <2>1 DEF WireTypes
  <2>3. WireTypes'
    BY <1>1, <2>0, <2>1 DEF WireTypes
  <2>4. Others(r)
    BY <1>0, <2>1, AsideGrows DEF Others, Still, WireTypes
  <2>5. records' = records /\ job' = job /\ launches' = launches /\ bridge' = bridge /\ bridgeStops' = bridgeStops
    BY <1>0 DEF BridgeAside, jobVars
  <2>6. Len(wire[r]) \in Nat \ {0}
    BY <1>0 DEF WireTypes
  <2>7. \A k \in 1..(Len(wire[r]) - 1) : k + 1 \in 1..Len(wire[r]) /\ lastSequence[r] + (k + 1) = (lastSequence[r] + 1) + k
    BY <1>0, <2>6
  <2>8. Consecutive(r)'
    BY <1>1, <2>0, <2>2, <2>7 DEF Consecutive
  <2>9. FromRecords(r) => FromRecords(r)'
    <3>1. lastSequence'[r] + Len(wire'[r]) = lastSequence[r] + Len(wire[r])
      BY <1>0, <1>1, <2>2, <2>6
    <3>2. \A k \in 1..Len(wire'[r]) : wire'[r][k] = wire[r][k + 1] /\ lastSequence'[r] + k = lastSequence[r] + (k + 1)
                                     /\ k + 1 \in 1..Len(wire[r])
      BY <1>1, <2>2, <2>7
    <3> SUFFICES ASSUME FromRecords(r) PROVE FromRecords(r)'
      OBVIOUS
    <3>3. lastSequence'[r] + Len(wire'[r]) <= Len(records'[r])
      BY <2>5, <3>1 DEF FromRecords
    <3>4. \A k \in 1..Len(wire'[r]) : wire[r][k + 1].kind = records[r][lastSequence[r] + (k + 1)]
      BY <3>2 DEF FromRecords
    <3>5. \A k \in 1..Len(wire'[r]) : wire'[r][k].kind = records'[r][lastSequence'[r] + k]
      BY <2>5, <3>2, <3>4
    <3> QED
      BY <3>3, <3>5 DEF FromRecords
  <2>10. Flow(r)'
    <3>1. stream[r] # "none" => Written(r)' = lastSequence'[r] + Len(wire'[r])
      <4>1. lastSequence'[r] + Len(wire'[r]) = lastSequence[r] + Len(wire[r])
        BY <1>0, <1>1, <2>2, <2>6
      <4>2. stream[r] # "none" => Written(r) = lastSequence[r] + Len(wire[r])
        BY <1>0 DEF Flow
      <4> QED
        BY <2>1, <4>1, <4>2 DEF Written
    <3>2. stream[r] # "none" \/ bridgeStops = 0 => FromRecords(r)'
      BY <1>1, <2>9
    <3> QED
      BY <1>0, <2>1, <2>5, <2>8, <3>1, <3>2 DEF Flow
  <2>11. Heals(r)'
    <3>1. ~open[r] /\ wire[r][Len(wire[r])].kind \in Terminals =>
            wire'[r] # <<>> /\ wire'[r][Len(wire'[r])].kind \in Terminals
      <4> SUFFICES ASSUME wire[r][Len(wire[r])].kind \in Terminals
                   PROVE  wire'[r] # <<>> /\ wire'[r][Len(wire'[r])].kind \in Terminals
        OBVIOUS
      <4>1. Len(wire[r]) # 1
        <5>1. wire[r][1] = event
          BY <2>6 DEF WireTypes
        <5> QED
          BY <1>4, <5>1
      <4>2. PICK n \in Nat \ {0} : Len(wire[r]) = n + 1
        <5>1. \A m \in Nat \ {0, 1} : m - 1 \in Nat \ {0} /\ m = (m - 1) + 1
          OBVIOUS
        <5> QED
          BY <2>6, <4>1, <5>1
      <4>3. n \in 1..(Len(wire[r]) - 1) /\ Len(Tail(wire[r])) = n
        BY <1>1, <4>2
      <4>4. Tail(wire[r])[n] = wire[r][n + 1]
        BY <1>1, <4>3
      <4>5. Tail(wire[r]) # <<>>
        BY <4>3
      <4> QED
        BY <2>2, <4>2, <4>3, <4>4, <4>5
    <3> QED
      BY <1>0, <2>1, <2>5, <3>1 DEF Heals, Unjudged
  <2> QED
    BY <2>1, <2>3, <2>4, <2>10, <2>11 DEF Kept
<1> QED
  BY <1>3, <1>4

\* Every step of a client keeps the invariant of its connection.
LEMMA ClientHolds ==
  ASSUME JobInv, JobInv', WireInv, NEW r \in Requests, ClientStep(r)
  PROVE  Kept(r)
<1> USE DEF WireInv
<1>1. CASE Start(r)
  BY <1>1, ConnectHolds DEF Start
<1>2. CASE Reconnect(r)
  BY <1>2, ConnectHolds DEF Reconnect
<1>3. CASE ConnectRefused(r)
  <2>1. bridgeStops # 0 /\ BridgeAside
    BY <1>3 DEF ConnectRefused, JobInv, QueueInv
  <2>2. PICK result \in {"refused", "lost"} : End(r, result)
    BY <1>3 DEF ConnectRefused
  <2> QED
    BY <2>1, <2>2, EndHolds DEF Outcomes
<1>4. CASE Receive(r)
  BY <1>4, ReceiveHolds
<1>5. CASE ReadEof(r)
  <2>0. client[r] = "reading" /\ wire[r] = <<>> /\ ~open[r] /\ BridgeAside
    BY <1>5 DEF ReadEof
  <2>1. CASE Reconnects(r) /\ client' = [client EXCEPT ![r] = "sleeping"] /\ HangUp(r) /\ UNCHANGED <<attempt, lastSequence, outcome>>
    <3>1. WireTypes'
      BY <2>1 DEF WireTypes, HangUp
    <3>2. /\ client'[r] = "sleeping" /\ stream'[r] = "none" /\ open'[r] = FALSE /\ wire'[r] = <<>>
          /\ outcome' = outcome
      BY <2>1 DEF WireTypes, HangUp
    <3>3. Flow(r)' /\ Heals(r)'
      BY <2>0, <3>2 DEF Flow, Heals, Unjudged, BridgeAside, jobVars
    <3>4. Others(r)
      BY <2>0, <2>1, AsideGrows DEF Others, Still, WireTypes, HangUp
    <3> QED
      BY <3>1, <3>2, <3>3, <3>4 DEF Kept
  <2>2. CASE ~Reconnects(r) /\ End(r, "lost")
    <3>1. bridgeStops = 0 => launches[r] > 1 \/ Unjudged(r)
      <4>1. attempt[r] = 1
        BY <2>2 DEF Reconnects, WireTypes
      <4> QED
        BY <2>0, <4>1 DEF Heals
    <3>2. "lost" \in Outcomes \ {"none", "invalid"} /\ "lost" \notin Terminals
      BY DEF Outcomes, Terminals
    <3> QED
      BY <2>0, <2>2, <3>1, <3>2, EndHolds
  <2> QED
    BY <1>5, <2>1, <2>2 DEF ReadEof
<1>6. CASE Timeout(r)
  <2>1. "stale" \in Outcomes \ {"none", "invalid"} /\ "stale" \notin Terminals \union {"lost", "refused"}
    BY DEF Outcomes, Terminals
  <2> QED
    BY <1>6, <2>1, EndHolds DEF Timeout
<1>7. CASE CancelRun(r)
  <2>1. "canceled" \in Outcomes \ {"none", "invalid"} /\ "canceled" \notin Terminals \union {"lost", "refused"}
    BY DEF Outcomes, Terminals
  <2> QED
    BY <1>7, <2>1, EndHolds DEF CancelRun
<1> QED
  BY <1>1, <1>2, <1>3, <1>4, <1>5, <1>6, <1>7 DEF ClientStep

\* A stream whose job is over ends.
LEMMA StreamEndHolds ==
  ASSUME JobInv, WireInv, NEW r \in Requests, stream[r] # "none", job[r] = "finished", StreamEnds(r),
         BridgeAside, UNCHANGED clientVars
  PROVE  Kept(r)
<1> USE DEF WireInv
<1>1. /\ records' = records /\ job' = job /\ launches' = launches /\ bridge' = bridge /\ bridgeStops' = bridgeStops
      /\ client' = client /\ attempt' = attempt /\ lastSequence' = lastSequence /\ outcome' = outcome
  BY DEF BridgeAside, jobVars, clientVars
<1>2. /\ stream'[r] = "none" /\ open'[r] = FALSE /\ wire' = wire /\ WireTypes' /\ Others(r)
  BY <1>1, AsideGrows DEF StreamEnds, WireTypes, Others, Still
<1>3. client[r] = "reading" /\ open[r] /\ Consecutive(r) /\ FromRecords(r)
  BY DEF Flow
<1>4. Consecutive(r)' /\ FromRecords(r)'
  BY <1>1, <1>2, <1>3 DEF Consecutive, FromRecords
<1>5. Flow(r)'
  BY <1>1, <1>2, <1>3, <1>4 DEF Flow
<1>6. Heals(r)'
  BY <1>1, <1>2, <1>3 DEF Heals, Unjudged
<1> QED
  BY <1>1, <1>2, <1>5, <1>6 DEF Kept

\* What is written goes on from what has been written before.
LEMMA WriteHolds ==
  ASSUME JobInv, WireInv, NEW r \in Requests, WriteRecords(r), UNCHANGED clientVars
  PROVE  Kept(r)
<1> USE DEF WireInv
<1>0. /\ stream[r] \in {"ready", "waiting"} /\ client[r] = "reading" /\ Consecutive(r) /\ FromRecords(r)
      /\ offset[r] = lastSequence[r] + Len(wire[r]) /\ BridgeAside /\ open[r]
      /\ offset[r] <= Len(records[r])
  BY DEF WriteRecords, Flow, Written, FromRecords, BridgeAside
<1>1. /\ records' = records /\ job' = job /\ launches' = launches /\ bridge' = bridge /\ bridgeStops' = bridgeStops
      /\ client' = client /\ attempt' = attempt /\ lastSequence' = lastSequence /\ outcome' = outcome
  BY <1>0 DEF BridgeAside, jobVars, clientVars
<1>2. /\ records[r] \in Seq(Kinds) /\ Len(records[r]) \in Nat /\ offset[r] \in Nat /\ lastSequence[r] \in Nat
      /\ wire[r] \in Seq(Events) /\ Len(wire[r]) \in Nat
  BY DEF JobInv, JobTypes, WireTypes
<1>3. CASE /\ Len(records[r]) > offset[r]
           /\ wire' = [wire EXCEPT ![r] = @ \o Numbered(records[r], offset[r])]
           /\ upto' = [upto EXCEPT ![r] = Len(records[r])]
           /\ stream' = [stream EXCEPT ![r] = "draining"]
           /\ UNCHANGED <<offset, open>>
  <2> DEFINE new == Numbered(records[r], offset[r])
  <2>1. /\ new \in Seq(Events) /\ Len(new) = Len(records[r]) - offset[r]
        /\ \A k \in 1..(Len(records[r]) - offset[r]) :
             new[k].kind = records[r][offset[r] + k] /\ new[k].seq = offset[r] + k
    BY <1>0, <1>2, NumberedIs
  <2>2. wire'[r] = wire[r] \o new
    BY <1>3 DEF WireTypes
  <2> HIDE DEF new
  <2>3. /\ wire[r] \o new \in Seq(Events) /\ Len(wire[r] \o new) = Len(wire[r]) + Len(new)
    <3>1. wire[r] \in Seq(Events) /\ new \in Seq(Events)
      BY <1>2, <2>1
    <3> QED
      BY <3>1
  <2>4. \A k \in 1..Len(wire[r] \o new) :
          /\ (wire[r] \o new)[k].seq = lastSequence[r] + k
          /\ (wire[r] \o new)[k].kind = records[r][lastSequence[r] + k]
    <3> SUFFICES ASSUME NEW k \in 1..Len(wire[r] \o new)
                 PROVE  /\ (wire[r] \o new)[k].seq = lastSequence[r] + k
                        /\ (wire[r] \o new)[k].kind = records[r][lastSequence[r] + k]
      OBVIOUS
    <3>1. CASE k <= Len(wire[r])
      <4>1. k \in 1..Len(wire[r]) /\ (wire[r] \o new)[k] = wire[r][k]
        BY <1>2, <2>1, <3>1
      <4> QED
        BY <1>0, <4>1 DEF Consecutive, FromRecords
    <3>2. CASE ~(k <= Len(wire[r]))
      <4>1. k - Len(wire[r]) \in 1..Len(new) /\ (wire[r] \o new)[k] = new[k - Len(wire[r])]
        BY <1>2, <2>1, <2>3, <3>2
      <4>2. offset[r] + (k - Len(wire[r])) = lastSequence[r] + k
        BY <1>0, <1>2
      <4> QED
        BY <2>1, <4>1, <4>2
    <3> QED
      BY <3>1, <3>2
  <2>5. lastSequence[r] + Len(wire[r] \o new) = Len(records[r])
    <3> DEFINE all == Len(records[r])
               read == Len(wire[r])
               fresh == Len(new)
    <3>1. /\ all \in Nat /\ read \in Nat /\ offset[r] \in Nat /\ lastSequence[r] \in Nat
          /\ fresh = all - offset[r] /\ offset[r] = lastSequence[r] + read
          /\ Len(wire[r] \o new) = read + fresh
      BY <1>0, <1>2, <2>1, <2>3
    <3> HIDE DEF all, read, fresh
    <3>2. lastSequence[r] + (read + fresh) = all
      BY <3>1
    <3> QED
      BY <3>1, <3>2 DEF all
  <2>6. Consecutive(r)' /\ FromRecords(r)' /\ Written(r)' = lastSequence'[r] + Len(wire'[r])
    <3>1. stream'[r] = "draining" /\ upto'[r] = Len(records[r])
      BY <1>3 DEF WireTypes
    <3>2. lastSequence'[r] + Len(wire'[r]) = Len(records[r]) /\ Len(wire'[r]) = Len(wire[r] \o new)
      BY <1>1, <2>2, <2>5
    <3>3. FromRecords(r)'
      BY <1>1, <1>2, <2>2, <2>4, <3>2 DEF FromRecords
    <3>4. Consecutive(r)'
      BY <1>1, <2>2, <2>4 DEF Consecutive
    <3> QED
      BY <3>1, <3>2, <3>3, <3>4 DEF Written
  <2>7. WireTypes'
    BY <1>1, <1>2, <1>3, <2>2, <2>3 DEF WireTypes
  <2>8. Flow(r)' /\ Heals(r)'
    <3>1. stream'[r] = "draining" /\ open'[r] /\ open[r]
      BY <1>0, <1>3 DEF WireTypes
    <3> QED
      BY <1>0, <1>1, <2>6, <3>1 DEF Flow, Heals, Unjudged
  <2>9. Others(r)
    BY <1>0, <1>1, <1>3, AsideGrows DEF Others, Still, WireTypes
  <2> QED
    BY <1>1, <2>7, <2>8, <2>9 DEF Kept
<1>4. CASE StreamEnds(r) /\ job[r] = "finished"
  BY <1>0, <1>4, StreamEndHolds
<1>5. CASE stream' = [stream EXCEPT ![r] = "waiting"] /\ UNCHANGED <<offset, upto, wire, open>>
  <2>1. /\ stream'[r] = "waiting" /\ WireTypes' /\ Others(r)
    BY <1>0, <1>1, <1>5, AsideGrows DEF WireTypes, Others, Still
  <2>2. Consecutive(r)' /\ FromRecords(r)' /\ Written(r)' = lastSequence'[r] + Len(wire'[r])
    BY <1>0, <1>1, <1>5, <2>1 DEF Consecutive, FromRecords, Written
  <2>3. Flow(r)' /\ Heals(r)'
    BY <1>0, <1>1, <1>5, <2>1, <2>2 DEF Flow, Heals, Unjudged
  <2> QED
    BY <1>1, <2>1, <2>3 DEF Kept
<1> QED
  BY <1>3, <1>4, <1>5 DEF WriteRecords

\* After a drain the next records are those that follow the ones written.
LEMMA DrainedHolds ==
  ASSUME JobInv, WireInv, NEW r \in Requests, Drained(r), UNCHANGED clientVars
  PROVE  Kept(r)
<1> USE DEF WireInv
<1>0. /\ stream[r] = "draining" /\ client[r] = "reading" /\ Consecutive(r) /\ FromRecords(r)
      /\ upto[r] = lastSequence[r] + Len(wire[r]) /\ BridgeAside /\ open[r]
  BY DEF Drained, Flow, Written, BridgeAside
<1>1. /\ records' = records /\ job' = job /\ launches' = launches /\ bridge' = bridge /\ bridgeStops' = bridgeStops
      /\ client' = client /\ attempt' = attempt /\ lastSequence' = lastSequence /\ outcome' = outcome
  BY <1>0 DEF BridgeAside, jobVars, clientVars
<1>2. CASE job[r] = "finished" /\ StreamEnds(r)
  BY <1>0, <1>2, StreamEndHolds
<1>3. CASE /\ stream' = [stream EXCEPT ![r] = "ready"] /\ offset' = [offset EXCEPT ![r] = upto[r]]
           /\ UNCHANGED <<upto, wire, open>>
  <2>1. /\ stream'[r] = "ready" /\ offset'[r] = upto[r] /\ WireTypes' /\ Others(r)
    BY <1>0, <1>1, <1>3, AsideGrows DEF WireTypes, Others, Still
  <2>2. Consecutive(r)' /\ FromRecords(r)' /\ Written(r)' = lastSequence'[r] + Len(wire'[r])
    BY <1>0, <1>1, <1>3, <2>1 DEF Consecutive, FromRecords, Written
  <2>3. Flow(r)' /\ Heals(r)'
    BY <1>0, <1>1, <1>3, <2>1, <2>2 DEF Flow, Heals, Unjudged
  <2> QED
    BY <1>1, <2>1, <2>3 DEF Kept
<1> QED
  BY <1>2, <1>3 DEF Drained

\* Every step keeps the invariant of connections and outcomes.
LEMMA WiresKeep ==
  ASSUME JobInv, JobInv', WireInv, [Next]_vars
  PROVE  WireInv'
<1> USE DEF WireInv
<1>1. ASSUME NEW r \in Requests, Kept(r) PROVE WireInv'
  <2>1. ASSUME NEW q \in Requests, q # r PROVE Flow(q)' /\ Heals(q)' /\ (outcome[q] # "invalid")'
    BY <1>1, <2>1, StillHolds DEF Kept, Others
  <2> QED
    BY <1>1, <2>1 DEF Kept
<1>2. ASSUME UNCHANGED <<streamVars, clientVars>>, BridgeAside \/ Serves \/ Close \/ Restart PROVE WireInv'
  <2>1. ASSUME NEW q \in Requests PROVE Flow(q)' /\ Heals(q)' /\ (outcome[q] # "invalid")'
    <3>1. Grows(q) \/ Restart
      BY <1>2, JobGoesOn, AsideGrows
    <3>2. Still(q)
      BY <1>2 DEF Still, streamVars, clientVars
    <3> QED
      BY <3>1, <3>2, StillHolds
  <2>2. WireTypes'
    BY <1>2 DEF WireTypes, streamVars, clientVars
  <2> QED
    BY <2>1, <2>2
<1>3. CASE \E r \in Requests : ClientStep(r)
  BY <1>1, <1>3, ClientHolds
<1>4. ASSUME NEW r \in Requests, BridgeStep(r), UNCHANGED <<clientVars, apiRestarts>> PROVE WireInv'
  <2>1. CASE WriteRecords(r)
    BY <1>1, <1>4, <2>1, WriteHolds
  <2>2. CASE Drained(r)
    BY <1>1, <1>4, <2>2, DrainedHolds
  <2>3. CASE Launch(r) \/ Progress(r) \/ (\E kind \in Terminals : Finish(r, kind)) \/ Break(r) \/ Terminate(r) \/ Retire(r)
    <3>1. UNCHANGED streamVars
      BY <2>3 DEF Launch, Progress, Finish, Break, Terminate, Retire
    <3>2. Serves
      BY <2>3 DEF Serves
    <3> QED
      BY <1>2, <1>4, <3>1, <3>2
  <2> QED
    BY <1>4, <2>1, <2>2, <2>3 DEF BridgeStep
<1>5. CASE StopBridge
  BY <1>2, <1>5 DEF StopBridge, Close
<1>6. CASE Restart /\ UNCHANGED clientVars
  BY <1>2, <1>6 DEF Restart
<1>7. CASE Closed /\ UNCHANGED clientVars
  <2>1. /\ bridgeStops' = bridgeStops /\ bridgeStops # 0 /\ wire' = wire
        /\ client' = client /\ attempt' = attempt /\ lastSequence' = lastSequence /\ outcome' = outcome
    BY <1>7 DEF Closed, clientVars, JobInv, QueueInv
  <2>2. WireTypes'
    BY <1>7, <2>1 DEF Closed, WireTypes
  <2>3. ASSUME NEW q \in Requests PROVE Flow(q)' /\ Heals(q)' /\ (outcome[q] # "invalid")'
    <3>1. stream'[q] = "none" /\ open'[q] = FALSE
      BY <1>7 DEF Closed
    <3>2. Consecutive(q) => Consecutive(q)'
      BY <2>1 DEF Consecutive
    <3>3. Flow(q)'
      BY <2>1, <3>1, <3>2 DEF Flow
    <3> QED
      BY <2>1, <3>3 DEF Heals
  <2> QED
    BY <2>2, <2>3
<1>8. CASE ApiRestart
  <2>1. WireTypes'
    BY <1>8 DEF ApiRestart, WireTypes
  <2>2. ASSUME NEW q \in Requests PROVE Flow(q)' /\ Heals(q)' /\ (outcome[q] # "invalid")'
    <3>1. /\ stream'[q] = "none" /\ open'[q] = FALSE /\ wire'[q] = <<>> /\ outcome' = outcome
          /\ client'[q] = (IF q \in Busy THEN "idle" ELSE client[q])
          /\ bridgeStops' = bridgeStops /\ records' = records /\ launches' = launches
      BY <1>8 DEF ApiRestart, BridgeAside, jobVars
    <3>2. client'[q] \in {"idle", "done"} /\ (client'[q] = "done" => client[q] = "done")
      BY <3>1 DEF Busy, WireTypes
    <3>3. Flow(q)'
      BY <3>1, <3>2 DEF Flow, Busy
    <3> QED
      BY <1>8, <3>1, <3>2, <3>3 DEF Heals, Unjudged, ApiRestart, BridgeAside, jobVars
  <2> QED
    BY <2>1, <2>2
<1>9. CASE UNCHANGED vars
  BY <1>2, <1>9 DEF vars, bridgeVars, BridgeAside
<1> QED
  BY <1>3, <1>4, <1>5, <1>6, <1>7, <1>8, <1>9 DEF Next, BridgeRestart

\* What is on the wire of a connection is what the client expects next.
THEOREM WireInvariant == Spec => [](JobInv /\ WireInv)
BY JobsBegin, JobsKeep, WireBegins, WiresKeep, PTL DEF Spec

-----------------------------------------------------------------------------
(* The service.                                                            *)

\* A step as RunService allows it.
ServiceStep == Service!ServiceNext \/ UNCHANGED Service!serviceVars

\* A run that has a verdict is over with it.
LEMMA Verdict ==
  ASSUME JobInv, NEW r \in Requests, NEW i \in 1..Len(records[r]), records[r][i] \in Terminals
  PROVE  i = Len(records[r]) /\ RunOf(r) = records[r][i]
<1>1. records[r] \in Seq(Kinds) /\ Len(records[r]) \in Nat /\ Log(r)
  BY DEF JobInv, JobTypes, LogInv
<1>2. i = Len(records[r])
  <2>1. i \notin 1..(Len(records[r]) - 1)
    BY <1>1 DEF Log, Terminals
  <2> QED
    BY <1>1, <2>1
<1>3. job[r] \notin {"none", "queued", "running"}
  <2>1. records[r] # <<>> /\ records[r][i] # "progress"
    BY <1>1 DEF Terminals
  <2> QED
    BY <1>1, <2>1 DEF Log
<1>4. records[r] # <<>> /\ Last(records[r]) = records[r][i]
  BY <1>1, <1>2 DEF Last
<1> QED
  BY <1>2, <1>3, <1>4 DEF RunOf

\* The state of a run in each state of its job.
LEMMA RunShape ==
  ASSUME JobInv, NEW r \in Requests
  PROVE  /\ job[r] = "none" => RunOf(r) = "absent"
         /\ job[r] = "queued" => RunOf(r) = "accepted"
         /\ job[r] = "running" => RunOf(r) = "running"
         /\ job[r] \notin {"none", "queued", "running"} => RunOf(r) \in {"completed", "failed", "dropped"}
BY DEF RunOf, Terminals

\* A step that leaves the jobs alone leaves the runs alone.
LEMMA SameRuns ==
  ASSUME UNCHANGED <<job, records>>
  PROVE  Runs' = Runs
BY DEF Runs, RunOf

\* A step that leaves the wires alone leaves the words alone.
LEMMA SameWords ==
  ASSUME UNCHANGED wire
  PROVE  Words' = Words
BY DEF Words, WordOf

\* A step that leaves the outcomes alone leaves the answers alone.
LEMMA SameAnswers ==
  ASSUME UNCHANGED outcome
  PROVE  Answers' = Answers
BY DEF Answers, AnswerOf

\* A step of one job turns one run.
LEMMA OneRun ==
  ASSUME NEW r \in Requests, \A q \in Requests \ {r} : job'[q] = job[q] /\ records'[q] = records[q]
  PROVE  Runs' = [Runs EXCEPT ![r] = RunOf(r)']
BY ZenonT(30) DEF Runs, RunOf

\* A step of one connection changes the word of one request.
LEMMA OneWord ==
  ASSUME NEW r \in Requests, \A q \in Requests \ {r} : wire'[q] = wire[q]
  PROVE  Words' = [Words EXCEPT ![r] = WordOf(r)']
BY DEF Words, WordOf

\* A step of one client gives at most one answer.
LEMMA OneAnswer ==
  ASSUME NEW r \in Requests, \A q \in Requests \ {r} : outcome'[q] = outcome[q]
  PROVE  Answers' = [Answers EXCEPT ![r] = AnswerOf(r)']
BY DEF Answers, AnswerOf

\* A verdict is sent, or what was sent is lost.
LEMMA SentOrLost ==
  ASSUME NEW r \in Requests, UNCHANGED <<job, records, outcome, bridge>>,
         \A q \in Requests \ {r} : wire'[q] = wire[q],
         WordOf(r)' \subseteq {RunOf(r)}
  PROVE  ServiceStep
<1>1. Runs' = Runs /\ Answers' = Answers /\ Words' = [Words EXCEPT ![r] = WordOf(r)']
  BY SameRuns, SameAnswers, OneWord
<1>2. CASE WordOf(r)' = {}
  <2>1. Words' = [q \in Requests |-> IF q \in {r} THEN {} ELSE Words[q]]
    BY <1>1, <1>2 DEF Words
  <2>2. Service!Lost
    BY <1>1, <2>1 DEF Service!Lost
  <2> QED
    BY <2>2 DEF ServiceStep, Service!ServiceNext
<1>3. CASE WordOf(r)' # {}
  <2>1. WordOf(r)' = {RunOf(r)} /\ RunOf(r) \in Terminals
    BY <1>3 DEF WordOf
  <2>2. Runs[r] = RunOf(r)
    BY DEF Runs
  <2>3. Service!Sent(r)
    BY <1>1, <2>1, <2>2 DEF Service!Sent, Service!Verdicts, Terminals
  <2> QED
    BY <2>3 DEF ServiceStep, Service!ServiceNext, Service!RunStep
<1> QED
  BY <1>2, <1>3

\* The verdicts among records are that of the run.
LEMMA WordsOfRecords ==
  ASSUME JobInv, NEW r \in Requests, NEW w \in Seq(Events),
         \A k \in 1..Len(w) : \E i \in 1..Len(records[r]) : w[k].kind = records[r][i]
  PROVE  {w[k].kind : k \in DOMAIN w} \intersect Terminals \subseteq {RunOf(r)}
<1> SUFFICES ASSUME NEW k \in 1..Len(w), w[k].kind \in Terminals PROVE w[k].kind = RunOf(r)
  OBVIOUS
<1> QED
  BY Verdict

\* The API takes an answer.
LEMMA Ended ==
  ASSUME WireInv, NEW r \in Requests, NEW result \in Outcomes \ {"none"}, End(r, result),
         BridgeAside, client[r] # "done", result \in Terminals => result \in WordOf(r)
  PROVE  ServiceStep
<1> USE DEF End, HangUp
<1>1. Runs' = Runs /\ bridge' = bridge
  BY SameRuns DEF BridgeAside, jobVars
<1>2. Words' = [Words EXCEPT ![r] = {}]
  <2>1. wire'[r] = <<>> /\ \A q \in Requests \ {r} : wire'[q] = wire[q]
    BY DEF WireInv, WireTypes
  <2>2. WordOf(r)' = {}
    BY <2>1 DEF WordOf
  <2> QED
    BY <2>1, <2>2, OneWord
<1>3. Answers' = [Answers EXCEPT ![r] = IF result \in Terminals THEN result ELSE "error"]
  <2>1. outcome'[r] = result /\ \A q \in Requests \ {r} : outcome'[q] = outcome[q]
    BY DEF WireInv, WireTypes
  <2>2. AnswerOf(r)' = IF result \in Terminals THEN result ELSE "error"
    BY <2>1 DEF AnswerOf
  <2> QED
    BY <2>1, <2>2, OneAnswer
<1>4. Answers[r] = "none" /\ Words[r] = WordOf(r)
  BY DEF Answers, AnswerOf, Words, WireInv, Flow
<1>5. Service!Answered(r)
  BY <1>1, <1>2, <1>3, <1>4 DEF Service!Answered
<1> QED
  BY <1>5 DEF ServiceStep, Service!ServiceNext, Service!RunStep

\* The number of members is the same there and here.
LEMMA SameCardinality ==
  \A S : Service!Cardinality(S) = Cardinality(S)
BY DEF Service!Cardinality, Cardinality

\* The size of the domain of a sequence.
LEMMA PrefixSize ==
  ASSUME NEW n \in Nat
  PROVE  Cardinality(1..n) = n
<1>1. 1 \in Int /\ n \in Int
  OBVIOUS
<1>2. Cardinality(1..n) = IF 1 > n THEN 0 ELSE n - 1 + 1
  BY <1>1, FS_Interval, Zenon
<1>3. (IF 1 > n THEN 0 ELSE n - 1 + 1) = n
  OBVIOUS
<1> QED
  BY <1>2, <1>3

\* A request that has no job is accepted while the service is up: it is new, or it
\* broke without a record, or the cache is full of others.
LEMMA CreateAccepted ==
  ASSUME JobInv, NEW r \in Requests, Create(r), Words' = Words, Answers' = Answers
  PROVE  Service!Accepted(r)
<1>1. bridge = "up" /\ bridge' = bridge /\ ~Retained(r) /\ job[r] \in {"none", "finished"}
  BY DEF Create, JobInv, JobTypes
<1>2. Runs' = [Runs EXCEPT ![r] = "accepted"]
  <2>1. /\ job'[r] = "queued"
        /\ \A q \in Requests \ {r} : job'[q] = job[q] /\ records'[q] = records[q]
    BY DEF Create, NewJob, JobInv, JobTypes
  <2>2. RunOf(r)' = "accepted"
    BY <2>1 DEF RunOf
  <2> QED
    BY <2>1, <2>2, OneRun
<1>3. Runs[r] \in {"absent", "completed", "failed", "dropped"}
  BY <1>1, RunShape DEF Runs
<1>4. Runs[r] \in {"absent", "dropped"} \/ Cardinality({q \in Requests \ {r} : Runs[q] # "absent"}) >= CacheSize
  <2>1. CASE job[r] = "none"
    BY <2>1, RunShape DEF Runs
  <2>3. CASE job[r] = "finished" /\ records[r] = <<>>
    BY <2>3 DEF Runs, RunOf
  <2>2. CASE job[r] = "finished" /\ records[r] # <<>>
    <3> DEFINE T == {q \in Requests \ {r} : Runs[q] # "absent"}
    <3>1. /\ replay \in Seq(Requests) /\ IsInjective(replay) /\ Len(replay) = CacheSize
          /\ DOMAIN replay = 1..Len(replay)
      BY <1>1, <2>2 DEF JobInv, CacheInv
    <3>2. \A i \in 1..Len(replay) : replay[i] \in T
      <4> SUFFICES ASSUME NEW i \in 1..Len(replay) PROVE replay[i] \in T
        OBVIOUS
      <4>1. replay[i] \in Requests /\ Retained(replay[i])
        BY <3>1 DEF Retained, Range
      <4>2. replay[i] # r /\ job[replay[i]] = "finished"
        BY <1>1, <4>1 DEF JobInv, CacheInv
      <4>3. RunOf(replay[i]) # "absent"
        BY <4>1, <4>2, RunShape
      <4> QED
        BY <4>1, <4>2, <4>3 DEF Runs
    <3>3. IsFiniteSet(T) /\ Cardinality(T) \in Nat
      BY ExecutionAssumption, FS_Subset, FS_CardinalityType
    <3>4. replay \in Injection(1..Len(replay), T)
      <4>1. replay \in [1..Len(replay) -> T]
        BY <3>1, <3>2
      <4> QED
        BY <3>1, <4>1 DEF Injection
    <3>5. Cardinality(1..Len(replay)) <= Cardinality(T)
      BY <3>3, <3>4, FS_Injection
    <3>6. Cardinality(1..Len(replay)) = Len(replay)
      <4>1. Len(replay) \in Nat
        BY <3>1
      <4> QED
        BY <4>1, PrefixSize
    <3> QED
      BY <3>1, <3>3, <3>5, <3>6
  <2> QED
    BY <1>1, <2>1, <2>2, <2>3
<1>5. Service!Turn(r, {"absent"} \union Service!Over, "accepted")
  BY <1>1, <1>2, <1>3 DEF Service!Turn, Service!Over, Service!Verdicts
<1> QED
  BY <1>1, <1>4, <1>5, SameCardinality DEF Service!Accepted

\* A request that reaches the bridge.
LEMMA SubmitServes ==
  ASSUME JobInv, WireInv, NEW r \in Requests, Submit(r), client[r] \in {"idle", "sleeping"}, UNCHANGED outcome
  PROVE  ServiceStep
<1> USE DEF WireInv
<1>0. bridge' = bridge /\ wire[r] = <<>> /\ WordOf(r) = {}
  BY DEF Submit, Flow, WordOf
<1>1. ASSUME NEW events, AnswerAndClose(r, events)
      PROVE  wire'[r] = events /\ \A q \in Requests \ {r} : wire'[q] = wire[q]
  BY <1>1 DEF AnswerAndClose, WireTypes
<1>2. ASSUME Join(r)
      PROVE  WordOf(r)' = {} /\ \A q \in Requests \ {r} : wire'[q] = wire[q]
  BY <1>2 DEF Join, WireTypes, WordOf
<1>3. CASE Retained(r) /\ AnswerAndClose(r, Numbered(kept[r], 0)) /\ UNCHANGED jobVars
  <2>1. kept[r] = records[r] /\ records[r] \in Seq(Kinds)
    BY <1>3 DEF JobInv, CacheInv, JobTypes
  <2>2. /\ Numbered(records[r], 0) \in Seq(Events)
        /\ \A k \in 1..Len(Numbered(records[r], 0)) : \E i \in 1..Len(records[r]) :
             Numbered(records[r], 0)[k].kind = records[r][i]
    <3>1. 0 \in Nat /\ 0 <= Len(records[r]) /\ Len(records[r]) - 0 = Len(records[r])
          /\ \A k \in 1..Len(records[r]) : 0 + k = k
      BY <2>1
    <3>2. /\ Numbered(records[r], 0) \in Seq(Events)
          /\ Len(Numbered(records[r], 0)) = Len(records[r]) - 0
          /\ \A k \in 1..(Len(records[r]) - 0) : Numbered(records[r], 0)[k].kind = records[r][0 + k]
      BY <2>1, <3>1, NumberedIs
    <3> QED
      BY <3>1, <3>2
  <2>3. WordOf(r)' \subseteq {RunOf(r)}
    <3>1. wire'[r] = Numbered(records[r], 0)
      BY <1>1, <1>3, <2>1
    <3> QED
      BY <2>2, <3>1, WordsOfRecords, SMTT(30) DEF WordOf
  <2> QED
    BY <1>0, <1>1, <1>3, <2>3, SentOrLost DEF jobVars
<1>4. CASE Join(r) /\ UNCHANGED jobVars
  BY <1>0, <1>2, <1>4, SentOrLost DEF jobVars
<1>5. CASE /\ ~Retained(r) /\ job[r] \notin Live
           /\ Refuses /\ AnswerAndClose(r, <<Event("failed", 0)>>) /\ UNCHANGED jobVars
  <2>1. WordOf(r)' = {"failed"} /\ \A q \in Requests \ {r} : wire'[q] = wire[q]
    <3>1. wire'[r] = <<Event("failed", 0)>> /\ \A q \in Requests \ {r} : wire'[q] = wire[q]
      BY <1>1, <1>5
    <3> QED
      BY <3>1 DEF WordOf, Event, Terminals
  <2>2. Runs[r] \notin {"accepted", "running"}
    <3>1. job[r] \notin {"queued", "running"}
      BY <1>5 DEF Live
    <3> QED
      BY <3>1, RunShape DEF Runs
  <2>3. Runs' = Runs /\ Answers' = Answers /\ Words' = [Words EXCEPT ![r] = {"failed"}]
    BY <1>5, <2>1, SameRuns, SameAnswers, OneWord DEF jobVars
  <2>4. Service!Sent(r)
    BY <1>0, <1>5, <2>2, <2>3 DEF Service!Sent, Service!Verdicts, Service!Ongoing, Refuses
  <2> QED
    BY <2>4 DEF ServiceStep, Service!ServiceNext, Service!RunStep
<1>6. CASE ~Retained(r) /\ job[r] \notin Live /\ ~Refuses /\ NewJob(r) /\ Join(r)
  <2>1. Create(r)
    BY <1>6 DEF Submit, Create, Refuses, JobInv, JobTypes
  <2>2. Words' = Words
    <3>1. Words' = [Words EXCEPT ![r] = {}]
      BY <1>2, <1>6, OneWord
    <3> QED
      BY <1>0, <3>1 DEF Words
  <2>3. Service!Accepted(r)
    BY <2>1, <2>2, SameAnswers, CreateAccepted
  <2> QED
    BY <2>3 DEF ServiceStep, Service!ServiceNext, Service!RunStep
<1> QED
  BY <1>3, <1>4, <1>5, <1>6 DEF Submit

\* A line is read: a verdict is answered, and anything else says nothing.
LEMMA ReceiveServes ==
  ASSUME JobInv, WireInv, NEW r \in Requests, Receive(r)
  PROVE  ServiceStep
<1> USE DEF WireInv
<1> DEFINE event == Head(wire[r])
<1>1. client[r] = "reading" /\ wire[r] # <<>> /\ BridgeAside /\ wire[r] \in Seq(Events)
  BY DEF Receive, WireTypes
<1>2. /\ event \in Events /\ Tail(wire[r]) \in Seq(Events) /\ Len(Tail(wire[r])) = Len(wire[r]) - 1
      /\ \A k \in 1..(Len(wire[r]) - 1) : Tail(wire[r])[k] = wire[r][k + 1]
      /\ event.seq = 0 \/ event.seq = lastSequence[r] + 1
  BY <1>1, NextLine
<1>3. DOMAIN wire[r] = 1..Len(wire[r]) /\ Len(wire[r]) \in Nat \ {0} /\ event = wire[r][1] /\ 1 \in 1..Len(wire[r])
  BY <1>1
<1>4. CASE event.kind \in Terminals
  <2>1. End(r, event.kind)
    BY <1>2, <1>4 DEF Receive
  <2>2. event.kind \in WordOf(r)
    BY <1>3, <1>4 DEF WordOf
  <2>3. event.kind \in Outcomes \ {"none"}
    BY <1>4 DEF Outcomes, Terminals
  <2> QED
    BY <1>1, <2>1, <2>2, <2>3, Ended
<1>5. CASE event.kind \notin Terminals
  <2>1. wire' = [wire EXCEPT ![r] = Tail(@)] /\ UNCHANGED outcome
    BY <1>2, <1>5 DEF Receive
  <2>2. wire'[r] = Tail(wire[r]) /\ \A q \in Requests \ {r} : wire'[q] = wire[q]
    BY <2>1 DEF WireTypes
  <2>3. DOMAIN wire'[r] = 1..(Len(wire[r]) - 1)
    BY <1>2, <2>2
  <2>4. WordOf(r)' = WordOf(r)
    <3>1. ASSUME NEW k \in 1..(Len(wire[r]) - 1)
          PROVE  k + 1 \in 1..Len(wire[r]) /\ wire'[r][k].kind = wire[r][k + 1].kind
      BY <1>2, <1>3, <2>2
    <3>2. ASSUME NEW k \in 1..Len(wire[r]), wire[r][k].kind \in Terminals
          PROVE  \E i \in 1..(Len(wire[r]) - 1) : wire'[r][i].kind = wire[r][k].kind
      <4>1. k # 1
        BY <1>3, <1>5, <3>2
      <4>2. k - 1 \in 1..(Len(wire[r]) - 1) /\ (k - 1) + 1 = k
        BY <1>3, <4>1
      <4> QED
        BY <3>1, <4>2
    <3>3. \A e : e \in WordOf(r) <=> e \in Terminals /\ \E k \in 1..Len(wire[r]) : e = wire[r][k].kind
      BY <1>3 DEF WordOf
    <3>4. \A e : e \in WordOf(r)' <=> e \in Terminals /\ \E k \in 1..(Len(wire[r]) - 1) : e = wire'[r][k].kind
      BY <2>3 DEF WordOf
    <3>5. ASSUME NEW e, e \in WordOf(r)' PROVE e \in WordOf(r)
      <4>1. PICK k \in 1..(Len(wire[r]) - 1) : e = wire'[r][k].kind
        BY <3>4, <3>5
      <4>2. k + 1 \in 1..Len(wire[r]) /\ e = wire[r][k + 1].kind
        BY <3>1, <4>1
      <4> QED
        BY <3>3, <3>4, <3>5, <4>2
    <3>6. ASSUME NEW e, e \in WordOf(r) PROVE e \in WordOf(r)'
      <4>1. PICK k \in 1..Len(wire[r]) : e = wire[r][k].kind
        BY <3>3, <3>6
      <4>2. \E i \in 1..(Len(wire[r]) - 1) : wire'[r][i].kind = e
        BY <3>2, <3>3, <3>6, <4>1
      <4> QED
        BY <3>3, <3>4, <3>6, <4>2
    <3> QED
      BY <3>5, <3>6
  <2>5. Words' = Words
    <3>1. Words' = [Words EXCEPT ![r] = WordOf(r)]
      BY <2>2, <2>4, OneWord
    <3> QED
      BY <3>1 DEF Words
  <2> QED
    BY <1>1, <2>1, <2>5, SameRuns, SameAnswers DEF ServiceStep, Service!serviceVars, BridgeAside, jobVars
<1> QED
  BY <1>4, <1>5

\* What a run of the executor does.
LEMMA ClientServes ==
  ASSUME JobInv, WireInv, NEW r \in Requests, ClientStep(r)
  PROVE  ServiceStep
<1>1. CASE Start(r) \/ Reconnect(r)
  BY <1>1, SubmitServes DEF Start, Reconnect, Connected
<1>2. ASSUME NEW result \in {"refused", "lost", "stale", "canceled"}, End(r, result), BridgeAside, client[r] # "done"
      PROVE  ServiceStep
  <2>1. result \in Outcomes \ {"none"} /\ result \notin Terminals
    BY DEF Outcomes, Terminals
  <2> QED
    BY <1>2, <2>1, Ended
<1>3. CASE ConnectRefused(r)
  <2>1. PICK result \in {"refused", "lost"} : End(r, result)
    BY <1>3 DEF ConnectRefused
  <2> QED
    BY <1>2, <1>3, <2>1 DEF ConnectRefused
<1>4. CASE Receive(r)
  BY <1>4, ReceiveServes
<1>5. CASE ReadEof(r)
  <2>1. CASE HangUp(r) /\ UNCHANGED outcome
    <3>1. wire'[r] = <<>> /\ \A q \in Requests \ {r} : wire'[q] = wire[q]
      BY <2>1 DEF HangUp, WireInv, WireTypes
    <3>2. WordOf(r)' = {}
      BY <3>1 DEF WordOf
    <3> QED
      BY <1>5, <2>1, <3>1, <3>2, SentOrLost DEF ReadEof, BridgeAside, jobVars
  <2>2. CASE End(r, "lost")
    BY <1>2, <1>5, <2>2 DEF ReadEof
  <2> QED
    BY <1>5, <2>1, <2>2 DEF ReadEof
<1>6. CASE Timeout(r)
  BY <1>2, <1>6 DEF Timeout
<1>7. CASE CancelRun(r)
  BY <1>2, <1>7 DEF CancelRun, Busy
<1> QED
  BY <1>1, <1>3, <1>4, <1>5, <1>6, <1>7 DEF ClientStep

\* What a stream writes is the verdict of the run, if it is one at all.
LEMMA StreamServes ==
  ASSUME JobInv, WireInv, WireInv', NEW r \in Requests, WriteRecords(r) \/ Drained(r), UNCHANGED clientVars
  PROVE  ServiceStep
<1>1. UNCHANGED <<job, records, bridge, bridgeStops, outcome, client, lastSequence>>
  BY DEF WriteRecords, Drained, jobVars, clientVars
<1>2. CASE UNCHANGED wire
  BY <1>1, <1>2, SameRuns, SameWords, SameAnswers DEF ServiceStep, Service!serviceVars
<1>3. CASE /\ stream' = [stream EXCEPT ![r] = "draining"]
           /\ wire' = [wire EXCEPT ![r] = @ \o Numbered(records[r], offset[r])]
           /\ Len(records[r]) > offset[r]
  <2>1. stream'[r] = "draining" /\ \A q \in Requests \ {r} : wire'[q] = wire[q]
    BY <1>3 DEF WireInv, WireTypes
  <2>2. wire'[r] \in Seq(Events) /\ lastSequence[r] \in Nat /\ records[r] \in Seq(Kinds)
    BY DEF WireInv, WireTypes, JobInv, JobTypes
  <2>3. FromRecords(r)'
    <3>1. client'[r] = "reading"
      BY <2>1 DEF WireInv, Flow
    <3>2. Consecutive(r)' /\ FromRecords(r)'
      BY <2>1, <3>1 DEF WireInv, Flow
    <3> QED
      BY <3>2
  <2>4. \A k \in 1..Len(wire'[r]) : \E i \in 1..Len(records[r]) : wire'[r][k].kind = records[r][i]
    <3> SUFFICES ASSUME NEW k \in 1..Len(wire'[r])
                 PROVE  \E i \in 1..Len(records[r]) : wire'[r][k].kind = records[r][i]
      OBVIOUS
    <3>1. wire'[r][k].kind = records[r][lastSequence[r] + k] /\ lastSequence[r] + Len(wire'[r]) <= Len(records[r])
      BY <1>1, <2>3 DEF FromRecords
    <3>2. lastSequence[r] + k \in 1..Len(records[r])
      BY <2>2, <3>1
    <3> QED
      BY <3>1, <3>2
  <2>5. WordOf(r)' \subseteq {RunOf(r)}
    <3>1. {wire'[r][k].kind : k \in DOMAIN wire'[r]} \intersect Terminals \subseteq {RunOf(r)}
      BY <2>2, <2>4, WordsOfRecords
    <3> QED
      BY <3>1 DEF WordOf
  <2> QED
    BY <1>1, <2>1, <2>5, SentOrLost
<1> QED
  BY <1>2, <1>3 DEF WriteRecords, Drained, StreamEnds

\* A job goes from state to state as the service says.
LEMMA JobServes ==
  ASSUME JobInv, JobInv', NEW r \in Requests, UNCHANGED <<wire, outcome>>,
         Launch(r) \/ Progress(r) \/ (\E kind \in Terminals : Finish(r, kind)) \/ Break(r) \/ Terminate(r) \/ Retire(r)
  PROVE  ServiceStep
<1>0. Words' = Words /\ Answers' = Answers /\ bridge' = bridge
  BY SameWords, SameAnswers DEF Launch, Progress, Finish, Break, Terminate, Retire
<1>1. /\ \A q \in Requests \ {r} : job'[q] = job[q] /\ records'[q] = records[q]
      /\ Runs' = [Runs EXCEPT ![r] = RunOf(r)']
  <2>1. \A q \in Requests \ {r} : job'[q] = job[q] /\ records'[q] = records[q]
    BY DEF Launch, Progress, Finish, Break, Terminate, Retire, Emit, JobInv, JobTypes
  <2> QED
    BY <2>1, OneRun
<1>2. records[r] \in Seq(Kinds) /\ Len(records[r]) \in Nat /\ Log(r)
  BY DEF JobInv, JobTypes, LogInv
<1>3. ASSUME RunOf(r)' = RunOf(r) PROVE ServiceStep
  <2>1. Runs' = Runs
    BY <1>1, <1>3 DEF Runs
  <2> QED
    BY <1>0, <2>1 DEF ServiceStep, Service!serviceVars
<1>4. CASE Launch(r)
  <2>1. job[r] = "queued"
    <3>1. queue # <<>> /\ Head(queue) = r /\ queue \in Seq(Requests)
      BY <1>4 DEF Launch, JobInv, JobTypes
    <3>2. 1 \in 1..Len(queue) /\ queue[1] = r
      BY <3>1
    <3> QED
      BY <3>2 DEF JobInv, QueueInv
  <2>2. RunOf(r) = "accepted" /\ RunOf(r)' = "running"
    BY <1>4, <2>1 DEF RunOf, Launch, JobInv, JobTypes
  <2>3. Service!Launched(r)
    BY <1>0, <1>1, <2>2 DEF Service!Launched, Service!Turn, Runs
  <2> QED
    BY <2>3 DEF ServiceStep, Service!ServiceNext, Service!RunStep
<1>5. CASE Progress(r)
  <2>1. RunOf(r)' = RunOf(r)
    BY <1>5 DEF Progress, RunOf
  <2> QED
    BY <1>3, <2>1
<1>6. ASSUME NEW kind \in Terminals, Finish(r, kind) PROVE ServiceStep
  <2>1. records'[r] = Append(records[r], kind) /\ job'[r] = "retiring" /\ job[r] = "running"
    BY <1>6 DEF Finish, Emit, JobInv, JobTypes
  <2>2. records'[r] # <<>> /\ Last(records'[r]) = kind
    BY <1>2, <2>1 DEF Last, Kinds
  <2>3. RunOf(r) = "running" /\ RunOf(r)' = kind
    BY <2>1, <2>2 DEF RunOf
  <2>4. Service!Judged(r)
    BY <1>0, <1>1, <2>3 DEF Service!Judged, Service!Turn, Service!Verdicts, Runs, Terminals
  <2> QED
    BY <2>4 DEF ServiceStep, Service!ServiceNext, Service!RunStep
<1>9. ASSUME job[r] = "running" \/ job[r] = "queued", records' = records, job'[r] \in {"finished", "retiring"}
      PROVE  RunOf(r)' = "dropped" /\ RunOf(r) = (IF job[r] = "running" THEN "running" ELSE "accepted")
  <2>2. ~(records[r] # <<>> /\ Last(records[r]) \in Terminals)
    <3>1. \A i \in 1..Len(records[r]) : records[r][i] = "progress"
      BY <1>2, <1>9 DEF Log
    <3>2. records[r] # <<>> => Last(records[r]) = "progress"
      BY <1>2, <3>1 DEF Last
    <3> QED
      BY <3>2 DEF Terminals
  <2> QED
    BY <1>9, <2>2 DEF RunOf
<1>10. CASE Break(r)
  <2>1. job[r] = "running" /\ job'[r] = "retiring" /\ records' = records
    BY <1>10 DEF Break, JobInv, JobTypes
  <2>2. RunOf(r) = "running" /\ RunOf(r)' = "dropped"
    BY <1>9, <2>1
  <2>3. Service!Broken(r)
    BY <1>0, <1>1, <2>2 DEF Service!Broken, Service!Turn, Runs
  <2> QED
    BY <2>3 DEF ServiceStep, Service!ServiceNext, Service!RunStep
<1>7. CASE Terminate(r)
  <2>1. job[r] \in {"queued", "running"} /\ job'[r] \in {"finished", "retiring"} /\ records' = records /\ bridge = "closing"
    BY <1>7 DEF Terminate, JobInv, JobTypes, QueueInv
  <2>3. RunOf(r) \in {"accepted", "running"} /\ RunOf(r)' = "dropped"
    BY <1>9, <2>1
  <2>4. Service!Dropped(r)
    BY <1>0, <1>1, <2>1, <2>3 DEF Service!Dropped, Service!Turn, Service!Ongoing, Runs
  <2> QED
    BY <2>4 DEF ServiceStep, Service!ServiceNext, Service!RunStep
<1>8. CASE Retire(r)
  <2>1. job[r] = "retiring" /\ job'[r] = "finished" /\ records' = records
    BY <1>8 DEF Retire, JobInv, JobTypes
  <2>2. RunOf(r)' = RunOf(r)
    BY <2>1 DEF RunOf
  <2> QED
    BY <1>3, <2>2
<1> QED
  BY <1>4, <1>5, <1>6, <1>7, <1>8, <1>10

\* The bridge stops and starts.
LEMMA ProcessServes ==
  ASSUME JobInv, JobInv', Close \/ Closed \/ Restart, UNCHANGED <<wire, outcome>>
  PROVE  ServiceStep
<1>0. Words' = Words /\ Answers' = Answers
  BY SameWords, SameAnswers
<1>1. CASE Close
  <2>1. ASSUME NEW r \in Requests PROVE RunOf(r)' = RunOf(r)
    BY <1>1 DEF Close, RunOf
  <2>2. Runs' = Runs
    BY <2>1 DEF Runs
  <2>3. Service!Stopping
    BY <1>0, <1>1, <2>2 DEF Service!Stopping, Close
  <2> QED
    BY <2>3 DEF ServiceStep, Service!ServiceNext
<1>2. CASE Closed
  <2>1. Runs' = Runs
    BY <1>2, SameRuns DEF Closed, jobVars
  <2>2. ASSUME NEW r \in Requests PROVE Runs[r] \notin {"accepted", "running"}
    <3>1. job[r] \notin {"queued", "running"}
      BY <1>2 DEF Closed, JobInv, QueueInv
    <3> QED
      BY <3>1, RunShape DEF Runs
  <2>3. Service!Stopped
    BY <1>0, <1>2, <2>1, <2>2 DEF Service!Stopped, Service!Ongoing, Closed
  <2> QED
    BY <2>3 DEF ServiceStep, Service!ServiceNext
<1>3. CASE Restart
  <2>1. ASSUME NEW r \in Requests PROVE RunOf(r)' = "absent"
    BY <1>3 DEF Restart, RunOf
  <2>2. Runs' = [r \in Requests |-> "absent"]
    BY <2>1 DEF Runs
  <2>3. Service!Started
    BY <1>0, <1>3, <2>2 DEF Service!Started, Restart
  <2> QED
    BY <2>3 DEF ServiceStep, Service!ServiceNext
<1> QED
  BY <1>1, <1>2, <1>3

\* Every step is one of the service, or none of its concern.
LEMMA StepsServe ==
  ASSUME JobInv, JobInv', WireInv, WireInv', [Next]_vars
  PROVE  ServiceStep
<1>1. CASE \E r \in Requests : ClientStep(r)
  BY <1>1, ClientServes
<1>2. ASSUME NEW r \in Requests, BridgeStep(r), UNCHANGED <<clientVars, apiRestarts>> PROVE ServiceStep
  <2>1. CASE WriteRecords(r) \/ Drained(r)
    BY <1>2, <2>1, StreamServes
  <2>2. CASE Launch(r) \/ Progress(r) \/ (\E kind \in Terminals : Finish(r, kind)) \/ Break(r) \/ Terminate(r) \/ Retire(r)
    <3>1. UNCHANGED wire
      BY <2>2 DEF Launch, Progress, Finish, Break, Terminate, Retire, streamVars
    <3>2. UNCHANGED outcome
      BY <1>2 DEF clientVars
    <3> QED
      BY <2>2, <3>1, <3>2, JobServes
  <2> QED
    BY <1>2, <2>1, <2>2 DEF BridgeStep
<1>3. CASE StopBridge \/ (BridgeRestart /\ UNCHANGED <<clientVars, apiRestarts>>)
  <2>1. Close \/ Closed \/ Restart
    BY <1>3 DEF StopBridge, BridgeRestart
  <2>2. UNCHANGED <<wire, outcome>>
    BY <1>3, <2>1 DEF StopBridge, Close, Closed, Restart, streamVars, clientVars
  <2> QED
    BY <2>1, <2>2, ProcessServes
<1>4. CASE ApiRestart
  <2>1. Runs' = Runs /\ Answers' = Answers /\ bridge' = bridge
    BY <1>4, SameRuns, SameAnswers DEF ApiRestart, BridgeAside, jobVars
  <2>2. ASSUME NEW r \in Requests PROVE WordOf(r)' = {}
    <3>1. wire'[r] = <<>>
      BY <1>4 DEF ApiRestart
    <3> QED
      BY <3>1 DEF WordOf
  <2>3. Words' = [r \in Requests |-> IF r \in Requests THEN {} ELSE Words[r]]
    BY <2>2 DEF Words
  <2>4. Service!Lost
    BY <2>1, <2>3 DEF Service!Lost
  <2> QED
    BY <2>4 DEF ServiceStep, Service!ServiceNext
<1>5. CASE UNCHANGED vars
  <2>1. UNCHANGED <<job, records, wire, outcome, bridge>>
    BY <1>5 DEF vars, bridgeVars, jobVars, streamVars, clientVars
  <2> QED
    BY <2>1, SameRuns, SameWords, SameAnswers DEF ServiceStep, Service!serviceVars
<1> QED
  BY <1>1, <1>2, <1>3, <1>4, <1>5 DEF Next

-----------------------------------------------------------------------------
(* What follows.                                                           *)

\* Every variable holds a value of its kind.
THEOREM TypeCorrect == Spec => []TypeOK
<1>1. ASSUME JobInv, WireInv PROVE TypeOK
  <2>1. slots \in 0..BridgeSlots
    <3> DEFINE R == {r \in Requests : job[r] = "running"}
    <3>1. IsFiniteSet(R) /\ Cardinality(R) \in Nat
      BY ExecutionAssumption, FS_Subset, FS_CardinalityType
    <3>2. slots \in Nat /\ slots + Cardinality(R) = BridgeSlots
      BY <1>1 DEF JobInv, JobTypes, BridgeSlotsAccounted
    <3> HIDE DEF R
    <3> QED
      BY <3>1, <3>2, BridgeAssumption
  <2> QED
    BY <1>1, <2>1 DEF TypeOK, JobInv, JobTypes, CacheInv, WireInv, WireTypes, Events
<1> QED
  BY <1>1, WireInvariant, PTL

\* No line that the executor reads is out of its order.
THEOREM SequenceAcceptedTheorem == Spec => []SequenceAccepted
<1>1. WireInv => SequenceAccepted
  BY DEF WireInv, SequenceAccepted
<1> QED
  BY <1>1, WireInvariant, PTL

\* As long as the bridge was not stopped, did not run a request again and the run
\* did not break, the outcome of a task is the result of its job, and no connection
\* is given up.
THEOREM OutcomeIsTheJobsTheorem == Spec => []OutcomeIsTheJobs
<1>1. ASSUME JobInv, WireInv PROVE OutcomeIsTheJobs
  <2> SUFFICES ASSUME NEW r \in Requests, bridgeStops = 0, launches[r] <= 1, RunOf(r) # "dropped"
               PROVE  /\ outcome[r] \notin {"lost", "refused"}
                      /\ outcome[r] \in Terminals => records[r] # <<>> /\ Last(records[r]) = outcome[r]
    BY DEF OutcomeIsTheJobs
  <2>1. launches[r] \in Nat /\ Heals(r) /\ ~Unjudged(r)
    BY <1>1 DEF JobInv, JobTypes, WireInv, Unjudged, RunOf
  <2> QED
    BY <2>1 DEF Heals
<1> QED
  BY <1>1, WireInvariant, PTL

\* A slot of the bridge is free or that of a running job, whatever became of the
\* client that asked for it.
THEOREM BridgeSlotsTheorem == Spec => []BridgeSlotsAccounted
<1>1. JobInv => BridgeSlotsAccounted
  BY DEF JobInv
<1> QED
  BY <1>1, JobsInvariant, PTL

\* The bridge and the executor implement the service: a run per request, launched
\* once, whose own verdict is the only one that the API can hear.
THEOREM ImplementsRunServiceTheorem == Spec => ImplementsRunService
<1>1. Init => Service!ServiceInit
  <2> SUFFICES ASSUME Init PROVE Service!ServiceInit
    OBVIOUS
  <2>1. \A r \in Requests : RunOf(r) = "absent" /\ WordOf(r) = {} /\ AnswerOf(r) = "none"
    BY DEF Init, BridgeInit, RunOf, WordOf, AnswerOf
  <2>2. bridge = "up"
    BY DEF Init, BridgeInit
  <2> QED
    BY <2>1, <2>2 DEF Service!ServiceInit, Runs, Words, Answers
<1>2. JobInv /\ JobInv' /\ WireInv /\ WireInv' /\ [Next]_vars => [Service!ServiceNext]_(Service!serviceVars)
  BY StepsServe DEF ServiceStep
<1> QED
  BY <1>1, <1>2, WireInvariant, PTL DEF Spec, ImplementsRunService, Service!ServiceSpec

\* What the API has taken as the answer of a run is final, and a bridge that is
\* down has left no run behind, accepted or running.
THEOREM NothingOutlivesTheService ==
  Spec => /\ [][\A r \in Requests : Answers[r] # "none" => Answers'[r] = Answers[r]]_(Service!serviceVars)
          /\ [](bridge = "down" => \A r \in Requests : Runs[r] \notin Service!Ongoing)
<1> DEFINE Quiet == bridge = "down" => \A r \in Requests : Runs[r] \notin Service!Ongoing
           Final == \A r \in Requests : Answers[r] # "none" => Answers'[r] = Answers[r]
<1>1. Service!ServiceInit => Quiet
  BY DEF Service!ServiceInit
<1>2. ASSUME Service!ServiceNext PROVE Final
  <2>1. CASE UNCHANGED Answers
    BY <2>1
  <2>2. ASSUME NEW q \in Requests, Service!Answered(q) PROVE Final
    <3>1. PICK a : Answers[q] = "none" /\ Answers' = [Answers EXCEPT ![q] = a]
      BY <2>2 DEF Service!Answered
    <3> QED
      BY <3>1 DEF Answers
  <2>3. ~UNCHANGED Answers => \E q \in Requests : Service!Answered(q)
    BY <1>2 DEF Service!ServiceNext, Service!RunStep, Service!Accepted, Service!Launched, Service!Judged, Service!Dropped, Service!Broken,
                Service!Sent, Service!Lost, Service!Stopping, Service!Stopped, Service!Started, Service!Turn
  <2> QED
    BY <2>1, <2>2, <2>3
<1>3. ASSUME Quiet, [Service!ServiceNext]_(Service!serviceVars) PROVE Quiet'
  <2>1. CASE UNCHANGED <<bridge, Runs>>
    BY <1>3, <2>1
  <2>2. ASSUME NEW q \in Requests, NEW from, NEW to, Service!Turn(q, from, to),
               bridge = "up" \/ bridge = "closing" \/ from \subseteq Service!Ongoing
        PROVE  Quiet'
    <3>1. Runs[q] \in from /\ bridge' = bridge
      BY <2>2 DEF Service!Turn
    <3> QED
      BY <1>3, <2>2, <3>1
  <2>3. CASE Service!Stopped \/ Service!Started \/ Service!Stopping
    BY <2>3 DEF Service!Stopped, Service!Started, Service!Stopping
  <2>4. CASE \E q \in Requests : Service!RunStep(q)
    <3>1. PICK q \in Requests : Service!RunStep(q)
      BY <2>4
    <3>2. CASE Service!Accepted(q)
      BY <2>2, <3>2 DEF Service!Accepted
    <3>3. CASE Service!Launched(q) \/ Service!Judged(q)
      BY <2>2, <3>3 DEF Service!Launched, Service!Judged, Service!Ongoing
    <3>4. CASE Service!Dropped(q)
      BY <2>2, <3>4 DEF Service!Dropped
    <3>6. CASE Service!Broken(q)
      BY <2>2, <3>6 DEF Service!Broken, Service!Ongoing
    <3>5. CASE Service!Sent(q) \/ Service!Answered(q)
      BY <2>1, <3>5 DEF Service!Sent, Service!Answered
    <3> QED
      BY <3>1, <3>2, <3>3, <3>4, <3>5, <3>6 DEF Service!RunStep
  <2>5. CASE Service!Lost
    BY <2>1, <2>5 DEF Service!Lost
  <2> QED
    BY <1>3, <2>1, <2>3, <2>4, <2>5 DEF Service!ServiceNext, Service!serviceVars
<1>4. Spec => Service!ServiceSpec
  BY ImplementsRunServiceTheorem DEF ImplementsRunService
<1> QED
  BY <1>1, <1>2, <1>3, <1>4, PTL DEF Service!ServiceSpec

=============================================================================
