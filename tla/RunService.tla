---------------------------- MODULE RunService -----------------------------
(***************************************************************************)
(* What the bridge and the executor promise together about one run of      *)
(* Hermes per request, whatever connections, replays, queues and slots     *)
(* they serve it with.  PluginExecution implements it.                     *)
(***************************************************************************)
EXTENDS Naturals, FiniteSets

CONSTANTS
  Requests,         \* request ids
  Retention         \* how many other runs must be over before one may be forgotten

VARIABLES
  service,          \* "up", "closing" or "down"
  run,              \* the run of each request in this life of the service
  word,             \* the verdicts on their way to the API
  answer            \* what the API took: a verdict, or an error of its own

serviceVars == <<service, run, word, answer>>

Verdicts == {"completed", "failed"}
Ongoing == {"accepted", "running"}
Over == Verdicts \union {"dropped"}

Turn(r, from, to) ==
  /\ run[r] \in from
  /\ run' = [run EXCEPT ![r] = to]
  /\ UNCHANGED <<service, word, answer>>

\* Work is taken as long as the service is up, and a request that is over is run
\* again only if it has no verdict or the retained runs may have pushed it out.
Accepted(r) ==
  /\ service = "up"
  /\ \/ run[r] \in {"absent", "dropped"}
     \/ Cardinality({q \in Requests \ {r} : run[q] # "absent"}) >= Retention
  /\ Turn(r, {"absent"} \union Over, "accepted")

Launched(r) == Turn(r, {"accepted"}, "running")

Judged(r) == \E v \in Verdicts : Turn(r, {"running"}, v)

\* A service that stops gives up its runs.
Dropped(r) ==
  /\ service = "closing"
  /\ Turn(r, Ongoing, "dropped")

\* A run of Hermes breaks and ends without a verdict.  Work that was not launched
\* does not break.
Broken(r) == Turn(r, {"running"}, "dropped")

\* The verdict of a run is sent, as often as it is asked for; a service that
\* stops refuses a request that has no run.
Sent(r) ==
  /\ \E v \in Verdicts :
       /\ \/ run[r] = v
          \/ v = "failed" /\ service = "closing" /\ run[r] \notin Ongoing
       /\ word' = [word EXCEPT ![r] = {v}]
  /\ UNCHANGED <<service, run, answer>>

\* Connections break off, those of all requests when the API dies.
Lost ==
  /\ \E gone \in SUBSET Requests :
       word' = [r \in Requests |-> IF r \in gone THEN {} ELSE word[r]]
  /\ UNCHANGED <<service, run, answer>>

\* The API takes one answer, a verdict that was sent or an error of its own.
Answered(r) ==
  /\ answer[r] = "none"
  /\ \E a \in word[r] \union {"error"} : answer' = [answer EXCEPT ![r] = a]
  /\ word' = [word EXCEPT ![r] = {}]
  /\ UNCHANGED <<service, run>>

Stopping ==
  /\ service = "up"
  /\ service' = "closing"
  /\ UNCHANGED <<run, word, answer>>

\* No run outlives the service.
Stopped ==
  /\ service = "closing"
  /\ \A r \in Requests : run[r] \notin Ongoing
  /\ service' = "down"
  /\ UNCHANGED <<run, word, answer>>

Started ==
  /\ service = "down"
  /\ service' = "up"
  /\ run' = [r \in Requests |-> "absent"]
  /\ UNCHANGED <<word, answer>>

-----------------------------------------------------------------------------

ServiceInit ==
  /\ service = "up"
  /\ run = [r \in Requests |-> "absent"]
  /\ word = [r \in Requests |-> {}]
  /\ answer = [r \in Requests |-> "none"]

RunStep(r) == Accepted(r) \/ Launched(r) \/ Judged(r) \/ Dropped(r) \/ Broken(r) \/ Sent(r) \/ Answered(r)

ServiceNext == (\E r \in Requests : RunStep(r)) \/ Lost \/ Stopping \/ Stopped \/ Started

ServiceSpec == ServiceInit /\ [][ServiceNext]_serviceVars

=============================================================================
