---------------------------- MODULE RateLimiter ----------------------------
(***************************************************************************)
(* RateLimiter of control_api/rate_limit.py as enforce_task_rate_limit of  *)
(* main.py uses it: a plain function that runs in the thread pool for each *)
(* request on a task.  allow() reads the clock before it takes the lock,   *)
(* so that a thread may decide on a time that others have overtaken, and   *)
(* the times it leaves behind need not be in order.                        *)
(***************************************************************************)
EXTENDS Integers, Sequences, FiniteSets

CONSTANTS
  Clients,          \* the hosts that send requests
  Threads,          \* of the pool
  MaxRequests,      \* max_requests
  Window,           \* window_seconds
  MaxTime           \* bound: the last time of the clock

ASSUME LimiterAssumption ==
  /\ Clients # {}
  /\ MaxRequests \in Nat \ {0}
  /\ Window \in Nat \ {0}
  /\ MaxTime \in Nat

VARIABLES
  now,              \* time.monotonic()
  requests,         \* _requests: the times kept for each client, in the order of arrival
  call,             \* of each thread: whom it asks for and the time it has read
  grants,           \* history: when each request that was let through read the clock
                    \* and when it was decided
  last              \* history: the last decision

limiterVars == <<now, requests, call, grants, last>>

NoCall == [busy |-> FALSE, client |-> CHOOSE c \in Clients : TRUE, current |-> 0]
NoDecision == [made |-> FALSE, allowed |-> FALSE, client |-> NoCall.client, current |-> 0]

LimiterInit ==
  /\ now = 0
  /\ requests = [c \in Clients |-> <<>>]
  /\ call = [t \in Threads |-> NoCall]
  /\ grants = [c \in Clients |-> <<>>]
  /\ last = NoDecision

-----------------------------------------------------------------------------

\* A request has come, and its thread reads the clock.
ReadClock(t, c) ==
  /\ ~call[t].busy
  /\ call' = [call EXCEPT ![t] = [busy |-> TRUE, client |-> c, current |-> now]]
  /\ last' = NoDecision
  /\ UNCHANGED <<now, requests, grants>>

\* Mutant: a time that is just a window old still counts.
ExpiredLate(at, current) == at < current - Window

\* The condition of the loop that drops the oldest times.
Expired(at, current) == at <= current - Window

\* popleft is called n times: it stops at the first time that has not expired.
Drops(n, times, current) ==
  /\ \A k \in 1 .. n : Expired(times[k], current)
  /\ n < Len(times) => ~Expired(times[n + 1], current)

\* The thread has the lock.
Decide(t) ==
  /\ call[t].busy
  /\ LET c == call[t].client
         current == call[t].current
     IN  \E n \in 0 .. Len(requests[c]) :
           LET kept == SubSeq(requests[c], n + 1, Len(requests[c]))
               allowed == Len(kept) < MaxRequests
           IN  /\ Drops(n, requests[c], current)
               /\ requests' = [requests EXCEPT ![c] = IF allowed THEN Append(kept, current) ELSE kept]
               /\ grants' = IF allowed
                            THEN [grants EXCEPT ![c] = Append(@, [read |-> current, at |-> now])]
                            ELSE grants
               /\ last' = [made |-> TRUE, allowed |-> allowed, client |-> c, current |-> current]
  /\ call' = [call EXCEPT ![t] = NoCall]
  /\ UNCHANGED now

Tick ==
  /\ now < MaxTime
  /\ now' = now + 1
  /\ last' = NoDecision
  /\ UNCHANGED <<requests, call, grants>>

LimiterNext ==
  \/ \E t \in Threads : Decide(t) \/ \E c \in Clients : ReadClock(t, c)
  \/ Tick

LimiterSpec == LimiterInit /\ [][LimiterNext]_limiterVars

-----------------------------------------------------------------------------

Grant == [read : 0..now, at : 0..now]

\* Every variable keeps its shape.
LimiterTypeOK ==
  /\ now \in 0..MaxTime
  /\ requests \in [Clients -> Seq(0..now)]
  /\ call \in [Threads -> [busy : BOOLEAN, client : Clients, current : 0..now]]
  /\ grants \in [Clients -> Seq(Grant)]
  /\ last \in [made : BOOLEAN, allowed : BOOLEAN, client : Clients, current : 0..now]

\* The grants of client c that were decided after time, those that were not held
\* up between reading the clock and deciding, if prompt.
Since(c, time, prompt) ==
  {k \in DOMAIN grants[c] :
     grants[c][k].at > time /\ (prompt => grants[c][k].read = grants[c][k].at)}

\* However the threads of a client overtake each other: a request is let through
\* only if the prompt ones that were let through in the window before it are fewer
\* than the limit, so that no more can exceed it than were held up; and a
\* request is turned away only if the limit was reached in the window before it,
\* at whichever end of the window the times are, and by the same client.
WindowIsKept ==
  last.made =>
    IF last.allowed
    THEN Cardinality(Since(last.client, now - Window, TRUE) \ {Len(grants[last.client])}) < MaxRequests
    ELSE Cardinality(Since(last.client, last.current - Window, FALSE)) >= MaxRequests

=============================================================================
