------------------------- MODULE EventStream_proofs -------------------------
(***************************************************************************)
(* Proofs about EventStream, for any set of tasks, any number of changes,  *)
(* of refreshes that overlap, and of lost connections and restarts.  That  *)
(* no message of an open socket is ignored rests on what the numbers on    *)
(* the link are: they rise, none is above the counter of the API, and a    *)
(* socket that has not brought its snapshot still begins with it.          *)
(***************************************************************************)
EXTENDS EventStream, FiniteSetTheorems, TLAPS

\* Time has not passed the bound, and every broadcast that is sent or still to
\* come is one of the changes that have been made.
Counted ==
  /\ IsFiniteSet(unsent)
  /\ seq + Cardinality(unsent) <= changes
  /\ \A t \in Tasks : version[t] <= changes /\ stored[t] <= changes

\* The parts of TypeOK about the API and about the app.
ServerTypes ==
  /\ version \in Views
  /\ stored \in Views
  /\ changes \in 0 .. MaxChanges
  /\ unsent \subseteq Tasks \X (1 .. MaxChanges)
  /\ seq \in 0 .. MaxChanges
  /\ breaks \in 0 .. MaxBreaks

AppTypes ==
  /\ connected \in BOOLEAN
  /\ link \in Seq(Messages)
  /\ received \in BOOLEAN
  /\ lastSeq \in 0 .. MaxChanges
  /\ view \in Views
  /\ stale \in BOOLEAN
  /\ cache \in Views
  /\ wanted \in BOOLEAN
  /\ refresh \in [Refreshes -> {"idle", "sent", "answered"}]
  /\ answer \in [Refreshes -> Views]
  /\ missed \in BOOLEAN
  /\ raced \in BOOLEAN

\* Every variable holds a value of its kind.
THEOREM TypeCorrect == Spec => [](TypeOK /\ Counted)
<1> USE StreamAssumption
<1>0. <<>> \in Seq(Messages) /\ MaxChanges \in Nat /\ MaxBreaks \in Nat
  OBVIOUS
<1>1. ASSUME Init PROVE TypeOK /\ Counted
  <2>1. IsFiniteSet(unsent) /\ Cardinality(unsent) = 0
    BY <1>1, FS_EmptySet DEF Init
  <2>2. version \in Views /\ \A t \in Tasks : version[t] = 0
    BY <1>0, <1>1 DEF Init, Views
  <2>3. TypeOK
    <3>1. ServerTypes
      BY <1>0, <1>1, <2>2 DEF Init, ServerTypes
    <3>2. /\ refresh \in [Refreshes -> {"idle", "sent", "answered"}]
          /\ answer \in [Refreshes -> Views]
      BY <1>1, <2>2 DEF Init
    <3>3. AppTypes
      <4>1. view \in Views /\ cache \in Views /\ link \in Seq(Messages) /\ lastSeq \in 0 .. MaxChanges
        BY <1>0, <1>1, <2>2 DEF Init
      <4>2. {connected, received, stale, wanted, missed, raced} \subseteq BOOLEAN
        BY <1>1 DEF Init
      <4> QED
        BY <3>2, <4>1, <4>2 DEF AppTypes
    <3> QED
      BY <3>1, <3>3, Zenon DEF TypeOK, ServerTypes, AppTypes
  <2>4. Counted
    BY <1>1, <2>1, <2>2 DEF Init, Counted
  <2> QED
    BY <2>3, <2>4
<1>2. ASSUME TypeOK, Counted, [Next]_vars PROVE TypeOK' /\ Counted'
  <2> USE <1>2 DEF TypeOK, Counted
  <2> USE DEF storeVars, serverVars, linkVars, viewVars, refreshVars, history
  <2> DEFINE N == Cardinality(unsent)
  <2>0. N \in Nat
    BY FS_CardinalityType
  <2>1. ASSUME NEW t \in Tasks, Versioned(t)
        PROVE  /\ changes' \in 1 .. MaxChanges /\ changes' = changes + 1
               /\ version' \in Views
               /\ version' = [version EXCEPT ![t] = changes']
               /\ version'[t] = changes'
               /\ \A u \in Tasks : version'[u] <= changes'
    <3>1. changes \in Nat /\ changes' = changes + 1 /\ changes' \in 1 .. MaxChanges
      BY <2>1 DEF Versioned
    <3>2. version \in Views /\ version' = [version EXCEPT ![t] = changes'] /\ \A u \in Tasks : version[u] <= changes
      BY <2>1 DEF Versioned
    <3>3. version' \in Views /\ version'[t] = changes' /\ \A u \in Tasks : u # t => version'[u] = version[u]
      BY <3>1, <3>2 DEF Views
    <3>4. \A u \in Tasks : version[u] \in Nat
      BY <3>2 DEF Views
    <3>5. \A u \in Tasks : version'[u] <= changes'
      BY <3>1, <3>2, <3>3, <3>4
    <3> QED
      BY <3>1, <3>2, <3>3, <3>5
  <2>2. ASSUME NEW t \in Tasks, Change(t) PROVE TypeOK' /\ Counted'
    <3>1. Versioned(t)
      BY <2>2 DEF Change
    <3>2. stored' \in Views
      BY <2>2, <2>1, <3>1 DEF Change, Views
    <3>3. unsent' \subseteq Tasks \X (1 .. MaxChanges)
      BY <2>2, <2>1, <3>1 DEF Change
    <3>4. IsFiniteSet(unsent') /\ Cardinality(unsent') <= N + 1 /\ Cardinality(unsent') \in Nat
      <4>1. unsent' = unsent \union {<<t, version'[t]>>}
        BY <2>2 DEF Change
      <4>2. IsFiniteSet(unsent') /\ (Cardinality(unsent') = N \/ Cardinality(unsent') = N + 1)
        BY <4>1, FS_AddElement
      <4> QED
        BY <2>0, <4>2
    <3>8. TypeOK'
      BY <2>0, <2>1, <2>2, <3>1, <3>2, <3>3, <3>4 DEF Change
    <3>9. Counted'
      <4>0. /\ changes' = changes + 1 /\ changes \in Nat /\ version'[t] = changes'
            /\ \A u \in Tasks : version'[u] <= changes'
        BY <2>1, <3>1
      <4>1. \A u \in Tasks : version'[u] <= changes' /\ stored'[u] <= changes'
        <5> SUFFICES ASSUME NEW u \in Tasks PROVE stored'[u] <= changes'
          BY <4>0
        <5>1. stored[u] \in Nat /\ stored[u] <= changes
          BY DEF Views
        <5>2. stored'[u] \in {stored[u], changes'}
          BY <2>2, <4>0 DEF Change, Views
        <5> QED
          BY <4>0, <5>1, <5>2
      <4>2. seq' + Cardinality(unsent') <= changes'
        BY <2>0, <2>1, <2>2, <3>1, <3>4 DEF Change
      <4> QED
        BY <3>4, <4>1, <4>2
    <3> QED
      BY <3>8, <3>9
  <2>3. ASSUME NEW t \in Tasks, StoreFails(t) PROVE TypeOK' /\ Counted'
    <3>1. Versioned(t)
      BY <2>3 DEF StoreFails
    <3>2. stored' \in Views
      BY <2>3, <2>1, <3>1 DEF StoreFails, Views
    <3>8. TypeOK'
      BY <2>0, <2>1, <2>3, <3>1, <3>2 DEF StoreFails
    <3>9. Counted'
      <4>0. /\ changes' = changes + 1 /\ changes \in Nat /\ version'[t] = changes'
            /\ \A u \in Tasks : version'[u] <= changes'
        BY <2>1, <3>1
      <4>1. \A u \in Tasks : version'[u] <= changes' /\ stored'[u] <= changes'
        <5> SUFFICES ASSUME NEW u \in Tasks PROVE stored'[u] <= changes'
          BY <4>0
        <5>1. stored[u] \in Nat /\ stored[u] <= changes
          BY DEF Views
        <5>2. stored'[u] \in {stored[u], changes'}
          BY <2>3, <4>0 DEF StoreFails, Views
        <5> QED
          BY <4>0, <5>1, <5>2
      <4>2. IsFiniteSet(unsent') /\ seq' + Cardinality(unsent') <= changes'
        BY <2>0, <2>1, <2>3, <3>1 DEF StoreFails
      <4> QED
        BY <4>1, <4>2
    <3> QED
      BY <3>8, <3>9
  <2>4. ASSUME NEW t \in Tasks, NEW v \in 1 .. MaxChanges, Broadcast(t, v) PROVE TypeOK' /\ Counted'
    <3>1. IsFiniteSet(unsent') /\ Cardinality(unsent') = N - 1
      BY <2>0, <2>4, FS_RemoveElement DEF Broadcast
    <3>2. N # 0
      BY <2>4, FS_EmptySet DEF Broadcast
    <3>3. seq' \in 1 .. MaxChanges
      BY <2>0, <2>4, <3>2 DEF Broadcast
    <3>4. link' \in Seq(Messages)
      <4>1. CASE link' = Append(link, [kind |-> "event", seq |-> seq', task |-> t, version |-> v])
        <5>1. [kind |-> "event", seq |-> seq', task |-> t, version |-> v] \in Messages
          BY <3>3 DEF Messages
        <5> QED
          BY <4>1, <5>1
      <4>2. CASE UNCHANGED link
        BY <4>2
      <4> QED
        BY <2>4, <4>1, <4>2 DEF Broadcast
    <3>8. TypeOK'
      <4>1. ServerTypes'
        BY <2>0, <2>4, <3>1, <3>3, <3>4 DEF Broadcast, ServerTypes
      <4>2. AppTypes'
        BY <2>0, <2>4, <3>1, <3>3, <3>4 DEF Broadcast, AppTypes
      <4> QED
        BY <4>1, <4>2, Zenon DEF TypeOK, ServerTypes, AppTypes
    <3>9. Counted'
      <4>1. changes' = changes /\ seq' = seq + 1 /\ version' = version /\ stored' = stored
        BY <2>4 DEF Broadcast
      <4>2. seq \in Nat /\ changes \in Nat /\ seq + N <= changes
        OBVIOUS
      <4>3. seq' + Cardinality(unsent') <= changes'
        BY <2>0, <3>1, <4>1, <4>2
      <4> QED
        BY <3>1, <4>1, <4>3
    <3> QED
      BY <3>8, <3>9
  <2>5. CASE Restart
    <3>1. IsFiniteSet(unsent') /\ Cardinality(unsent') = 0
      BY <2>5, FS_EmptySet DEF Restart
    <3>2. changes \in Nat /\ changes' = changes
      BY <2>5 DEF Restart
    <3>8. TypeOK'
      <4>1. ServerTypes'
        BY <1>0, <2>5, <3>1, <3>2 DEF Restart, ServerTypes
      <4>2. AppTypes'
        BY <1>0, <2>5, <3>1, <3>2 DEF Restart, AppTypes
      <4> QED
        BY <4>1, <4>2, Zenon DEF TypeOK, ServerTypes, AppTypes
    <3>9. Counted'
      BY <1>0, <2>5, <3>1, <3>2 DEF Restart
    <3> QED
      BY <3>8, <3>9
  <2>6. CASE Connect
    <3>1. [kind |-> "snapshot", seq |-> seq, tasks |-> version] \in Messages
      BY DEF Messages
    <3>2. link' \in Seq(Messages)
      BY <2>6, <3>1 DEF Connect
    <3> QED
      BY <2>6, <3>2 DEF Connect, ReceivedByNewSocket
  <2>7. CASE Drop
    <3>1. TypeOK'
      <4>1. ServerTypes'
        BY <1>0, <2>7 DEF Drop, ServerTypes
      <4>2. AppTypes'
        BY <1>0, <2>7 DEF Drop, AppTypes
      <4> QED
        BY <4>1, <4>2, Zenon DEF TypeOK, ServerTypes, AppTypes
    <3>2. Counted'
      BY <2>7 DEF Drop
    <3> QED
      BY <3>1, <3>2
  <2>8. CASE ReceiveSnapshot
    <3>1. Head(link) \in Messages /\ link' \in Seq(Messages)
      BY <2>8 DEF ReceiveSnapshot
    <3>2. Head(link).seq \in 0 .. MaxChanges /\ Head(link).tasks \in Views
      BY <2>8, <3>1 DEF ReceiveSnapshot, Messages
    <3> QED
      BY <2>8, <3>1, <3>2 DEF ReceiveSnapshot
  <2>9. CASE ReceiveEvent
    <3>1. Head(link) \in Messages /\ link' \in Seq(Messages)
      BY <2>9 DEF ReceiveEvent
    <3>2. /\ Head(link).seq \in 0 .. MaxChanges
          /\ Head(link).task \in Tasks /\ Head(link).version \in 0 .. MaxChanges
      BY <2>9, <3>1 DEF ReceiveEvent, Messages
    <3>3. Merge(view, Head(link)) \in Views
      BY <3>2 DEF Merge, Views
    <3> QED
      BY <2>9, <3>1, <3>2, <3>3 DEF ReceiveEvent, WantedAfterEvent
  <2>10. ASSUME NEW r \in Refreshes, RefreshDue(r) \/ Poll(r) PROVE TypeOK' /\ Counted'
    BY <2>10 DEF RefreshDue, Poll, Send
  <2>11. ASSUME NEW r \in Refreshes, Answer(r) PROVE TypeOK' /\ Counted'
    BY <2>11 DEF Answer
  <2>12. ASSUME NEW r \in Refreshes, Apply(r) \/ Fail(r) PROVE TypeOK' /\ Counted'
    <3>1. [t \in Tasks |-> 0] \in Views
      BY DEF Views
    <3>2. answer' \in [Refreshes -> Views]
      BY <2>12, <3>1 DEF Apply, Fail, Forget
    <3> QED
      BY <2>12, <3>2, ZenonT(30) DEF Apply, Fail, Shown
  <2>13. CASE UNCHANGED vars
    BY <2>13 DEF vars
  <2> QED
    BY <2>2, <2>3, <2>4, <2>5, <2>6, <2>7, <2>8, <2>9, <2>10, <2>11, <2>12, <2>13 DEF Next
<1> QED
  BY <1>1, <1>2, PTL DEF Spec

-----------------------------------------------------------------------------

\* The numbers on the link rise up to the counter of the API.
Rising ==
  /\ \A i \in DOMAIN link : link[i].seq <= seq
  /\ \A i, j \in DOMAIN link : i < j => link[i].seq < link[j].seq

\* A socket that has brought its snapshot brings what the app has not seen; one
\* that has not still begins with it; and a closed one has nothing.
LinkInv ==
  /\ connected => Rising
  /\ connected /\ received => lastSeq <= seq /\ \A i \in DOMAIN link : link[i].seq > lastSeq
  /\ connected /\ ~received => link # <<>> /\ link[1].kind = "snapshot"
  /\ ~connected => link = <<>>

\* The link is as LinkInv says whatever is lost, reordered or restarted.
THEOREM LinkInvariant == Spec => []LinkInv
<1> USE StreamAssumption
<1>1. Init => LinkInv
  BY DEF Init, LinkInv, Rising
<1>2. ASSUME TypeOK, LinkInv, [Next]_vars PROVE LinkInv'
  <2> USE <1>2 DEF LinkInv, Rising
  <2> USE DEF storeVars, serverVars, linkVars, viewVars, refreshVars, history
  <2>0. /\ seq \in Nat /\ lastSeq \in Nat /\ connected \in BOOLEAN /\ received \in BOOLEAN
        /\ link \in Seq(Messages)
        /\ \A i \in DOMAIN link : link[i].seq \in Nat
    BY DEF TypeOK, Messages
  <2>1. CASE UNCHANGED <<seq, linkVars>>
    BY <2>1
  <2>2. ASSUME NEW t \in Tasks, NEW v \in 1 .. MaxChanges, Broadcast(t, v) PROVE LinkInv'
    <3> DEFINE e == [kind |-> "event", seq |-> seq', task |-> t, version |-> v]
    <3>1. CASE UNCHANGED link
      BY <2>0, <2>2, <3>1 DEF Broadcast
    <3>2. CASE connected /\ link' = Append(link, e)
      <4>1. seq' = seq + 1 /\ e.seq = seq + 1
        BY <2>2 DEF Broadcast
      <4> HIDE DEF e
      <4>2. /\ DOMAIN link' = 1 .. (Len(link) + 1) /\ DOMAIN link = 1 .. Len(link)
            /\ Len(link) \in Nat
            /\ \A i \in DOMAIN link : link'[i] = link[i]
            /\ link'[Len(link) + 1] = e
        BY <2>0, <3>2
      <4>3. \A i \in DOMAIN link' : i \in DOMAIN link \/ i = Len(link) + 1
        BY <4>2
      <4>4. Rising'
        <5>1. \A i \in DOMAIN link' : link'[i].seq <= seq'
          BY <2>0, <3>2, <4>1, <4>2, <4>3
        <5>2. ASSUME NEW i \in DOMAIN link', NEW j \in DOMAIN link', i < j
              PROVE  link'[i].seq < link'[j].seq
          <6>1. i \in DOMAIN link
            BY <4>2, <5>2
          <6> QED
            BY <2>0, <3>2, <4>1, <4>2, <4>3, <5>2, <6>1
        <5> QED
          BY <5>1, <5>2
      <4>5. received => lastSeq <= seq' /\ \A i \in DOMAIN link' : link'[i].seq > lastSeq
        BY <2>0, <3>2, <4>1, <4>2, <4>3
      <4>6. ~received => link' # <<>> /\ link'[1].kind = "snapshot"
        BY <2>0, <3>2, <4>2
      <4> QED
        BY <2>2, <3>2, <4>4, <4>5, <4>6 DEF Broadcast
    <3> QED
      BY <2>2, <3>1, <3>2 DEF Broadcast
  <2>3. CASE Restart
    BY <2>3 DEF Restart
  <2>4. CASE Connect
    <3>1. /\ connected' /\ ~received' /\ seq' = seq
          /\ link' = <<[kind |-> "snapshot", seq |-> seq, tasks |-> version]>>
      BY <2>4 DEF Connect, ReceivedByNewSocket
    <3> QED
      BY <2>0, <3>1
  <2>5. CASE Drop
    BY <2>5 DEF Drop
  <2>6. CASE ReceiveSnapshot \/ ReceiveEvent
    <3>1. /\ link # <<>> /\ link' = Tail(link) /\ Head(link) = link[1]
          /\ connected /\ connected' = connected /\ seq' = seq
      BY <2>0, <2>6 DEF ReceiveSnapshot, ReceiveEvent
    <3>2. /\ \A i \in DOMAIN link' : i + 1 \in DOMAIN link /\ link'[i] = link[i + 1] /\ i \in Nat \ {0}
          /\ 1 \in DOMAIN link
      BY <2>0, <3>1
    <3>3. Rising'
      <4>1. \A i \in DOMAIN link' : link'[i].seq <= seq
        BY <2>0, <3>1, <3>2
      <4>2. ASSUME NEW i \in DOMAIN link', NEW j \in DOMAIN link', i < j
            PROVE  link'[i].seq < link'[j].seq
        <5>1. i + 1 < j + 1
          BY <3>2, <4>2
        <5> QED
          BY <3>1, <3>2, <5>1
      <4> QED
        BY <3>1, <4>1, <4>2
    <3>4. received'
      BY <2>6, <3>1 DEF ReceiveSnapshot, ReceiveEvent
    <3>5. \A i \in DOMAIN link' : link[1].seq < link'[i].seq
      <4>1. ASSUME NEW i \in DOMAIN link' PROVE link[1].seq < link'[i].seq
        <5>1. 1 < i + 1
          BY <3>2
        <5> QED
          BY <3>1, <3>2, <5>1
      <4> QED
        BY <4>1
    <3>6. lastSeq' = link[1].seq \/ (received /\ lastSeq' = lastSeq)
      <4>1. ReceiveSnapshot => lastSeq' = Head(link).seq \/ (received /\ lastSeq' = lastSeq)
        BY <2>0 DEF ReceiveSnapshot
      <4>2. ReceiveEvent => lastSeq' = Head(link).seq \/ (received /\ lastSeq' = lastSeq)
        BY <2>0, <3>1, <3>4 DEF ReceiveEvent
      <4> QED
        BY <2>6, <3>1, <4>1, <4>2
    <3>7. CASE lastSeq' = link[1].seq
      BY <3>1, <3>2, <3>3, <3>4, <3>5, <3>7
    <3>8. CASE received /\ lastSeq' = lastSeq
      BY <3>1, <3>2, <3>3, <3>4, <3>8
    <3> QED
      BY <3>6, <3>7, <3>8
  <2>7. CASE \E t \in Tasks : Change(t) \/ StoreFails(t)
    BY <2>1, <2>7 DEF Change, StoreFails, Versioned
  <2>8. CASE \E r \in Refreshes : RefreshDue(r) \/ Poll(r) \/ Answer(r) \/ Apply(r) \/ Fail(r)
    BY <2>1, <2>8 DEF RefreshDue, Poll, Send, Answer, Apply, Fail
  <2>9. CASE UNCHANGED vars
    BY <2>1, <2>9 DEF vars
  <2> QED
    BY <2>2, <2>3, <2>4, <2>5, <2>6, <2>7, <2>8, <2>9 DEF Next
<1> QED
  BY <1>1, <1>2, TypeCorrect, PTL DEF Spec

\* No message of an open socket is numbered at or below what the app has applied
\* from it, so that none is ignored: also after a restart, when the numbers of the
\* API begin again below those the app has seen.
THEOREM NothingIsIgnoredTheorem == Spec => []NothingIsIgnored
<1>1. LinkInv => NothingIsIgnored
  BY DEF LinkInv, NothingIsIgnored
<1> QED
  BY <1>1, LinkInvariant, PTL

-----------------------------------------------------------------------------

\* The app will still hear of a change of the task: its broadcast is to come or
\* on the link.
Pending(t) ==
  \/ \E v \in 1 .. MaxChanges : <<t, v>> \in unsent
  \/ \E i \in DOMAIN link : link[i].kind = "event" /\ link[i].task = t

\* The tasks are as the API has them, but for those it will still hear of.
Current(tasks) == \A t \in Tasks : tasks[t] = version[t] \/ Pending(t)

\* Where no refresh is due, one that is under way will be answered, or has been
\* answered, with the tasks as they are, or what is shown is as good.
FreshInv ==
  /\ ~raced => \A q, r \in Refreshes : refresh[q] # "idle" /\ refresh[r] # "idle" => q = r
  /\ ~missed /\ ~raced /\ connected /\ received /\ ~wanted =>
       \/ \E r \in Refreshes : refresh[r] = "sent"
       \/ \E r \in Refreshes : refresh[r] = "answered" /\ Current(answer[r])
       \/ (\A r \in Refreshes : refresh[r] = "idle") /\ (stale \/ Current(view))

\* A step that leaves the connection and the refreshes alone, and announces what
\* it changes, keeps FreshInv.
LEMMA StepFresh ==
  ASSUME FreshInv, UNCHANGED <<received, view, stale, wanted, refresh, answer, raced>>,
         connected' => connected, missed => missed',
         ~missed' /\ connected /\ received =>
           \A t \in Tasks : Pending(t)' \/ (version'[t] = version[t] /\ ~Pending(t))
  PROVE  FreshInv'
BY DEF FreshInv, Current

\* A change that is not shown, or will be shown by a refresh, is still announced.
THEOREM FreshInvariant == Spec => []FreshInv
<1> USE StreamAssumption
<1>1. Init => FreshInv
  BY DEF Init, FreshInv
<1>2. ASSUME TypeOK, LinkInv, FreshInv, [Next]_vars PROVE FreshInv'
  <2> USE <1>2
  <2> USE DEF storeVars, serverVars, linkVars, viewVars, refreshVars, history
  <2>0. link \in Seq(Messages) /\ version \in Views /\ changes \in Nat
        /\ refresh \in [Refreshes -> {"idle", "sent", "answered"}]
        /\ answer \in [Refreshes -> Views] /\ view \in Views
        /\ {connected, received, wanted, stale, raced, missed} \subseteq BOOLEAN
    BY DEF TypeOK
  <2>1. ASSUME NEW t \in Tasks, Change(t) PROVE FreshInv'
    <3>1. /\ changes' \in 1 .. MaxChanges /\ version' = [version EXCEPT ![t] = changes']
          /\ UNCHANGED <<connected, received, link, view, stale, wanted, refresh, answer, raced, missed>>
      BY <2>0, <2>1 DEF Change, Versioned
    <3>2. version'[t] = changes' /\ \A u \in Tasks : u # t => version'[u] = version[u]
      BY <2>0, <3>1 DEF Views
    <3>3. unsent' = unsent \union {<<t, version'[t]>>}
      BY <2>1 DEF Change
    <3>4. \A u \in Tasks : Pending(u) => Pending(u)'
      BY <3>1, <3>3 DEF Pending
    <3>5. Pending(t)'
      BY <3>1, <3>2, <3>3 DEF Pending
    <3> QED
      BY <3>1, <3>2, <3>4, <3>5, StepFresh
  <2>2. ASSUME NEW t \in Tasks, StoreFails(t) PROVE FreshInv'
    BY <2>2 DEF StoreFails, FreshInv
  <2>3. ASSUME NEW t \in Tasks, NEW v \in 1 .. MaxChanges, Broadcast(t, v) PROVE FreshInv'
    <3> DEFINE e == [kind |-> "event", seq |-> seq', task |-> t, version |-> v]
    <3>1. /\ UNCHANGED <<version, connected, received, view, stale, wanted, refresh, answer, raced>>
          /\ unsent' = unsent \ {<<t, v>>}
          /\ missed => missed'
          /\ connected /\ ~missed' => link' = Append(link, e)
      BY <2>0, <2>3 DEF Broadcast
    <3>2. ASSUME connected, ~missed', NEW u \in Tasks, Pending(u) PROVE Pending(u)'
      <4>0. link' = Append(link, e)
        BY <3>1, <3>2
      <4> HIDE DEF e
      <4>1. /\ \A i \in DOMAIN link : i \in DOMAIN link' /\ link'[i] = link[i]
            /\ Len(link) + 1 \in DOMAIN link' /\ link'[Len(link) + 1] = e
        BY <2>0, <4>0
      <4> USE DEF e
      <4>2. CASE u = t
        BY <4>1, <4>2 DEF Pending
      <4>3. CASE u # t
        BY <3>1, <3>2, <4>1, <4>3 DEF Pending
      <4> QED
        BY <4>2, <4>3
    <3> QED
      BY <3>1, <3>2, StepFresh
  <2>4. CASE Restart \/ Connect \/ Drop
    BY <2>4 DEF Restart, Connect, Drop, FreshInv
  <2>5. CASE ReceiveSnapshot
    <3>1. connected /\ 1 \in DOMAIN link /\ Head(link) = link[1] /\ link[1].seq \in Nat /\ lastSeq \in Nat
      BY <2>0, <2>5 DEF ReceiveSnapshot, LinkInv, TypeOK, Messages
    <3>2. wanted'
      BY <2>5, <3>1 DEF ReceiveSnapshot, LinkInv
    <3> QED
      BY <2>5, <3>2 DEF ReceiveSnapshot, FreshInv
  <2>6. CASE ReceiveEvent
    <3>1. connected /\ 1 \in DOMAIN link /\ Head(link) = link[1]
      BY <2>0, <2>6 DEF ReceiveEvent, LinkInv
    <3>2. received => wanted'
      BY <2>6, <3>1 DEF ReceiveEvent, LinkInv, WantedAfterEvent
    <3> QED
      BY <2>6, <3>2 DEF ReceiveEvent, FreshInv
  <2>7. ASSUME NEW r \in Refreshes, RefreshDue(r) \/ Poll(r) PROVE FreshInv'
    <3>1. refresh'[r] = "sent" /\ (raced => raced') /\ \A q \in Refreshes : q # r => refresh'[q] = refresh[q]
      BY <2>0, <2>7 DEF RefreshDue, Poll, Send
    <3>2. ~raced' => \A q \in Refreshes : refresh[q] = "idle"
      BY <2>7 DEF RefreshDue, Poll, Send
    <3> QED
      BY <3>1, <3>2 DEF FreshInv
  <2>8. ASSUME NEW r \in Refreshes, Answer(r) PROVE FreshInv'
    <3>1. /\ refresh[r] = "sent" /\ refresh'[r] = "answered" /\ answer'[r] = version
          /\ \A q \in Refreshes : q # r => refresh'[q] = refresh[q]
          /\ UNCHANGED <<version, raced>>
      BY <2>0, <2>8 DEF Answer
    <3>2. Current(answer[r])'
      BY <3>1 DEF Current
    <3> QED
      BY <3>1, <3>2 DEF FreshInv
  <2>9. ASSUME NEW r \in Refreshes, Apply(r) \/ Fail(r) PROVE FreshInv'
    <3>1. /\ refresh[r] # "idle" /\ refresh'[r] = "idle"
          /\ \A q \in Refreshes : q # r => refresh'[q] = refresh[q]
          /\ UNCHANGED <<serverVars, linkVars, wanted, history>>
          /\ Fail(r) => stale'
          /\ Apply(r) => refresh[r] = "answered" /\ view' = answer[r]
      BY <2>0, <2>9 DEF Apply, Fail, Shown
    <3>2. ~raced => \A q \in Refreshes : refresh'[q] = "idle" /\ (q # r => refresh[q] = "idle")
      BY <3>1 DEF FreshInv
    <3>3. Current(answer[r]) /\ view' = answer[r] => Current(view)'
      BY <3>1 DEF Current, Pending
    <3> QED
      BY <2>9, <3>1, <3>2, <3>3 DEF FreshInv
  <2>10. CASE UNCHANGED vars
    BY <2>10 DEF vars, FreshInv, Current, Pending
  <2> QED
    BY <2>1, <2>2, <2>3, <2>4, <2>5, <2>6, <2>7, <2>8, <2>9, <2>10 DEF Next
<1> QED
  BY <1>1, <1>2, TypeCorrect, LinkInvariant, PTL DEF Spec

\* A connected app in which nothing is under way shows the tasks as they are or
\* says that it does not, unless a broadcast failed or refreshes overlapped.
THEOREM FreshTheorem == Spec => []Fresh
<1>1. LinkInv /\ FreshInv /\ TypeOK => Fresh
  <2> SUFFICES ASSUME LinkInv, FreshInv, TypeOK, Settled, ~stale, ~missed, ~raced PROVE view = version
    BY DEF Fresh
  <2>1. connected /\ received /\ ~wanted /\ \A t \in Tasks : ~Pending(t)
    BY DEF Settled, LinkInv, Pending, TypeOK
  <2>2. \A t \in Tasks : view[t] = version[t]
    BY <2>1 DEF FreshInv, Settled, Current
  <2> QED
    BY <2>2 DEF TypeOK, Views
<1> QED
  BY <1>1, LinkInvariant, FreshInvariant, TypeCorrect, PTL

=============================================================================
