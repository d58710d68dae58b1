--------------------------- MODULE Attempts_proofs ---------------------------
(***************************************************************************)
(* Proofs about Attempts and the folder requests it is composed with, for  *)
(* any settings, folders, keys and threads.  The folders of a project need *)
(* an invariant about the requests under way: what each has read still     *)
(* holds as long as no removal, and no first addition, has crossed another *)
(* request.  The lineage and the context of an attempt need one about the  *)
(* submission under way: what it found at its first look.                  *)
(* A work thread is ordered by a recursion over its attempts.  Each list   *)
(* that the recursion returns is that of a tree, the trees of the children *)
(* of an attempt are apart, and lists of trees that are apart, one after   *)
(* the other, list them all with no attempt before its parent.             *)
(***************************************************************************)
EXTENDS Attempts, FiniteSetTheorems, WellFoundedInduction, TLAPS

Request ==
  [op : Ops \cup {None}, folder : Folders \cup {None}, step : {"idle", "row", "write"},
   primary : Folders \cup {None}, first : BOOLEAN]

\* The types of the project and of the requests on it.
Placed ==
  /\ rows \subseteq Folders
  /\ flagged \subseteq rows
  /\ primary \in Folders \cup {None}
  /\ shelved \in BOOLEAN
  /\ crossed \in BOOLEAN
  /\ request \in [Threads -> Request]

\* Only requests that neither remove a folder nor find none run side by side.
SideBySide ==
  \A a, b \in Busy : a # b => request[a].op # "remove" /\ rows # {}

\* What a request has read and checked still holds.
StillTrue(q) ==
  /\ q.step = "row" /\ q.op = "remove" => q.primary = primary
  /\ q.step = "write" =>
       /\ q.op = "add" => (q.first <=> rows = {})
       /\ q.op = "primary" => q.folder \in rows
       /\ q.op = "remove" => q.folder # primary /\ rows # {}

\* The invariant of the project's folders, until requests have crossed.
FoldersInv ==
  ~crossed => SideBySide /\ (\A r \in Threads : StillTrue(request[r])) /\ PrimaryIsOne

\* A request that writes folder f is one of add, remove and primary.
Named ==
  \A r \in Threads :
    request[r].step = "row" \/ (request[r].step = "write" /\ request[r].op \in {"add", "remove", "primary"})
      => request[r].folder \in Folders

\* A project begins with its folders in order.
LEMMA ProjectBegins == Init => Placed /\ Named /\ FoldersInv
<1> USE AttemptsAssumption, FoldersAssumption
<1> SUFFICES ASSUME Init PROVE Placed /\ Named /\ FoldersInv
  OBVIOUS
<1>1. /\ rows \subseteq Folders
      /\ primary \in IF rows = {} THEN {None} ELSE rows
      /\ flagged = rows \cap {primary}
      /\ shelved = FALSE /\ crossed = FALSE
      /\ request = [r \in Threads |-> Idle]
  BY DEF Init, CreatedWith
<1>2. Idle \in Request /\ Idle.step = "idle"
  BY DEF Idle, Request
<1>3. Busy = {}
  BY <1>1, <1>2 DEF Busy
<1> QED
  BY <1>1, <1>2, <1>3 DEF Placed, Named, FoldersInv, SideBySide, StillTrue, PrimaryIsOne

\* A request takes the last folder only where requests have crossed.
Retains == rows # {} /\ ~crossed' => rows' # {}

\* Each step of a request keeps the types and the invariant of the folders.
LEMMA FoldersStepKeeps ==
  ASSUME Placed, Named, FoldersInv, NEW r \in Threads, NEW ops, FoldersStep(r, ops)
  PROVE  Placed' /\ Named' /\ FoldersInv' /\ Retains
<1> USE FoldersAssumption DEF Placed, Named
<1>0. Idle \in Request /\ Idle.step = "idle"
  BY DEF Idle, Request
<1>1. ASSUME NEW op \in Ops, NEW folder \in Folders \cup {None}, ReadRow(r, op, folder),
             IF folder = None THEN op \in {"archive", "unarchive"} ELSE op \in {"add", "remove", "primary"}
      PROVE  Placed' /\ Named' /\ FoldersInv' /\ Retains
  <2> DEFINE q == [op |-> op, folder |-> folder, primary |-> primary, first |-> FALSE,
                   step |-> IF folder = None THEN "write" ELSE "row"]
  <2>1. /\ request' = [request EXCEPT ![r] = q] /\ request[r].step = "idle"
        /\ rows' = rows /\ flagged' = flagged /\ primary' = primary /\ shelved' = shelved
    BY <1>1 DEF ReadRow, projectVars
  <2>2. q \in Request /\ q.step # "idle" /\ q.op = op
    BY DEF Request
  <2>3. request' \in [Threads -> Request] /\ request'[r] = q
        /\ \A a \in Threads : a # r => request'[a] = request[a]
    BY <2>1, <2>2
  <2>4. Busy' = Busy \cup {r} /\ r \notin Busy
    BY <2>1, <2>2, <2>3 DEF Busy
  <2>5. crossed' \in BOOLEAN /\ (~crossed' => ~crossed)
    BY <1>1 DEF ReadRow
  <2>6. Placed' /\ Named'
    BY <1>1, <2>1, <2>2, <2>3, <2>5
  <2>7. ASSUME ~crossed' PROVE SideBySide' /\ (\A a \in Threads : StillTrue(request[a])') /\ PrimaryIsOne'
    <3>1. Busy = {} \/ (rows # {} /\ op # "remove" /\ \A b \in Busy : request[b].op # "remove")
      BY <1>1, <2>7 DEF ReadRow
    <3>2. SideBySide'
      BY <2>1, <2>2, <2>3, <2>4, <2>5, <2>7, <3>1 DEF SideBySide, FoldersInv
    <3>3. StillTrue(request[r])'
      BY <1>1, <2>1, <2>3 DEF StillTrue
    <3>4. ASSUME NEW a \in Threads, a # r PROVE StillTrue(request[a])'
      BY <2>1, <2>3, <2>5, <2>7, <3>4 DEF StillTrue, FoldersInv
    <3>5. PrimaryIsOne'
      BY <2>1, <2>5, <2>7 DEF FoldersInv, PrimaryIsOne
    <3>6. ASSUME NEW a \in Threads PROVE StillTrue(request[a])'
      BY <2>3, <3>3, <3>4
    <3> QED
      BY <3>2, <3>5, <3>6
  <2> QED
    BY <2>1, <2>6, <2>7 DEF FoldersInv, Retains
<1>2. CASE ReadFolders(r)
  <2> DEFINE q == request[r]
             w == [q EXCEPT !.step = "write", !.primary = None, !.first = (rows = {})]
  <2>1. /\ q.step = "row"
        /\ request' = [request EXCEPT ![r] = IF Allowed(q) THEN w ELSE Idle]
        /\ rows' = rows /\ flagged' = flagged /\ primary' = primary /\ shelved' = shelved
        /\ crossed' = crossed
    BY <1>2 DEF ReadFolders, projectVars
  <2>2. w \in Request /\ w.step = "write" /\ w.op = q.op /\ w.folder = q.folder /\ (w.first <=> rows = {})
    BY ZenonT(30) DEF Request
  <2>3. request' \in [Threads -> Request] /\ request'[r] = (IF Allowed(q) THEN w ELSE Idle)
        /\ \A a \in Threads : a # r => request'[a] = request[a]
    BY <1>0, <2>1, <2>2
  <2>4. Placed' /\ Named'
    BY <1>0, <2>1, <2>2, <2>3
  <2>5. Busy' \subseteq Busy /\ \A a \in Busy' : request'[a].op = request[a].op
    BY <1>0, <2>1, <2>2, <2>3 DEF Busy
  <2>6. ASSUME ~crossed PROVE SideBySide' /\ (\A a \in Threads : StillTrue(request[a])') /\ PrimaryIsOne'
    <3>1. SideBySide'
      BY <2>1, <2>5, <2>6 DEF SideBySide, FoldersInv
    <3>2. StillTrue(request[r])'
      <4>1. CASE Allowed(q)
        <5>1. StillTrue(q)
          BY <2>6 DEF FoldersInv
        <5>2. q.op = "remove" => q.folder # primary /\ rows # {}
          BY <2>1, <4>1, <5>1 DEF Allowed, Removable, StillTrue
        <5>3. q.op = "primary" => q.folder \in rows
          BY <4>1 DEF Allowed
        <5>4. request'[r].step = "write" /\ request'[r].op = q.op /\ request'[r].folder = q.folder
              /\ (request'[r].first <=> rows = {})
          BY <2>2, <2>3, <4>1
        <5> QED
          BY <2>1, <5>2, <5>3, <5>4 DEF StillTrue
      <4>2. CASE ~Allowed(q)
        BY <1>0, <2>3, <4>2 DEF StillTrue
      <4> QED
        BY <4>1, <4>2
    <3>4. ASSUME NEW a \in Threads, a # r PROVE StillTrue(request[a])'
      BY <2>1, <2>3, <2>6, <3>4 DEF StillTrue, FoldersInv
    <3>5. PrimaryIsOne'
      BY <2>1, <2>6 DEF FoldersInv, PrimaryIsOne
    <3>6. ASSUME NEW a \in Threads PROVE StillTrue(request[a])'
      BY <3>2, <3>4
    <3> QED
      BY <3>1, <3>5, <3>6
  <2> QED
    BY <2>1, <2>4, <2>6 DEF FoldersInv, Retains
<1>3. ASSUME NEW some \in {{"add"}, {"remove"}, {"primary"}, {"archive", "unarchive"}}, Write(r, some)
      PROVE  /\ request' \in [Threads -> Request] /\ request'[r] = Idle
             /\ \A a \in Threads : a # r => request'[a] = request[a]
             /\ r \in Busy /\ Busy' = Busy \ {r}
             /\ crossed' = crossed
             /\ request[r].step = "write" /\ request[r].op \in some
  BY <1>0, <1>3 DEF Write, Busy
<1>4. CASE AddRow(r)
  <2> DEFINE q == request[r]
  <2>1. /\ rows' = rows \cup {q.folder} /\ shelved' = shelved
        /\ flagged' = IF q.first /\ q.folder \notin rows THEN flagged \cup {q.folder} ELSE flagged
        /\ primary' = IF q.first THEN q.folder ELSE primary
        /\ Write(r, {"add"})
    BY <1>4 DEF AddRow
  <2>9. /\ request' \in [Threads -> Request] /\ request'[r] = Idle
        /\ \A a \in Threads : a # r => request'[a] = request[a]
        /\ r \in Busy /\ Busy' = Busy \ {r} /\ Busy \subseteq Threads
        /\ crossed' = crossed
        /\ request[r].step = "write"
    BY <1>3, <2>1 DEF Busy
  <2>2. q.op = "add" /\ q.step = "write" /\ q.folder \in Folders
    BY <1>3, <2>1
  <2>3. Placed' /\ Named'
    BY <1>0, <1>3, <2>1, <2>2
  <2>4. ASSUME ~crossed PROVE SideBySide' /\ (\A a \in Threads : StillTrue(request[a])') /\ PrimaryIsOne'
    <3>1. SideBySide /\ PrimaryIsOne /\ (q.first <=> rows = {}) /\ (rows = {} => Busy = {r})
      BY <1>3, <2>1, <2>2, <2>4 DEF FoldersInv, StillTrue, SideBySide
    <3>2. SideBySide'
      BY <2>1, <2>9, <3>1 DEF SideBySide
    <3>3. ASSUME NEW a \in Threads, a # r PROVE StillTrue(request[a])'
      <4>1. CASE a \in Busy
        <5>1. rows # {} /\ rows' # {} /\ primary' = primary
          BY <2>1, <3>1, <3>3, <4>1
        <5> QED
          BY <1>3, <2>1, <2>4, <3>3, <5>1 DEF StillTrue, FoldersInv
      <4>2. CASE a \notin Busy
        BY <2>9, <3>3, <4>2 DEF StillTrue, Busy
      <4> QED
        BY <4>1, <4>2
    <3>4. PrimaryIsOne'
      <4>1. (rows = {} => primary = None) /\ (rows # {} => primary \in rows) /\ flagged = rows \cap {primary}
        BY <2>4, <3>1 DEF PrimaryIsOne
      <4> QED
        BY <2>1, <2>2, <3>1, <4>1 DEF PrimaryIsOne
    <3> QED
      BY <1>0, <1>3, <2>1, <3>2, <3>3, <3>4 DEF StillTrue
  <2> QED
    BY <1>3, <2>1, <2>3, <2>4 DEF FoldersInv, Retains
<1>5. CASE RemoveRow(r)
  <2> DEFINE q == request[r]
  <2>1. /\ rows' = rows \ {q.folder} /\ flagged' = flagged \ {q.folder}
        /\ primary' = primary /\ shelved' = shelved
        /\ Write(r, {"remove"})
    BY <1>5 DEF RemoveRow
  <2>2. q.op = "remove" /\ q.step = "write"
    BY <1>3, <2>1
  <2>3. Placed' /\ Named'
    BY <1>0, <1>3, <2>1, <2>2
  <2>4. ASSUME ~crossed
        PROVE  SideBySide' /\ (\A a \in Threads : StillTrue(request[a])') /\ PrimaryIsOne' /\ rows' # {}
    <3>1. Busy = {r} /\ Busy' = {}
      BY <1>3, <2>1, <2>2, <2>4 DEF FoldersInv, SideBySide
    <3>2. primary \in rows /\ primary # q.folder /\ flagged = rows \cap {primary}
      BY <2>2, <2>4 DEF FoldersInv, StillTrue, PrimaryIsOne
    <3>3. \A a \in Threads : request'[a].step = "idle"
      BY <1>0, <1>3, <2>1, <3>1 DEF Busy
    <3> QED
      BY <2>1, <3>1, <3>2, <3>3 DEF SideBySide, StillTrue, PrimaryIsOne
  <2> QED
    BY <1>3, <2>1, <2>3, <2>4 DEF FoldersInv, Retains
<1>6. CASE UpdatePrimary(r)
  <2> DEFINE q == request[r]
  <2>1. /\ rows' = rows /\ flagged' = rows \cap {q.folder} /\ primary' = q.folder /\ shelved' = shelved
        /\ Write(r, {"primary"})
    BY <1>6 DEF UpdatePrimary, FlagMoved
  <2>9. /\ request' \in [Threads -> Request] /\ request'[r] = Idle
        /\ \A a \in Threads : a # r => request'[a] = request[a]
        /\ r \in Busy /\ Busy' = Busy \ {r} /\ Busy \subseteq Threads
        /\ crossed' = crossed
        /\ request[r].step = "write"
    BY <1>3, <2>1 DEF Busy
  <2>2. q.op = "primary" /\ q.step = "write" /\ q.folder \in Folders
    BY <1>3, <2>1
  <2>3. Placed' /\ Named'
    BY <1>0, <1>3, <2>1, <2>2
  <2>4. ASSUME ~crossed PROVE SideBySide' /\ (\A a \in Threads : StillTrue(request[a])') /\ PrimaryIsOne'
    <3>1. SideBySide /\ q.folder \in rows /\ \A a \in Busy : a # r => request[a].op # "remove"
      BY <1>3, <2>1, <2>2, <2>4 DEF FoldersInv, StillTrue, SideBySide
    <3>2. SideBySide'
      BY <2>1, <2>9, <3>1 DEF SideBySide
    <3>3. ASSUME NEW a \in Threads, a # r PROVE StillTrue(request[a])'
      <4>1. request[a].step = "idle" \/ request[a].op # "remove"
        BY <3>1, <3>3 DEF Busy
      <4> QED
        BY <1>3, <2>1, <2>4, <3>3, <4>1 DEF StillTrue, FoldersInv
    <3>4. PrimaryIsOne'
      BY <2>1, <3>1 DEF PrimaryIsOne
    <3> QED
      BY <1>0, <1>3, <2>1, <3>2, <3>3, <3>4 DEF StillTrue
  <2> QED
    BY <1>3, <2>1, <2>3, <2>4 DEF FoldersInv, Retains
<1>7. CASE UpdateArchived(r)
  <2>1. /\ rows' = rows /\ flagged' = flagged /\ primary' = primary /\ shelved' \in BOOLEAN
        /\ Write(r, {"archive", "unarchive"})
    BY <1>7 DEF UpdateArchived
  <2>9. /\ request' \in [Threads -> Request] /\ request'[r] = Idle
        /\ \A a \in Threads : a # r => request'[a] = request[a]
        /\ r \in Busy /\ Busy' = Busy \ {r} /\ Busy \subseteq Threads
        /\ crossed' = crossed
        /\ request[r].step = "write"
    BY <1>3, <2>1 DEF Busy
  <2>2. Placed' /\ Named'
    BY <1>0, <1>3, <2>1
  <2>3. ASSUME ~crossed PROVE SideBySide' /\ (\A a \in Threads : StillTrue(request[a])') /\ PrimaryIsOne'
    <3>1. SideBySide'
      BY <2>1, <2>3, <2>9 DEF SideBySide, FoldersInv
    <3>2. \A a \in Threads : StillTrue(request[a])'
      BY <1>0, <1>3, <2>1, <2>3 DEF StillTrue, FoldersInv
    <3>3. PrimaryIsOne'
      BY <2>1, <2>3 DEF PrimaryIsOne, FoldersInv
    <3> QED
      BY <3>1, <3>2, <3>3
  <2> QED
    BY <1>3, <2>1, <2>2, <2>3 DEF FoldersInv, Retains
<1>8. \/ \E op \in ops \cap {"add", "remove", "primary"}, folder \in Folders : ReadRow(r, op, folder)
      \/ \E op \in ops \cap {"archive", "unarchive"} : ReadRow(r, op, None)
      \/ ReadFolders(r) \/ AddRow(r) \/ RemoveRow(r) \/ UpdatePrimary(r) \/ UpdateArchived(r)
  BY DEF FoldersStep
<1>9. CASE \E op \in ops \cap {"add", "remove", "primary"}, folder \in Folders : ReadRow(r, op, folder)
  <2>1. PICK op \in {"add", "remove", "primary"}, folder \in Folders : ReadRow(r, op, folder)
    BY <1>9
  <2> QED
    BY <1>1, <2>1 DEF Ops
<1>10. CASE \E op \in ops \cap {"archive", "unarchive"} : ReadRow(r, op, None)
  <2>1. PICK op \in {"archive", "unarchive"} : ReadRow(r, op, None)
    BY <1>10
  <2> QED
    BY <1>1, <2>1 DEF Ops
<1> QED
  BY <1>2, <1>4, <1>5, <1>6, <1>7, <1>8, <1>9, <1>10

-----------------------------------------------------------------------------

Attempt ==
  [status : Active \cup Terminal, archived : BOOLEAN, gated : BOOLEAN, parent : Nat, root : Nat,
   key : Keys \cup {None}, folder : Folders, session : Nat, at : Nat]

Submission ==
  [step : {"none", "folder", "session"}, source : Nat, root : Nat, key : Keys \cup {None},
   folder : Folders \cup {None}, session : Nat, asked : BOOLEAN, base : Folders \cup {None},
   alone : BOOLEAN]

\* The attempts have their types, and each is younger than what it names.
Aged ==
  /\ setting \in Settings
  /\ attempts \in Seq(Attempt) /\ Len(attempts) <= setting.attempts
  /\ sessions \in Seq(Folders) /\ Len(sessions) <= setting.sessions
  /\ clock \in 1..setting.clock
  /\ \A i \in Ids :
       /\ attempts[i].parent < i /\ attempts[i].root < i
       /\ attempts[i].session <= Len(sessions)
       /\ attempts[i].at \in 1..clock

\* What the submission under way has found at its first look at the project.
Looked ==
  /\ submission \in Submission
  /\ submission.step # "none" =>
       /\ submission.source <= Len(attempts)
       /\ submission.root = IF submission.source = 0 THEN 0 ELSE RootFrom(submission.source)
       /\ Len(attempts) < setting.attempts
       /\ submission.session <= Len(sessions)
       /\ submission.base \in Folders
       /\ submission.step = "folder" \/ submission.session # 0
       /\ submission.alone => ~shelved /\ (submission.folder = None => submission.base = primary)

\* The inductive invariant.
AttemptsInv == Placed /\ Named /\ FoldersInv /\ Aged /\ Looked /\ LineageIsRooted /\ SessionKeepsItsFolder

\* A setting has its types.
LEMMA SettingTypes ==
  ASSUME setting \in Settings
  PROVE  /\ setting.gate \in BOOLEAN
         /\ setting.folders \subseteq Folders
         /\ setting.threads \subseteq Threads
         /\ setting.keys \subseteq Keys
         /\ setting.attempts \in Nat /\ setting.sessions \in Nat /\ setting.clock \in Nat \ {0}
         /\ setting.outcomes \subseteq Terminal
BY AttemptsAssumption DEF Terminal

\* An attempt has its types.
LEMMA AttemptTypes ==
  ASSUME Aged, NEW i \in Ids
  PROVE  /\ i \in 1..Len(attempts) /\ attempts[i] \in Attempt
         /\ attempts[i].parent \in Nat /\ attempts[i].root \in Nat /\ attempts[i].session \in Nat
         /\ attempts[i].folder \in Folders /\ attempts[i].gated \in BOOLEAN
         /\ attempts[i].parent < i /\ attempts[i].root < i /\ attempts[i].session <= Len(sessions)
<1>1. i \in 1..Len(attempts) /\ attempts[i] \in Attempt
  BY DEF Aged, Ids
<1> QED
  BY <1>1 DEF Aged, Attempt

\* The root of the attempts s for attempt i.
RootIn(s, i) == IF s[i].root = 0 THEN i ELSE s[i].root

\* The invariant holds of the first state.
LEMMA AttemptsBegin == Init => AttemptsInv
<1> SUFFICES ASSUME Init PROVE AttemptsInv
  OBVIOUS
<1>1. Placed /\ Named /\ FoldersInv
  BY ProjectBegins
<1>2. Aged
  BY SettingTypes DEF Init, Aged, Ids
<1>3. Looked
  BY DEF Init, Looked, NoSubmission, Submission
<1>4. LineageIsRooted /\ SessionKeepsItsFolder
  BY DEF Init, LineageIsRooted, SessionKeepsItsFolder, Ids
<1> QED
  BY <1>1, <1>2, <1>3, <1>4 DEF AttemptsInv

\* The submission routes look at the project before they await anything.
LEMMA SubmissionsKeep ==
  ASSUME AttemptsInv, Submissions
  PROVE  AttemptsInv' /\ UNCHANGED <<taskVars, foldersVars>>
<1> USE DEF AttemptsInv
<1>1. /\ setting.keys \subseteq Keys
      /\ None \notin Folders
  BY SettingTypes, FoldersAssumption DEF Aged
<1>2. ASSUME NEW source \in 0..Len(attempts), NEW root \in Nat, NEW key \in Keys \cup {None},
             NEW folder \in Folders \cup {None}, NEW session \in 0..Len(sessions), NEW asked \in BOOLEAN,
             root = IF source = 0 THEN 0 ELSE RootFrom(source),
             Submit(source, root, key, folder, session, asked)
      PROVE  Looked' /\ UNCHANGED <<taskVars, foldersVars>>
  <2>1. /\ submission' = [step |-> "folder", source |-> source, root |-> root, key |-> key,
                          folder |-> folder, session |-> session, asked |-> asked,
                          base |-> IF folder = None THEN primary ELSE folder, alone |-> TRUE]
        /\ primary # None /\ ~shelved /\ Len(attempts) < setting.attempts
        /\ attempts' = attempts /\ sessions' = sessions /\ setting' = setting
        /\ primary' = primary /\ shelved' = shelved
    BY <1>2 DEF Submit, taskVars, foldersVars, projectVars
  <2>2. primary \in Folders
    BY <2>1 DEF Placed
  <2>3. submission' \in Submission
    BY <1>1, <2>1, <2>2 DEF Submission, Aged
  <2>4. RootFrom(source)' = RootFrom(source)
    BY <2>1 DEF RootFrom
  <2>5. Looked'
    BY <1>1, <1>2, <2>1, <2>2, <2>3, <2>4 DEF Looked, RootFrom
  <2> QED
    BY <1>2, <2>5 DEF Submit
<1>3. ASSUME NEW source \in Ids
      PROVE  /\ source \in 1..Len(attempts) /\ RootFrom(source) \in Nat
             /\ attempts[source].folder \in Folders /\ attempts[source].session \in 0..Len(sessions)
             /\ attempts[source].gated \in BOOLEAN
  BY <1>3, AttemptTypes DEF Aged, RootFrom
<1>4. ASSUME NEW key \in setting.keys \cup {None}, NEW folder \in Folders \cup {None},
             NEW session \in {0} \cup DOMAIN sessions, NEW asked \in BOOLEAN,
             Create(key, folder, session, asked)
      PROVE  Looked' /\ UNCHANGED <<taskVars, foldersVars>>
  <2>1. session \in 0..Len(sessions) /\ Len(attempts) \in Nat
    BY DEF Aged
  <2> QED
    BY <1>1, <1>2, <1>4, <2>1 DEF Create
<1>5. ASSUME NEW source \in Ids, NEW key \in setting.keys \cup {None}, NEW asked \in BOOLEAN,
             \/ Retry(source, key) \/ Continue(source, key, asked)
             \/ EditRetry(source, key, asked) \/ NewSession(source, key, asked)
      PROVE  Looked' /\ UNCHANGED <<taskVars, foldersVars>>
  <2>1. source \in 0..Len(attempts) /\ source # 0 /\ 0 \in 0..Len(sessions) /\ key \in Keys \cup {None}
    BY <1>1, <1>3 DEF Aged
  <2>2. CASE Retry(source, key)
    BY <1>2, <1>3, <2>1, <2>2 DEF Retry
  <2>3. CASE Continue(source, key, asked)
    BY <1>2, <1>3, <2>1, <2>3 DEF Continue
  <2>4. CASE EditRetry(source, key, asked) \/ NewSession(source, key, asked)
    BY <1>2, <1>3, <2>1, <2>4 DEF EditRetry, NewSession
  <2> QED
    BY <1>5, <2>2, <2>3, <2>4
<1>6. Looked' /\ UNCHANGED <<taskVars, foldersVars>>
  BY <1>4, <1>5 DEF Submissions
<1>7. (Placed /\ Named /\ FoldersInv)'
  BY <1>6 DEF foldersVars, projectVars, Placed, Named, FoldersInv, SideBySide, StillTrue, PrimaryIsOne, Busy
<1>8. (Aged /\ LineageIsRooted /\ SessionKeepsItsFolder)'
  BY <1>6 DEF taskVars, Aged, LineageIsRooted, SessionKeepsItsFolder, Ids, RootOf
<1> QED
  BY <1>6, <1>7, <1>8

\* The attempt that is inserted is rooted and in the folder of its session.
LEMMA InsertKeeps ==
  ASSUME AttemptsInv, submission.step # "none", NEW folder \in Folders, Insert(folder),
         submission.session # 0 => folder = sessions[submission.session],
         submission' = NoSubmission, UNCHANGED foldersVars
  PROVE  AttemptsInv' /\ Len(attempts') = Len(attempts) + 1 /\ attempts'[Len(attempts) + 1].folder = folder
<1> USE DEF AttemptsInv
<1> DEFINE n == Len(attempts) + 1
           new == [status   |-> IF NeedsApproval(submission.asked) THEN "awaiting_approval" ELSE "queued",
                   archived |-> FALSE,
                   gated    |-> NeedsApproval(submission.asked),
                   parent   |-> submission.source, root |-> submission.root, key |-> submission.key,
                   folder   |-> folder, session |-> submission.session,
                   at       |-> clock]
<1>1. /\ setting.gate \in BOOLEAN /\ setting.clock \in Nat \ {0} /\ setting.attempts \in Nat
      /\ clock \in Nat /\ Len(attempts) \in Nat
  BY SettingTypes DEF Aged
<1>2. /\ submission.source \in 0..Len(attempts)
      /\ submission.root = IF submission.source = 0 THEN 0 ELSE RootFrom(submission.source)
      /\ submission.root \in Nat /\ submission.session \in 0..Len(sessions)
      /\ submission.key \in Keys \cup {None} /\ submission.asked \in BOOLEAN
      /\ Len(attempts) < setting.attempts
  BY DEF Looked, Submission, Aged
<1>3. NeedsApproval(submission.asked) \in BOOLEAN
  BY <1>1, <1>2 DEF NeedsApproval
<1>4. /\ attempts' = Append(attempts, new)
      /\ setting' = setting /\ sessions' = sessions /\ clock' = clock
  BY DEF Insert
<1>5. new \in Attempt
  BY <1>1, <1>2, <1>3 DEF Attempt, Active, Terminal
<1>6. /\ new.parent = submission.source /\ new.root = submission.root /\ new.folder = folder
      /\ new.session = submission.session /\ new.at = clock
  OBVIOUS
<1> HIDE DEF new
<1>7. /\ attempts' \in Seq(Attempt) /\ Len(attempts') = n
      /\ \A i \in 1..Len(attempts) : attempts'[i] = attempts[i]
      /\ attempts'[n] = new
      /\ Ids = 1..Len(attempts) /\ Ids' = 1..n
  BY <1>4, <1>5 DEF Aged, Ids
<1>8. \A i \in Ids' : i \in Ids \/ i = n
  BY <1>1, <1>7
<1>9. submission.root <= submission.source
  BY <1>1, <1>2, <1>7 DEF RootFrom, Aged
<1>10. Aged'
  <2>1. \A i \in Ids' :
          /\ attempts'[i].parent < i /\ attempts'[i].root < i
          /\ attempts'[i].session <= Len(sessions)
          /\ attempts'[i].at \in 1..clock
    BY <1>1, <1>2, <1>6, <1>7, <1>8, <1>9, SMTT(30) DEF Aged
  <2> QED
    BY <1>1, <1>2, <1>4, <1>7, <2>1 DEF Aged
<1>11. Looked'
  BY DEF Looked, NoSubmission, Submission
<1>12. \A i \in Ids : RootIn(attempts', i) = RootIn(attempts, i) /\ RootIn(attempts, i) \in Ids
  BY <1>1, <1>7, AttemptTypes DEF RootIn
<1>13. LineageIsRooted'
  <2>1. ASSUME NEW i \in Ids, attempts[i].parent # 0
        PROVE  /\ attempts'[i].root = RootIn(attempts', attempts'[i].parent)
               /\ attempts'[attempts'[i].root].parent = 0
    <3>1. attempts[i].parent \in Ids
      BY <1>1, <1>7, <2>1, AttemptTypes
    <3>2. attempts[i].root = RootIn(attempts, attempts[i].parent) /\ attempts[attempts[i].root].parent = 0
      BY <2>1 DEF LineageIsRooted, RootOf, RootIn
    <3> QED
      BY <1>7, <1>12, <3>1, <3>2
  <2>2. ASSUME NEW i \in Ids, attempts[i].parent = 0 PROVE attempts'[i].parent = 0 /\ attempts'[i].root = 0
    BY <1>7, <2>2 DEF LineageIsRooted
  <2>3. ASSUME new.parent # 0
        PROVE  new.root = RootIn(attempts', new.parent) /\ attempts'[new.root].parent = 0
    <3>1. new.parent \in Ids /\ new.root = RootIn(attempts, new.parent)
      BY <1>1, <1>2, <1>6, <1>7, <2>3 DEF RootFrom, RootIn
    <3>2. new.root \in Ids
      BY <1>12, <3>1
    <3>3. attempts[new.root].parent = 0
      <4>1. CASE attempts[new.parent].root = 0
        <5>1. attempts[new.parent].parent = 0
          <6>1. SUFFICES ASSUME attempts[new.parent].parent # 0 PROVE FALSE
            OBVIOUS
          <6>2. attempts[new.parent].parent \in Ids
            BY <1>1, <1>7, <3>1, <6>1, AttemptTypes
          <6>3. RootIn(attempts, attempts[new.parent].parent) = 0
            BY <3>1, <4>1, <6>1 DEF LineageIsRooted, RootOf, RootIn
          <6> QED
            BY <1>1, <1>7, <1>12, <6>2, <6>3
        <5> QED
          BY <3>1, <4>1, <5>1 DEF RootIn
      <4>2. CASE attempts[new.parent].root # 0
        BY <3>1, <4>2 DEF LineageIsRooted, RootIn
      <4> QED
        BY <4>1, <4>2
    <3> QED
      BY <1>7, <1>12, <3>1, <3>2, <3>3
  <2>4. new.parent = 0 => new.root = 0
    BY <1>2, <1>6
  <2> QED
    BY <1>7, <1>8, <2>1, <2>2, <2>3, <2>4 DEF LineageIsRooted, RootOf, RootIn
<1>14. SessionKeepsItsFolder'
  BY <1>4, <1>6, <1>7, <1>8 DEF SessionKeepsItsFolder
<1>15. (Placed /\ Named /\ FoldersInv)'
  BY DEF foldersVars, projectVars, Placed, Named, FoldersInv, SideBySide, StillTrue, PrimaryIsOne, Busy
<1> QED
  BY <1>6, <1>7, <1>10, <1>11, <1>13, <1>14, <1>15

\* What a step that inserts an attempt in a folder of the project shows.
Inserted ==
  /\ Len(attempts') = Len(attempts) + 1
  /\ submission.alone => ~shelved
  /\ Last(attempts').folder \in rows
  /\ submission.alone /\ submission.folder = None /\ submission.session = 0 => Last(attempts').folder = primary

\* The later looks of a submission.
LEMMA ChecksKeep ==
  ASSUME AttemptsInv, CheckFolder \/ CheckSession
  PROVE  AttemptsInv' /\ UNCHANGED foldersVars /\ (attempts' = attempts \/ Inserted)
<1> USE DEF AttemptsInv
<1>1. submission.step # "none" /\ UNCHANGED foldersVars
  BY DEF CheckFolder, CheckSession
<1>2. /\ submission.base \in Folders /\ submission.session \in 0..Len(sessions)
      /\ submission.alone => ~shelved /\ (submission.folder = None => submission.base = primary)
      /\ submission \in Submission
  BY <1>1 DEF Looked, Submission, Aged
<1>3. (Placed /\ Named /\ FoldersInv)'
  BY <1>1 DEF foldersVars, projectVars, Placed, Named, FoldersInv, SideBySide, StillTrue, PrimaryIsOne, Busy
<1>4. ASSUME UNCHANGED taskVars, submission' = NoSubmission
      PROVE  AttemptsInv' /\ attempts' = attempts
  <2>1. Looked'
    BY <1>4 DEF Looked, NoSubmission, Submission
  <2>2. (Aged /\ LineageIsRooted /\ SessionKeepsItsFolder)'
    BY <1>4 DEF taskVars, Aged, LineageIsRooted, SessionKeepsItsFolder, Ids, RootOf
  <2> QED
    BY <1>3, <1>4, <2>1, <2>2 DEF taskVars
<1>5. ASSUME NEW folder \in Folders, Insert(folder), InProject(folder), submission' = NoSubmission,
             submission.session # 0 => folder = sessions[submission.session],
             submission.session = 0 => folder = submission.base
      PROVE  AttemptsInv' /\ Inserted
  <2>1. /\ AttemptsInv' /\ Len(attempts') = Len(attempts) + 1
        /\ attempts'[Len(attempts) + 1].folder = folder
    BY <1>1, <1>5, InsertKeeps
  <2>2. Last(attempts').folder = folder
    BY <2>1 DEF Last
  <2> QED
    BY <1>2, <1>5, <2>1, <2>2 DEF Inserted, InProject
<1>6. CASE CheckFolder
  <2>1. CASE UNCHANGED taskVars /\ submission' = NoSubmission
    BY <1>1, <1>4, <2>1
  <2>2. CASE InProject(submission.base) /\ submission.session = 0 /\ Insert(submission.base)
             /\ submission' = NoSubmission
    BY <1>1, <1>2, <1>5, <2>2
  <2>3. CASE /\ submission.session # 0 /\ submission' = [submission EXCEPT !.step = "session"]
             /\ UNCHANGED taskVars
    <3>1. (Aged /\ LineageIsRooted /\ SessionKeepsItsFolder)'
      BY <2>3 DEF taskVars, Aged, LineageIsRooted, SessionKeepsItsFolder, Ids, RootOf
    <3>2. Looked'
      <4>1. /\ submission' \in Submission /\ submission'.step = "session"
            /\ submission'.source = submission.source /\ submission'.root = submission.root
            /\ submission'.session = submission.session /\ submission'.base = submission.base
            /\ submission'.alone = submission.alone /\ submission'.folder = submission.folder
        BY <1>2, <2>3 DEF Submission
      <4>2. attempts' = attempts /\ sessions' = sessions /\ setting' = setting
            /\ shelved' = shelved /\ primary' = primary
        BY <1>1, <2>3 DEF taskVars, foldersVars, projectVars
      <4> QED
        BY <1>1, <2>3, <4>1, <4>2 DEF Looked, RootFrom
    <3> QED
      BY <1>1, <1>3, <2>3, <3>1, <3>2 DEF taskVars
  <2> QED
    BY <1>6, <2>1, <2>2, <2>3 DEF CheckFolder, Refuse
<1>7. CASE CheckSession
  <2> DEFINE cwd == sessions[submission.session]
  <2>1. submission.session # 0
    BY <1>1, <1>7 DEF Looked, CheckSession
  <2>2. cwd \in Folders
    BY <1>2, <2>1 DEF Aged
  <2>3. /\ submission' = NoSubmission
        /\ (InProject(cwd) /\ Insert(cwd)) \/ UNCHANGED taskVars
    BY <1>7 DEF CheckSession, SessionFolder, Refuse
  <2>4. CASE InProject(cwd) /\ Insert(cwd)
    BY <1>1, <1>5, <2>1, <2>2, <2>3, <2>4
  <2>5. CASE UNCHANGED taskVars
    BY <1>1, <1>4, <2>3, <2>5
  <2> QED
    BY <2>3, <2>4, <2>5
<1> QED
  BY <1>6, <1>7

\* What becomes of an attempt leaves its lineage alone, and its folder.
LEMMA LaterKeeps ==
  ASSUME AttemptsInv, LaterStep
  PROVE  AttemptsInv' /\ UNCHANGED foldersVars /\ Len(attempts') = Len(attempts)
<1> USE DEF AttemptsInv
<1>1. submission = NoSubmission /\ submission' = submission /\ UNCHANGED foldersVars
  BY DEF LaterStep
<1>2. (Placed /\ Named /\ FoldersInv)'
  BY <1>1 DEF foldersVars, projectVars, Placed, Named, FoldersInv, SideBySide, StillTrue, PrimaryIsOne, Busy
<1>3. Looked'
  BY <1>1 DEF Looked, NoSubmission, Submission
<1>4. /\ setting.clock \in Nat \ {0} /\ setting.attempts \in Nat /\ setting.sessions \in Nat
      /\ setting.outcomes \subseteq Terminal /\ Len(attempts) \in Nat /\ Len(sessions) \in Nat /\ clock \in Nat
      /\ Ids = 1..Len(attempts)
  BY SettingTypes DEF Aged, Ids
<1>5. CASE Tick
  <2>1. clock' \in 1..setting.clock /\ clock' = clock + 1 /\ UNCHANGED <<setting, attempts, sessions>>
    BY <1>4, <1>5 DEF Tick
  <2>2. Aged'
    BY <1>4, <2>1 DEF Aged, Ids
  <2>3. (LineageIsRooted /\ SessionKeepsItsFolder)'
    BY <2>1 DEF LineageIsRooted, SessionKeepsItsFolder, Ids, RootOf
  <2> QED
    BY <1>1, <1>2, <1>3, <2>1, <2>2, <2>3
<1>6. ASSUME NEW i \in Ids, NEW new \in Attempt, attempts' = [attempts EXCEPT ![i] = new],
             new.parent = attempts[i].parent, new.root = attempts[i].root,
             new.folder = attempts[i].folder, new.at = attempts[i].at,
             \/ new.session = attempts[i].session /\ sessions' = sessions
             \/ /\ sessions' = Append(sessions, attempts[i].folder) /\ new.session = Len(sessions) + 1
                /\ Len(sessions) < setting.sessions,
             UNCHANGED <<setting, clock>>
      PROVE  AttemptsInv' /\ Len(attempts') = Len(attempts)
  <2>1. /\ attempts' \in Seq(Attempt) /\ Len(attempts') = Len(attempts) /\ Ids' = Ids
        /\ attempts'[i] = new /\ \A j \in Ids : j # i => attempts'[j] = attempts[j]
    BY <1>6 DEF Aged, Ids
  <2>2. \A j \in Ids : /\ attempts'[j].parent = attempts[j].parent /\ attempts'[j].root = attempts[j].root
                       /\ attempts'[j].folder = attempts[j].folder /\ attempts'[j].at = attempts[j].at
    BY <1>6, <2>1
  <2>3. /\ sessions' \in Seq(Folders) /\ Len(sessions') \in Nat /\ Len(sessions') >= Len(sessions)
        /\ Len(sessions') <= setting.sessions
        /\ \A k \in 1..Len(sessions) : sessions'[k] = sessions[k]
    <3>1. CASE sessions' = sessions
      BY <1>4, <3>1 DEF Aged
    <3>2. CASE sessions' = Append(sessions, attempts[i].folder) /\ Len(sessions) < setting.sessions
      BY <1>4, <1>6, <3>2, AttemptTypes DEF Aged
    <3> QED
      BY <1>6, <3>1, <3>2
  <2>4. \A j \in Ids : /\ attempts'[j].session \in 0..Len(sessions')
                       /\ attempts'[j].session # 0 => attempts'[j].folder = sessions'[attempts'[j].session]
    <3>1. ASSUME NEW j \in Ids, j # i
          PROVE  /\ attempts'[j].session \in 0..Len(sessions')
                 /\ attempts'[j].session # 0 => attempts'[j].folder = sessions'[attempts'[j].session]
      <4>1. attempts'[j] = attempts[j]
        BY <2>1, <3>1
      <4>2. /\ attempts[j].session \in 0..Len(sessions)
            /\ attempts[j].session # 0 => attempts[j].folder = sessions[attempts[j].session]
        BY <1>4, AttemptTypes DEF SessionKeepsItsFolder
      <4>3. attempts[j].session # 0 => attempts[j].session \in 1..Len(sessions)
        BY <1>4, <4>2
      <4>4. attempts[j].session \in 0..Len(sessions')
        BY <1>4, <2>3, <4>2
      <4> QED
        BY <2>3, <4>1, <4>2, <4>3, <4>4
    <3>2. CASE new.session = attempts[i].session /\ sessions' = sessions
      BY <1>4, <1>6, <2>1, <3>1, <3>2, AttemptTypes DEF SessionKeepsItsFolder
    <3>3. CASE sessions' = Append(sessions, attempts[i].folder) /\ new.session = Len(sessions) + 1
      <4>1. sessions'[Len(sessions) + 1] = attempts[i].folder /\ Len(sessions') = Len(sessions) + 1
        BY <1>6, <3>3, AttemptTypes DEF Aged
      <4> QED
        BY <1>4, <1>6, <2>1, <3>1, <3>3, <4>1
    <3> QED
      BY <1>6, <3>2, <3>3
  <2>5. Aged'
    BY <1>4, <1>6, <2>1, <2>2, <2>3, <2>4 DEF Aged
  <2>6. LineageIsRooted'
    <3>1. ASSUME NEW j \in Ids, attempts[j].parent # 0
          PROVE  /\ attempts'[j].root = RootIn(attempts', attempts'[j].parent)
                 /\ attempts'[attempts'[j].root].parent = 0
      <4>1. attempts[j].parent \in Ids
        BY <1>4, <3>1, AttemptTypes
      <4>2. attempts[j].root = RootIn(attempts, attempts[j].parent) /\ attempts[attempts[j].root].parent = 0
        BY <3>1 DEF LineageIsRooted, RootOf, RootIn
      <4>3. attempts[j].root \in Ids
        BY <1>4, <4>1, <4>2, AttemptTypes DEF RootIn
      <4> QED
        BY <2>2, <4>1, <4>2, <4>3 DEF RootIn
    <3>2. ASSUME NEW j \in Ids, attempts[j].parent = 0 PROVE attempts'[j].parent = 0 /\ attempts'[j].root = 0
      BY <2>2, <3>2 DEF LineageIsRooted
    <3> QED
      BY <2>1, <2>2, <3>1, <3>2 DEF LineageIsRooted, RootOf, RootIn
  <2>7. SessionKeepsItsFolder'
    BY <2>1, <2>4 DEF SessionKeepsItsFolder
  <2> QED
    BY <1>2, <1>3, <2>1, <2>5, <2>6, <2>7
<1>7. ASSUME NEW i \in Ids, NEW status \in Active \cup Terminal, NEW archived \in BOOLEAN,
             NEW session \in {attempts[i].session, Len(sessions) + 1},
             attempts' = [attempts EXCEPT ![i] =
               [attempts[i] EXCEPT !.status = status, !.archived = archived, !.session = session]],
             \/ session = attempts[i].session /\ sessions' = sessions
             \/ /\ sessions' = Append(sessions, attempts[i].folder) /\ session = Len(sessions) + 1
                /\ Len(sessions) < setting.sessions,
             UNCHANGED <<setting, clock>>
      PROVE  AttemptsInv' /\ Len(attempts') = Len(attempts)
  <2> DEFINE new == [attempts[i] EXCEPT !.status = status, !.archived = archived, !.session = session]
  <2>1. /\ new \in Attempt /\ new.parent = attempts[i].parent /\ new.root = attempts[i].root
        /\ new.folder = attempts[i].folder /\ new.at = attempts[i].at /\ new.session = session
    <3>1. session \in Nat /\ attempts[i] \in Attempt
      BY <1>4, <1>7, AttemptTypes
    <3> QED
      BY <3>1 DEF Attempt
  <2> QED
    BY <1>6, <1>7, <2>1
<1>8. ASSUME NEW i \in Ids
      PROVE  /\ attempts[i].status \in Active \cup Terminal /\ attempts[i].archived \in BOOLEAN
             /\ attempts[i] \in Attempt
  BY AttemptTypes DEF Attempt
<1>9. ASSUME NEW i \in Ids, NEW from, NEW to, Move(i, from, to)
      PROVE  AttemptsInv' /\ Len(attempts') = Len(attempts)
  <2>1. attempts' = [attempts EXCEPT ![i] = [attempts[i] EXCEPT !.status = to,
                       !.archived = attempts[i].archived, !.session = attempts[i].session]]
    BY <1>8, <1>9 DEF Move, Attempt
  <2>2. to \in Active \cup Terminal /\ UNCHANGED <<setting, sessions, clock>>
    BY <1>4, <1>9 DEF Move
  <2> QED
    BY <1>7, <1>8, <2>1, <2>2
<1>10. ASSUME NEW i \in Ids, Complete(i)
       PROVE  AttemptsInv' /\ Len(attempts') = Len(attempts)
  <2>1. UNCHANGED <<setting, clock>> /\ "completed" \in Active \cup Terminal
    BY <1>10 DEF Complete, Terminal
  <2>2. CASE attempts' = [attempts EXCEPT ![i].status = "completed"] /\ UNCHANGED sessions
    <3>1. attempts' = [attempts EXCEPT ![i] = [attempts[i] EXCEPT !.status = "completed",
                         !.archived = attempts[i].archived, !.session = attempts[i].session]]
      BY <1>8, <2>2 DEF Attempt
    <3> QED
      BY <1>7, <1>8, <2>1, <2>2, <3>1
  <2>3. CASE /\ Len(sessions) < setting.sessions
             /\ sessions' = Append(sessions, attempts[i].folder)
             /\ attempts' = [attempts EXCEPT ![i].status = "completed", ![i].session = Len(sessions) + 1]
    <3>1. attempts' = [attempts EXCEPT ![i] = [attempts[i] EXCEPT !.status = "completed",
                         !.archived = attempts[i].archived, !.session = Len(sessions) + 1]]
      BY <1>8, <2>3 DEF Attempt, Aged
    <3>2. PICK session \in {attempts[i].session, Len(sessions) + 1} : session = Len(sessions) + 1
      OBVIOUS
    <3>3. /\ attempts' = [attempts EXCEPT ![i] = [attempts[i] EXCEPT !.status = "completed",
                            !.archived = attempts[i].archived, !.session = session]]
          /\ sessions' = Append(sessions, attempts[i].folder) /\ session = Len(sessions) + 1
          /\ Len(sessions) < setting.sessions
      BY <2>3, <3>1, <3>2
    <3> QED
      BY <1>7, <1>8, <2>1, <3>3
  <2> QED
    BY <1>10, <2>2, <2>3 DEF Complete
<1>11. ASSUME NEW i \in Ids, Archive(i) \/ Restore(i)
       PROVE  AttemptsInv' /\ Len(attempts') = Len(attempts)
  <2>1. PICK archived \in BOOLEAN : attempts' = [attempts EXCEPT ![i].archived = archived]
    BY <1>11 DEF Archive, Restore
  <2>2. attempts' = [attempts EXCEPT ![i] = [attempts[i] EXCEPT !.status = attempts[i].status,
                       !.archived = archived, !.session = attempts[i].session]]
    BY <1>8, <2>1 DEF Attempt
  <2>3. UNCHANGED <<setting, sessions, clock>>
    BY <1>11 DEF Archive, Restore
  <2> QED
    BY <1>7, <1>8, <2>2, <2>3
<1> QED
  BY <1>1, <1>5, <1>9, <1>10, <1>11 DEF LaterStep, Start, Quiet, Speak, Fail, Approve, Reject, Cancel

\* The requests on the project leave the attempts alone; the submission under
\* way is alone no more once they have changed something.
LEMMA ProjectKeeps ==
  ASSUME AttemptsInv, ProjectStep
  PROVE  AttemptsInv' /\ UNCHANGED attempts /\ Retains
<1> USE DEF AttemptsInv
<1>1. PICK r \in setting.threads : FoldersStep(r, setting.ops)
  BY DEF ProjectStep
<1>2. r \in Threads
  BY SettingTypes DEF Aged
<1>3. Placed' /\ Named' /\ FoldersInv' /\ Retains
  BY <1>1, <1>2, FoldersStepKeeps
<1>4. UNCHANGED taskVars
  BY DEF ProjectStep
<1>5. (Aged /\ LineageIsRooted /\ SessionKeepsItsFolder)'
  BY <1>4 DEF taskVars, Aged, LineageIsRooted, SessionKeepsItsFolder, Ids, RootOf
<1>6. Looked'
  <2>1. submission' = [submission EXCEPT
          !.alone = @ /\ (submission # NoSubmission => projectVars' = projectVars)]
    BY DEF ProjectStep
  <2>2. /\ submission' \in Submission /\ submission'.step = submission.step
        /\ submission'.source = submission.source /\ submission'.root = submission.root
        /\ submission'.session = submission.session /\ submission'.base = submission.base
        /\ submission'.folder = submission.folder
        /\ submission'.alone => submission.alone /\ (submission # NoSubmission => projectVars' = projectVars)
    BY <2>1 DEF Looked, Submission
  <2>3. submission.step # "none" => submission # NoSubmission
    BY DEF NoSubmission
  <2>4. projectVars' = projectVars => shelved' = shelved /\ primary' = primary
    BY DEF projectVars
  <2> QED
    BY <1>4, <2>2, <2>3, <2>4 DEF Looked, RootFrom, taskVars
<1> QED
  BY <1>3, <1>4, <1>5, <1>6 DEF taskVars

-----------------------------------------------------------------------------

\* What every step shows besides the invariant.
StepShows ==
  /\ Retains
  /\ Len(attempts') > Len(attempts) => Inserted

\* A step keeps the invariant.
LEMMA StepKeeps == AttemptsInv /\ [Next]_vars => AttemptsInv' /\ StepShows
<1> SUFFICES ASSUME AttemptsInv, [Next]_vars PROVE AttemptsInv' /\ StepShows
  OBVIOUS
<1>0. Len(attempts) \in Nat
  BY DEF AttemptsInv, Aged
<1>1. UNCHANGED foldersVars => Retains
  BY DEF foldersVars, projectVars, Retains
<1>2. CASE Submissions
  BY <1>0, <1>1, <1>2, SubmissionsKeep DEF StepShows, taskVars
<1>3. CASE CheckFolder \/ CheckSession
  BY <1>0, <1>1, <1>3, ChecksKeep DEF StepShows
<1>4. CASE LaterStep
  BY <1>0, <1>1, <1>4, LaterKeeps DEF StepShows
<1>5. CASE ProjectStep
  BY <1>0, <1>5, ProjectKeeps DEF StepShows
<1>6. CASE UNCHANGED vars
  <2>1. UNCHANGED <<taskVars, submission, foldersVars>>
    BY <1>6 DEF vars
  <2>2. (Placed /\ Named /\ FoldersInv)'
    BY <2>1 DEF AttemptsInv, foldersVars, projectVars, Placed, Named, FoldersInv, SideBySide, StillTrue,
                PrimaryIsOne, Busy
  <2>3. (Aged /\ LineageIsRooted /\ SessionKeepsItsFolder)'
    BY <2>1 DEF AttemptsInv, taskVars, Aged, LineageIsRooted, SessionKeepsItsFolder, Ids, RootOf
  <2>4. Looked'
    BY <2>1 DEF AttemptsInv, taskVars, foldersVars, projectVars, Looked, RootFrom
  <2> QED
    BY <1>0, <1>1, <2>1, <2>2, <2>3, <2>4 DEF AttemptsInv, StepShows, taskVars
<1> QED
  BY <1>2, <1>3, <1>4, <1>5, <1>6 DEF Next

\* What the attempts, the submission and the requests on the project have to do
\* with each other, in every reachable state.
THEOREM AttemptsInvariant == Spec => []AttemptsInv
BY AttemptsBegin, StepKeeps, PTL DEF Spec

\* Every variable keeps its shape; an attempt is younger than its parent.
THEOREM TypeCorrect == Spec => []TypeOK
<1>1. AttemptsInv => TypeOK
  <2> SUFFICES ASSUME AttemptsInv PROVE TypeOK
    OBVIOUS
  <2>1. FoldersTypeOK
    BY DEF AttemptsInv, Placed, Request, FoldersTypeOK
  <2>2. \A i \in Ids :
          attempts[i] \in
            [status   : Active \cup Terminal,
             archived : BOOLEAN, gated : BOOLEAN,
             parent   : 0..(i - 1), root : 0..(i - 1),
             key      : Keys \cup {None}, folder : Folders,
             session  : 0..Len(sessions),
             at       : 1..clock]
    <3> SUFFICES ASSUME NEW i \in Ids
                 PROVE  attempts[i] \in
                          [status   : Active \cup Terminal,
                           archived : BOOLEAN, gated : BOOLEAN,
                           parent   : 0..(i - 1), root : 0..(i - 1),
                           key      : Keys \cup {None}, folder : Folders,
                           session  : 0..Len(sessions),
                           at       : 1..clock]
      OBVIOUS
    <3>1. /\ i \in Nat \ {0} /\ attempts[i] \in Attempt /\ Len(sessions) \in Nat
          /\ attempts[i].parent \in 0..(i - 1) /\ attempts[i].root \in 0..(i - 1)
          /\ attempts[i].session \in 0..Len(sessions) /\ attempts[i].at \in 1..clock
      <4>1. Aged /\ Len(sessions) \in Nat /\ attempts[i].at \in 1..clock
        BY DEF AttemptsInv, Aged
      <4>2. i \in 1..Len(attempts) /\ attempts[i].parent < i /\ attempts[i].root < i
            /\ attempts[i].parent \in Nat /\ attempts[i].root \in Nat
            /\ attempts[i].session \in Nat /\ attempts[i].session <= Len(sessions) /\ attempts[i] \in Attempt
        BY <4>1, AttemptTypes
      <4>3. Len(attempts) \in Nat
        BY <4>1 DEF Aged
      <4> QED
        BY <4>1, <4>2, <4>3
    <3> QED
      BY <3>1 DEF Attempt
  <2> QED
    BY <2>1, <2>2 DEF AttemptsInv, Aged, Looked, Submission, TypeOK
<1> QED
  BY <1>1, AttemptsInvariant, PTL

\* The root an attempt stores is the original of its lineage.
THEOREM LineageIsRootedTheorem == Spec => []LineageIsRooted
<1>1. AttemptsInv => LineageIsRooted
  BY DEF AttemptsInv
<1> QED
  BY <1>1, AttemptsInvariant, PTL

\* An attempt in a resumed session runs in the directory of that session.
THEOREM SessionKeepsItsFolderTheorem == Spec => []SessionKeepsItsFolder
<1>1. AttemptsInv => SessionKeepsItsFolder
  BY DEF AttemptsInv
<1> QED
  BY <1>1, AttemptsInvariant, PTL

\* A project keeps one primary folder until requests that take or make the first
\* folder have crossed others.
THEOREM PrimaryIsOneTheorem == Spec => []PrimaryIsOne
<1>1. AttemptsInv => PrimaryIsOne
  BY DEF AttemptsInv, FoldersInv, PrimaryIsOne
<1> QED
  BY <1>1, AttemptsInvariant, PTL

\* No request takes the last folder of a project, unless it ran next to another.
THEOREM RetainsAFolderTheorem == Spec => RetainsAFolder
<1>1. AttemptsInv /\ [Next]_vars => [rows # {} /\ ~crossed' => rows' # {}]_foldersVars
  BY StepKeeps DEF StepShows, Retains
<1> QED
  BY <1>1, AttemptsInvariant, PTL DEF Spec, RetainsAFolder

\* An attempt is queued for a project that is not archived and in one of its
\* folders, the primary one if none was asked for, unless a request has changed
\* the project since the submission first looked at it.
THEOREM ContextHoldsTheorem == Spec => ContextHolds
<1>1. AttemptsInv /\ [Next]_vars =>
        [Len(attempts') > Len(attempts) /\ submission.alone =>
           /\ ~shelved
           /\ Last(attempts').folder \in rows
           /\ submission.folder = None /\ submission.session = 0 =>
                Last(attempts').folder = primary]_vars
  BY StepKeeps DEF StepShows, Inserted
<1> QED
  BY <1>1, AttemptsInvariant, PTL DEF Spec, ContextHolds

-----------------------------------------------------------------------------
(* Lists of numbers that have parents, and what FlattenSeq makes of them.  *)
(* What a recursive function computes is shown by its least counterexample. *)

\* A set of numbers has a least one.
LEMMA Least ==
  ASSUME NEW S, S \subseteq Nat, S # {}
  PROVE  \E m \in S : \A k \in S : m <= k
<1>1. PICK m \in S : \A k \in S : ~(<<k, m>> \in OpToRel(<, Nat))
  BY NatLessThanWellFounded, WFMin
<1>2. \A k \in S : k < m => <<k, m>> \in OpToRel(<, Nat)
  BY DEF OpToRel
<1>3. m \in Nat /\ \A k \in S : k \in Nat
  OBVIOUS
<1>4. \A k \in S : ~(k < m)
  BY <1>1, <1>2
<1> QED
  BY <1>3, <1>4

\* What holds of nothing, and of m + 1 numbers where it holds of m, holds of all n.
LEMMA Upward ==
  ASSUME NEW n \in Nat, NEW T, 0 \in T, \A m \in 0 .. n - 1 : m \in T => m + 1 \in T
  PROVE  n \in T
<1> SUFFICES ASSUME n \notin T PROVE FALSE
  OBVIOUS
<1> DEFINE S == {m \in 0 .. n : m \notin T}
<1>1. S \subseteq Nat /\ S # {}
  OBVIOUS
<1>2. PICK m \in S : \A k \in S : m <= k
  BY <1>1, Least
<1>3. m \in Nat /\ m # 0 /\ m <= n /\ m \notin T
  OBVIOUS
<1>4. m - 1 \in 0 .. n - 1 /\ ~(m <= m - 1)
  BY <1>3
<1>5. m - 1 \in T
  BY <1>2, <1>4
<1> QED
  BY <1>3, <1>4, <1>5

\* s lists the members of X, each once and none before its parent.
Lists(s, X, par) ==
  /\ s \in Seq(X)
  /\ \A x \in X : \E k \in 1 .. Len(s) : s[k] = x
  /\ \A j, k \in 1 .. Len(s) : s[j] = s[k] => j = k
  /\ \A j, k \in 1 .. Len(s) : par[s[j]] = s[k] => k < j

\* X and Y have no member in common, and none of X has its parent in Y.
Apart(X, Y, par) == \A x \in X, y \in Y : x # y /\ par[x] # y

\* One list after the other lists what both do.
LEMMA ConcatLists ==
  ASSUME NEW X, NEW Y, NEW par, NEW s, NEW t, Lists(s, X, par), Lists(t, Y, par), Apart(X, Y, par)
  PROVE  Lists(s \o t, X \cup Y, par)
<1>1. /\ s \in Seq(X) /\ t \in Seq(Y) /\ Len(s) \in Nat /\ Len(t) \in Nat
      /\ s \in Seq(X \cup Y) /\ t \in Seq(X \cup Y)
  BY DEF Lists
<1> DEFINE u == s \o t
<1>2. /\ u \in Seq(X \cup Y) /\ Len(u) = Len(s) + Len(t)
      /\ \A k \in 1 .. Len(s) : u[k] = s[k]
      /\ \A k \in 1 .. Len(t) : u[Len(s) + k] = t[k]
  BY <1>1
<1> HIDE DEF u
<1>3. ASSUME NEW k \in 1 .. Len(u) PROVE k \in 1 .. Len(s) \/ \E i \in 1 .. Len(t) : k = Len(s) + i
  <2>1. CASE k <= Len(s)
    BY <1>1, <1>2, <2>1
  <2>2. CASE k > Len(s)
    <3>1. k - Len(s) \in 1 .. Len(t) /\ k = Len(s) + (k - Len(s))
      BY <1>1, <1>2, <2>2
    <3> QED
      BY <3>1
  <2> QED
    BY <1>1, <1>2, <2>1, <2>2
<1>4. /\ \A k \in 1 .. Len(s) : s[k] \in X
      /\ \A k \in 1 .. Len(t) : t[k] \in Y
  BY <1>1
<1>5. ASSUME NEW x \in X \cup Y PROVE \E k \in 1 .. Len(u) : u[k] = x
  <2>1. CASE x \in X
    <3>1. PICK k \in 1 .. Len(s) : s[k] = x
      BY <2>1 DEF Lists
    <3>2. k \in 1 .. Len(u)
      BY <1>1, <1>2
    <3> QED
      BY <1>2, <3>1, <3>2
  <2>2. CASE x \in Y
    <3>1. PICK k \in 1 .. Len(t) : t[k] = x
      BY <2>2 DEF Lists
    <3>2. Len(s) + k \in 1 .. Len(u)
      BY <1>1, <1>2
    <3> QED
      BY <1>2, <3>1, <3>2
  <2> QED
    BY <2>1, <2>2
<1>6. ASSUME NEW j \in 1 .. Len(u), NEW k \in 1 .. Len(u)
      PROVE  (u[j] = u[k] => j = k) /\ (par[u[j]] = u[k] => k < j)
  <2>1. CASE j \in 1 .. Len(s) /\ k \in 1 .. Len(s)
    <3>1. u[j] = s[j] /\ u[k] = s[k]
      BY <1>2, <2>1
    <3>2. (s[j] = s[k] => j = k) /\ (par[s[j]] = s[k] => k < j)
      BY <2>1 DEF Lists
    <3> QED
      BY <3>1, <3>2
  <2>2. CASE \E a \in 1 .. Len(t), b \in 1 .. Len(t) : j = Len(s) + a /\ k = Len(s) + b
    <3>1. PICK a \in 1 .. Len(t), b \in 1 .. Len(t) : j = Len(s) + a /\ k = Len(s) + b
      BY <2>2
    <3>2. u[j] = t[a] /\ u[k] = t[b]
      BY <1>2, <3>1
    <3>3. (t[a] = t[b] => a = b) /\ (par[t[a]] = t[b] => b < a)
      BY DEF Lists
    <3>4. b < a => k < j
      BY <1>1, <3>1
    <3> QED
      BY <3>1, <3>2, <3>3, <3>4
  <2>3. CASE j \in 1 .. Len(s) /\ \E b \in 1 .. Len(t) : k = Len(s) + b
    <3>1. PICK b \in 1 .. Len(t) : k = Len(s) + b
      BY <2>3
    <3>2. u[j] \in X /\ u[k] \in Y
      BY <1>2, <1>4, <2>3, <3>1
    <3> QED
      BY <3>2 DEF Apart
  <2>4. CASE k \in 1 .. Len(s) /\ \E a \in 1 .. Len(t) : j = Len(s) + a
    <3>1. PICK a \in 1 .. Len(t) : j = Len(s) + a
      BY <2>4
    <3>2. u[k] \in X /\ u[j] \in Y
      BY <1>2, <1>4, <2>4, <3>1
    <3>3. k < j
      BY <1>1, <2>4, <3>1
    <3> QED
      BY <3>2, <3>3 DEF Apart
  <2> QED
    BY <1>3, <2>1, <2>2, <2>3, <2>4
<1>7. Lists(u, X \cup Y, par)
  BY <1>2, <1>5, <1>6 DEF Lists
<1> QED
  BY <1>7 DEF u

\* A number that is not its own parent is a list.
LEMMA OneList ==
  ASSUME NEW i, NEW par, par[i] # i
  PROVE  Lists(<<i>>, {i}, par)
<1>1. <<i>> \in Seq({i}) /\ Len(<<i>>) = 1 /\ <<i>>[1] = i
  OBVIOUS
<1> QED
  BY <1>1 DEF Lists

\* So is nothing.
LEMMA NoList == \A par : Lists(<<>>, {}, par)
BY DEF Lists

\* f has what FlattenSeq has made of each beginning of ss.
Flattens(f, ss, n) ==
  /\ FlattenSeq(ss) = f[n]
  /\ f[1] = ss[1]
  /\ \A i \in 1 .. n : i # 1 => f[i] = f[i - 1] \o ss[i]

\* The recursive function in FlattenSeq is one, and it is a list of sequences.
LEMMA FlattenFacts ==
  ASSUME NEW A, NEW n \in Nat, n # 0, NEW ss \in [1 .. n -> Seq(A)]
  PROVE  \E f \in [1 .. n -> Seq(A)] : Flattens(f, ss, n)
<1> DEFINE Rhs(f, i) == IF i = 1 THEN ss[i] ELSE f[i - 1] \o ss[i]
           Good(m) == \E f \in [1 .. n -> Seq(A)] : \A i \in 1 .. m : f[i] = Rhs(f, i)
           T == {m \in 0 .. n : Good(m)}
<1>1. 0 \in T
  <2>1. ss \in [1 .. n -> Seq(A)] /\ 1 .. 0 = {} /\ 0 \in 0 .. n
    OBVIOUS
  <2> QED
    BY <2>1
<1>2. ASSUME NEW m \in 0 .. n - 1, m \in T PROVE m + 1 \in T
  <2>1. PICK f \in [1 .. n -> Seq(A)] : \A i \in 1 .. m : f[i] = Rhs(f, i)
    BY <1>2
  <2>2. m + 1 \in 1 .. n /\ m + 1 \in 0 .. n /\ (m + 1 # 1 => (m + 1) - 1 \in 1 .. n /\ (m + 1) - 1 # m + 1)
    OBVIOUS
  <2>3. Rhs(f, m + 1) \in Seq(A)
    <3>1. ss[m + 1] \in Seq(A)
      BY <2>2
    <3>2. CASE m + 1 = 1
      BY <3>1, <3>2
    <3>3. CASE m + 1 # 1
      <4>1. f[(m + 1) - 1] \in Seq(A)
        BY <2>2, <3>3
      <4>2. f[(m + 1) - 1] \o ss[m + 1] \in Seq(A)
        BY <3>1, <4>1
      <4> QED
        BY <3>3, <4>2
    <3> QED
      BY <3>2, <3>3
  <2> DEFINE g == [f EXCEPT ![m + 1] = Rhs(f, m + 1)]
  <2>4. /\ g \in [1 .. n -> Seq(A)]
        /\ g[m + 1] = Rhs(f, m + 1)
        /\ \A i \in 1 .. n : i # m + 1 => g[i] = f[i]
    BY <2>2, <2>3
  <2> HIDE DEF g
  <2>5. ASSUME NEW i \in 1 .. m + 1 PROVE g[i] = Rhs(g, i)
    <3>1. CASE i = m + 1
      <4>1. CASE i = 1
        BY <2>4, <3>1, <4>1
      <4>2. CASE i # 1
        <5>1. g[i - 1] = f[i - 1]
          BY <2>2, <2>4, <3>1, <4>2
        <5> QED
          BY <2>4, <3>1, <4>2, <5>1
      <4> QED
        BY <4>1, <4>2
    <3>2. CASE i # m + 1
      <4>1. i \in 1 .. m /\ i \in 1 .. n /\ (i # 1 => i - 1 \in 1 .. n /\ i - 1 # m + 1)
        BY <3>2
      <4>2. g[i] = f[i] /\ f[i] = Rhs(f, i) /\ (i # 1 => g[i - 1] = f[i - 1])
        BY <2>1, <2>4, <3>2, <4>1
      <4> QED
        BY <4>2
    <3> QED
      BY <3>1, <3>2
  <2> HIDE DEF Rhs
  <2>6. Good(m + 1)
    BY <2>4, <2>5
  <2> QED
    BY <2>2, <2>6
<1> HIDE DEF T
<1>3. n \in T
  BY <1>1, <1>2, Upward
<1>4. PICK f \in [1 .. n -> Seq(A)] : \A i \in 1 .. n : f[i] = Rhs(f, i)
  BY <1>3 DEF T
<1>5. f = [i \in 1 .. n |-> Rhs(f, i)]
  BY <1>4
<1>6. PICK h : h = (CHOOSE g : g = [i \in 1 .. n |-> Rhs(g, i)])
  OBVIOUS
<1>7. h = [i \in 1 .. n |-> Rhs(h, i)]
  BY <1>5, <1>6
<1>8. Len(ss) = n
  OBVIOUS
<1>9. FlattenSeq(ss) = h[n]
  BY <1>6, <1>8 DEF FlattenSeq
<1>10. \A i \in 1 .. n : h[i] = Rhs(h, i)
  BY <1>7
<1>11. h \in [1 .. n -> Seq(A)]
  <2> DEFINE V == {m \in 0 .. n : \A i \in 1 .. m : h[i] \in Seq(A)}
  <2>1. 0 \in V
    OBVIOUS
  <2>2. ASSUME NEW m \in 0 .. n - 1, m \in V PROVE m + 1 \in V
    <3>1. m + 1 \in 1 .. n /\ m + 1 \in 0 .. n /\ (m + 1 # 1 => (m + 1) - 1 \in 1 .. m)
      OBVIOUS
    <3>2. h[m + 1] = Rhs(h, m + 1) /\ ss[m + 1] \in Seq(A)
      BY <1>10, <3>1
    <3>3. h[m + 1] \in Seq(A)
      <4>1. CASE m + 1 = 1
        BY <3>2, <4>1
      <4>2. CASE m + 1 # 1
        <5>1. h[(m + 1) - 1] \in Seq(A)
          BY <2>2, <3>1, <4>2
        <5>2. h[(m + 1) - 1] \o ss[m + 1] \in Seq(A)
          BY <3>2, <5>1
        <5> QED
          BY <3>2, <4>2, <5>2
      <4> QED
        BY <4>1, <4>2
    <3>4. \A i \in 1 .. m + 1 : i = m + 1 \/ i \in 1 .. m
      OBVIOUS
    <3> QED
      BY <2>2, <3>1, <3>3, <3>4
  <2> HIDE DEF V
  <2>3. n \in V
    BY <2>1, <2>2, Upward
  <2>4. \A i \in 1 .. n : h[i] \in Seq(A)
    BY <2>3 DEF V
  <2> QED
    BY <1>7, <2>4
<1>12. 1 \in 1 .. n
  OBVIOUS
<1>13. Flattens(h, ss, n)
  BY <1>9, <1>10, <1>12 DEF Flattens
<1> QED
  BY <1>11, <1>13

\* n lists, the p-th of X[p], that have nothing to do with each other.
Parts(ss, n, A, X, par) ==
  /\ n \in Nat /\ ss \in [1 .. n -> Seq(A)]
  /\ \A p \in 1 .. n : Lists(ss[p], X[p], par)
  /\ \A p, q \in 1 .. n : p # q => Apart(X[p], X[q], par)

\* FlattenSeq lists what its sequences list.
LEMMA FlattenLists ==
  ASSUME NEW ss, NEW n, NEW A, NEW X, NEW par, Parts(ss, n, A, X, par)
  PROVE  Lists(FlattenSeq(ss), UNION {X[p] : p \in 1 .. n}, par)
<1> SUFFICES ASSUME n \in Nat, ss \in [1 .. n -> Seq(A)],
                    \A p \in 1 .. n : Lists(ss[p], X[p], par),
                    \A p, q \in 1 .. n : p # q => Apart(X[p], X[q], par)
             PROVE  Lists(FlattenSeq(ss), UNION {X[p] : p \in 1 .. n}, par)
  BY DEF Parts
<1> DEFINE U(m) == UNION {X[p] : p \in 1 .. m}
<1>1. CASE n = 0
  <2>1. Len(ss) = 0 /\ ss = <<>> /\ U(n) = {}
    BY <1>1
  <2>2. FlattenSeq(ss) = <<>>
    BY <2>1 DEF FlattenSeq
  <2>3. Lists(<<>>, {}, par)
    BY NoList
  <2> HIDE DEF U
  <2>4. Lists(FlattenSeq(ss), U(n), par)
    BY <2>1, <2>2, <2>3
  <2> QED
    BY <2>4 DEF U
<1>2. CASE n # 0
  <2>1. PICK f \in [1 .. n -> Seq(A)] : Flattens(f, ss, n)
    BY <1>2, FlattenFacts
  <2>2. /\ FlattenSeq(ss) = f[n]
        /\ f[1] = ss[1]
        /\ \A i \in 1 .. n : i # 1 => f[i] = f[i - 1] \o ss[i]
    BY <2>1 DEF Flattens
  <2> DEFINE T == {m \in 0 .. n : m = 0 \/ Lists(f[m], U(m), par)}
  <2>3. 0 \in T
    OBVIOUS
  <2>4. ASSUME NEW m \in 0 .. n - 1, m \in T PROVE m + 1 \in T
    <3>1. m + 1 \in 1 .. n /\ m + 1 \in 0 .. n /\ m \in Nat
      OBVIOUS
    <3>2. Lists(ss[m + 1], X[m + 1], par)
      BY <3>1
    <3>3. CASE m = 0
      <4>1. m + 1 = 1 /\ U(m + 1) = X[m + 1]
        BY <3>3
      <4>2. Lists(f[m + 1], U(m + 1), par)
        BY <2>2, <3>2, <4>1
      <4> QED
        BY <3>1, <4>2
    <3>4. CASE m # 0
      <4>1. m + 1 # 1 /\ (m + 1) - 1 = m
        BY <3>1, <3>4
      <4>2. f[m + 1] = f[m] \o ss[m + 1]
        BY <2>2, <3>1, <4>1
      <4>3. Lists(f[m], U(m), par)
        BY <2>4, <3>4
      <4>4. ASSUME NEW x \in U(m), NEW y \in X[m + 1] PROVE x # y /\ par[x] # y
        <5>1. PICK p \in 1 .. m : x \in X[p]
          OBVIOUS
        <5>2. p \in 1 .. n /\ p # m + 1
          OBVIOUS
        <5>3. Apart(X[p], X[m + 1], par)
          BY <3>1, <5>2
        <5> QED
          BY <5>1, <5>3 DEF Apart
      <4>5. Apart(U(m), X[m + 1], par)
        BY <4>4 DEF Apart
      <4>6. U(m + 1) = U(m) \cup X[m + 1]
        <5>1. 1 .. m + 1 = (1 .. m) \cup {m + 1}
          BY <3>1
        <5> QED
          BY <5>1
      <4> HIDE DEF U
      <4>7. Lists(f[m] \o ss[m + 1], U(m) \cup X[m + 1], par)
        BY <3>2, <4>3, <4>5, ConcatLists
      <4> QED
        BY <3>1, <4>2, <4>6, <4>7
    <3> QED
      BY <3>3, <3>4
  <2> HIDE DEF T
  <2>5. n \in T
    BY <2>3, <2>4, Upward
  <2> HIDE DEF U
  <2>6. Lists(f[n], U(n), par)
    BY <1>2, <2>5 DEF T
  <2> QED
    BY <2>2, <2>6 DEF U
<1> QED
  BY <1>1, <1>2

\* What FlattenSeq returns is a sequence of what its sequences hold.
LEMMA FlattenType ==
  ASSUME NEW n \in Nat, NEW A, NEW ss \in [1 .. n -> Seq(A)]
  PROVE  FlattenSeq(ss) \in Seq(A)
<1>1. CASE n = 0
  <2>1. Len(ss) = 0 /\ ss = <<>>
    BY <1>1
  <2> QED
    BY <2>1 DEF FlattenSeq
<1>2. CASE n # 0
  <2>1. PICK f \in [1 .. n -> Seq(A)] : Flattens(f, ss, n)
    BY <1>2, FlattenFacts
  <2>2. FlattenSeq(ss) = f[n]
    BY <2>1 DEF Flattens
  <2> QED
    BY <1>2, <2>2
<1> QED
  BY <1>1, <1>2

\* The lists that below has for s, one after the other.
Joined(below, s) == FlattenSeq([k \in 1 .. Len(s) |-> below[s[k]]])

\* Each number is followed by greater ones.
Forward(next, n) ==
  /\ n \in Nat /\ next \in [1 .. n -> Seq(1 .. n)]
  /\ \A i \in 1 .. n : \A k \in 1 .. Len(next[i]) : next[i][k] > i

\* Each number, then the lists of those that follow it: the recursion of Timeline.
Descent(next, n) ==
  CHOOSE f : f = [i \in 1 .. n |-> <<i>> \o FlattenSeq([k \in DOMAIN next[i] |-> f[next[i][k]]])]

\* below[i] is i and then the lists of next[i].
Follows(below, next, n) ==
  /\ below \in [1 .. n -> Seq(1 .. n)]
  /\ \A i \in 1 .. n : below[i] = <<i>> \o Joined(below, next[i])

\* That recursive function is one, since each list depends on those of greater
\* numbers only.
LEMMA DescentFacts ==
  ASSUME NEW n, NEW next, Forward(next, n), NEW below, below = Descent(next, n)
  PROVE  Follows(below, next, n)
<1> SUFFICES ASSUME n \in Nat, next \in [1 .. n -> Seq(1 .. n)],
                    \A i \in 1 .. n : \A k \in 1 .. Len(next[i]) : next[i][k] > i
             PROVE  Follows(below, next, n)
  BY DEF Forward
<1> DEFINE Ss(f, i) == [k \in 1 .. Len(next[i]) |-> f[next[i][k]]]
           Rhs(f, i) == <<i>> \o FlattenSeq(Ss(f, i))
           N == Seq(1 .. n)
           Good(m) == \E f \in [1 .. n -> N] : \A i \in 1 .. n : i > n - m => f[i] = Rhs(f, i)
           T == {m \in 0 .. n : Good(m)}
<1>1. ASSUME NEW i \in 1 .. n
      PROVE  /\ Len(next[i]) \in Nat /\ DOMAIN next[i] = 1 .. Len(next[i])
             /\ \A k \in 1 .. Len(next[i]) : next[i][k] \in 1 .. n /\ next[i][k] > i
  <2>1. next[i] \in Seq(1 .. n)
    OBVIOUS
  <2>2. /\ Len(next[i]) \in Nat /\ DOMAIN next[i] = 1 .. Len(next[i])
        /\ \A k \in 1 .. Len(next[i]) : next[i][k] \in 1 .. n
    BY <2>1
  <2> QED
    BY <2>2
<1>2. ASSUME NEW i \in 1 .. n, NEW f, \A j \in 1 .. n : j > i => f[j] \in N
      PROVE  Rhs(f, i) \in N
  <2>1. Ss(f, i) \in [1 .. Len(next[i]) -> N]
    BY <1>1, <1>2
  <2>2. FlattenSeq(Ss(f, i)) \in N
    BY <1>1, <2>1, FlattenType
  <2>3. <<i>> \in N
    OBVIOUS
  <2> HIDE DEF Ss
  <2> QED
    BY <2>2, <2>3
<1>3. ASSUME NEW i \in 1 .. n, NEW f, NEW g, \A j \in 1 .. n : j > i => f[j] = g[j]
      PROVE  Rhs(f, i) = Rhs(g, i)
  <2>1. Ss(f, i) = Ss(g, i)
    BY <1>1, <1>3
  <2> HIDE DEF Ss
  <2> QED
    BY <2>1
<1> HIDE DEF Rhs
<1>4. 0 \in T
  <2>1. <<>> \in N
    OBVIOUS
  <2>2. [i \in 1 .. n |-> <<>>] \in [1 .. n -> N]
    BY <2>1
  <2>3. \A i \in 1 .. n : ~(i > n - 0)
    OBVIOUS
  <2> QED
    BY <2>2, <2>3
<1>5. ASSUME NEW m \in 0 .. n - 1, m \in T PROVE m + 1 \in T
  <2>1. PICK f \in [1 .. n -> N] : \A i \in 1 .. n : i > n - m => f[i] = Rhs(f, i)
    BY <1>5
  <2>2. n - m \in 1 .. n /\ m + 1 \in 0 .. n
    OBVIOUS
  <2> DEFINE g == [f EXCEPT ![n - m] = Rhs(f, n - m)]
  <2>3. Rhs(f, n - m) \in N
    BY <1>2, <2>2
  <2>4. /\ g \in [1 .. n -> N] /\ g[n - m] = Rhs(f, n - m)
        /\ \A i \in 1 .. n : i # n - m => g[i] = f[i]
    BY <2>2, <2>3
  <2> HIDE DEF g
  <2>5. ASSUME NEW i \in 1 .. n, i > n - (m + 1) PROVE g[i] = Rhs(g, i)
    <3>1. i = n - m \/ i > n - m
      BY <2>5
    <3>2. \A j \in 1 .. n : j > i => g[j] = f[j]
      BY <2>4, <3>1
    <3>3. Rhs(g, i) = Rhs(f, i)
      BY <1>3, <3>2
    <3>4. CASE i = n - m
      BY <2>4, <3>3, <3>4
    <3>5. CASE i > n - m
      <4>1. i # n - m
        BY <3>5
      <4> QED
        BY <2>1, <2>4, <3>3, <3>5, <4>1
    <3> QED
      BY <3>1, <3>4, <3>5
  <2>6. Good(m + 1)
    BY <2>4, <2>5
  <2> QED
    BY <2>2, <2>6
<1> HIDE DEF T
<1>6. n \in T
  BY <1>4, <1>5, Upward
<1>7. PICK f \in [1 .. n -> N] : \A i \in 1 .. n : i > n - n => f[i] = Rhs(f, i)
  BY <1>6 DEF T
<1>8. \A i \in 1 .. n : i > n - n
  OBVIOUS
<1>9. f = [i \in 1 .. n |-> Rhs(f, i)]
  BY <1>7, <1>8
<1>10. \A h : [i \in 1 .. n |-> <<i>> \o FlattenSeq([k \in DOMAIN next[i] |-> h[next[i][k]]])]
              = [i \in 1 .. n |-> Rhs(h, i)]
  BY <1>1 DEF Rhs
<1>11. below = CHOOSE h : h = [i \in 1 .. n |-> Rhs(h, i)]
  BY <1>10 DEF Descent
<1>12. below = [i \in 1 .. n |-> Rhs(below, i)]
  BY <1>9, <1>11
<1>13. \A i \in 1 .. n : below[i] = Rhs(below, i)
  BY <1>12
<1>14. \A i \in 1 .. n : below[i] \in N
  <2> DEFINE V == {m \in 0 .. n : \A i \in 1 .. n : i > n - m => below[i] \in N}
  <2>1. 0 \in V
    OBVIOUS
  <2>2. ASSUME NEW m \in 0 .. n - 1, m \in V PROVE m + 1 \in V
    <3>1. n - m \in 1 .. n /\ m + 1 \in 0 .. n
      OBVIOUS
    <3>2. Rhs(below, n - m) \in N
      BY <1>2, <2>2, <3>1
    <3>3. below[n - m] \in N
      BY <1>13, <3>1, <3>2
    <3>4. \A i \in 1 .. n : i > n - (m + 1) => i = n - m \/ i > n - m
      OBVIOUS
    <3> QED
      BY <2>2, <3>1, <3>3, <3>4
  <2> HIDE DEF V
  <2>3. n \in V
    BY <2>1, <2>2, Upward
  <2> QED
    BY <1>8, <2>3 DEF V
<1>15. below \in [1 .. n -> N]
  BY <1>12, <1>14
<1> QED
  BY <1>13, <1>15 DEF Rhs, Follows, Joined

\* s has each member of S once.
Enumerates(s, S) ==
  /\ s \in Seq(S)
  /\ \A x \in S : \E k \in 1 .. Len(s) : s[k] = x
  /\ \A j, k \in 1 .. Len(s) : s[j] = s[k] => j = k

\* The members of a list; those of all the lists of S.
Members(s) == {s[k] : k \in 1 .. Len(s)}
Under(S, below) == UNION {Members(below[t]) : t \in S}

\* X is what descends from i in G.
Tree(X, i, G, par) ==
  /\ X \subseteq G /\ i \in X
  /\ \A x \in X : i <= x /\ (x = i \/ par[x] \in X)
  /\ \A x \in G : par[x] \in X => x \in X

\* The trees of two numbers are apart if neither is in the other's.
LEMMA TreesApart ==
  ASSUME NEW G, G \subseteq Nat, NEW par, \A x \in G : par[x] \in Nat /\ par[x] < x,
         NEW a, NEW b, NEW X, NEW Y, Tree(X, a, G, par), Tree(Y, b, G, par), a \notin Y, b \notin X
  PROVE  Apart(X, Y, par)
<1>1. X \cap Y = {}
  <2> SUFFICES ASSUME X \cap Y # {} PROVE FALSE
    OBVIOUS
  <2>1. X \cap Y \subseteq Nat
    BY DEF Tree
  <2>2. PICK m \in X \cap Y : \A k \in X \cap Y : m <= k
    BY <2>1, Least
  <2>3. m # a /\ m # b /\ m \in G
    BY DEF Tree
  <2>4. par[m] \in X \cap Y
    BY <2>3 DEF Tree
  <2>5. par[m] \in Nat /\ m \in Nat /\ par[m] < m
    BY <2>3
  <2> QED
    BY <2>2, <2>4, <2>5
<1>2. ASSUME NEW x \in X, NEW y \in Y PROVE par[x] # y
  BY <1>1 DEF Tree
<1> QED
  BY <1>1, <1>2 DEF Apart

\* The members of a group are numbers up to n, greater than their parents.
Lineage(G, n, par) == n \in Nat /\ G \subseteq 1 .. n /\ \A x \in G : par[x] \in Nat /\ par[x] < x

\* s lists what descends from i.
Lineal(s, i, G, par) == Lists(s, Members(s), par) /\ Tree(Members(s), i, G, par)

\* below has the lists of the trees of S, and none of S is in the tree of another.
Forest(S, G, n, par, below) ==
  /\ Lineage(G, n, par) /\ S \subseteq G
  /\ below \in [1 .. n -> Seq(1 .. n)]
  /\ \A t \in S : Lineal(below[t], t, G, par)
  /\ \A t, u \in S : t # u => t \notin Members(below[u])

\* The lists of these trees, one after the other, list all of them.
LEMMA ForestLists ==
  ASSUME NEW S, NEW G, NEW n, NEW par, NEW below, Forest(S, G, n, par, below),
         NEW s, Enumerates(s, S)
  PROVE  Lists(Joined(below, s), Under(S, below), par)
<1> SUFFICES ASSUME n \in Nat, G \subseteq 1 .. n, \A x \in G : par[x] \in Nat /\ par[x] < x,
                    S \subseteq G, below \in [1 .. n -> Seq(1 .. n)],
                    \A t \in S : Lineal(below[t], t, G, par),
                    \A t, u \in S : t # u => t \notin Members(below[u])
             PROVE  Lists(Joined(below, s), Under(S, below), par)
  BY DEF Forest, Lineage
<1> DEFINE ss == [k \in 1 .. Len(s) |-> below[s[k]]]
           Y == [k \in 1 .. Len(s) |-> Members(below[s[k]])]
<1>1. Len(s) \in Nat /\ \A k \in 1 .. Len(s) : s[k] \in S
  BY DEF Enumerates
<1>2. ss \in [1 .. Len(s) -> Seq(1 .. n)]
  BY <1>1
<1>3. \A k \in 1 .. Len(s) : Lists(ss[k], Y[k], par)
  BY <1>1 DEF Lineal
<1>4. ASSUME NEW p \in 1 .. Len(s), NEW q \in 1 .. Len(s), p # q PROVE Apart(Y[p], Y[q], par)
  <2>1. s[p] \in S /\ s[q] \in S /\ s[p] # s[q]
    BY <1>1, <1>4 DEF Enumerates
  <2>2. /\ Tree(Members(below[s[p]]), s[p], G, par) /\ Tree(Members(below[s[q]]), s[q], G, par)
        /\ s[p] \notin Members(below[s[q]]) /\ s[q] \notin Members(below[s[p]])
    BY <2>1 DEF Lineal
  <2>3. G \subseteq Nat
    OBVIOUS
  <2>4. Apart(Members(below[s[p]]), Members(below[s[q]]), par)
    BY <2>2, <2>3, TreesApart
  <2> QED
    BY <2>4
<1>5. UNION {Y[k] : k \in 1 .. Len(s)} = Under(S, below)
  <2>1. ASSUME NEW x \in Under(S, below) PROVE x \in UNION {Y[k] : k \in 1 .. Len(s)}
    <3>1. PICK t \in S : x \in Members(below[t])
      BY DEF Under
    <3>2. PICK k \in 1 .. Len(s) : s[k] = t
      BY DEF Enumerates
    <3> QED
      BY <3>1, <3>2
  <2>2. ASSUME NEW x \in UNION {Y[k] : k \in 1 .. Len(s)} PROVE x \in Under(S, below)
    BY <1>1 DEF Under
  <2> QED
    BY <2>1, <2>2
<1> HIDE DEF ss, Y
<1>6. Parts(ss, Len(s), 1 .. n, Y, par)
  BY <1>1, <1>2, <1>3, <1>4 DEF Parts
<1>7. Lists(FlattenSeq(ss), UNION {Y[k] : k \in 1 .. Len(s)}, par)
  BY <1>6, FlattenLists
<1> QED
  BY <1>5, <1>7 DEF ss, Joined

\* The members of G whose parent is i, and those whose parent is not in G.
Children(G, par, i) == {c \in G : par[c] = i}
Heads(G, par) == {i \in G : par[i] \notin G}

\* below[i] is i and then the lists of its children, in the order of next[i].
Descends(below, next, G, n, par) ==
  /\ Lineage(G, n, par)
  /\ \A i \in 1 .. n : Enumerates(next[i], Children(G, par, i))
  /\ Follows(below, next, n)

\* The list of each member of G is that of what descends from it.
LEMMA BelowLists ==
  ASSUME NEW G, NEW n, NEW par, NEW next, NEW below, Descends(below, next, G, n, par)
  PROVE  \A i \in G : Lineal(below[i], i, G, par)
<1> SUFFICES ASSUME n \in Nat, G \subseteq 1 .. n, \A x \in G : par[x] \in Nat /\ par[x] < x,
                    \A i \in 1 .. n : Enumerates(next[i], Children(G, par, i)),
                    below \in [1 .. n -> Seq(1 .. n)],
                    \A i \in 1 .. n : below[i] = <<i>> \o Joined(below, next[i])
             PROVE  \A i \in G : Lineal(below[i], i, G, par)
  BY DEF Descends, Follows, Lineage
<1> DEFINE T == {m \in 0 .. n : \A i \in G : i > n - m => Lineal(below[i], i, G, par)}
<1>1. 0 \in T
  <2>1. 0 \in 0 .. n /\ \A i \in G : ~(i > n - 0)
    OBVIOUS
  <2> QED
    BY <2>1
<1>2. ASSUME NEW m \in 0 .. n - 1, m \in T PROVE m + 1 \in T
  <2>1. m + 1 \in 0 .. n /\ \A i \in G : i > n - (m + 1) => i > n - m \/ i = n - m
    OBVIOUS
  <2>2. PICK i : i = n - m
    OBVIOUS
  <2> SUFFICES ASSUME i \in G PROVE Lineal(below[i], i, G, par)
    BY <1>2, <2>1, <2>2
  <2> DEFINE S == Children(G, par, i)
             fl == Joined(below, next[i])
             Z == Under(S, below)
  <2>3. i \in 1 .. n /\ i \in Nat /\ \A t \in S : t \in G /\ par[t] = i /\ t \in Nat /\ i < t
    BY DEF Children
  <2>4. \A t \in S : Lineal(below[t], t, G, par)
    BY <1>2, <2>2, <2>3
  <2>5. ASSUME NEW t \in S, NEW u \in S, t # u PROVE t \notin Members(below[u])
    <3> SUFFICES ASSUME t \in Members(below[u]) PROVE FALSE
      OBVIOUS
    <3>1. Tree(Members(below[u]), u, G, par)
      BY <2>4 DEF Lineal
    <3>2. i \in Members(below[u])
      BY <2>3, <2>5, <3>1 DEF Tree
    <3>3. u <= i
      BY <3>1, <3>2 DEF Tree
    <3> QED
      BY <2>3, <3>3
  <2>6. Enumerates(next[i], S) /\ S \subseteq G
    BY <2>3
  <2>7. Forest(S, G, n, par, below)
    BY <2>4, <2>5, <2>6 DEF Forest, Lineage
  <2> HIDE DEF S
  <2>8. Lists(fl, Z, par)
    BY <2>6, <2>7, ForestLists
  <2>9. ASSUME NEW z \in Z PROVE z \in G /\ z # i /\ par[i] # z /\ i <= z /\ (par[z] = i \/ par[z] \in Z)
    <3>1. PICK t \in S : z \in Members(below[t])
      BY DEF Under
    <3>2. z \in G /\ t <= z /\ (z = t \/ par[z] \in Members(below[t]))
      BY <2>4, <3>1 DEF Lineal, Tree
    <3>3. i < t /\ par[t] = i /\ t \in Nat
      BY <2>3
    <3>4. z \in Nat
      BY <3>2
    <3>5. par[i] \in Nat /\ par[i] < i
      OBVIOUS
    <3>6. z \in Nat /\ par[i] \in Nat /\ par[i] < i
      BY <3>4, <3>5
    <3>7. z # i /\ par[i] # z /\ i <= z
      BY <2>3, <3>2, <3>3, <3>6
    <3>8. par[z] \in Members(below[t]) => par[z] \in Z
      BY DEF Under
    <3> QED
      BY <3>2, <3>3, <3>7, <3>8
  <2>10. below[i] = <<i>> \o fl
    BY <2>3
  <2>11. par[i] # i
    OBVIOUS
  <2>12. Lists(<<i>>, {i}, par)
    BY <2>11, OneList
  <2>13. Apart({i}, Z, par)
    BY <2>9 DEF Apart
  <2> HIDE DEF fl, Z
  <2>14. Lists(below[i], {i} \cup Z, par)
    <3>1. Lists(<<i>> \o fl, {i} \cup Z, par)
      BY <2>8, <2>12, <2>13, ConcatLists
    <3> QED
      BY <2>10, <3>1
  <2>15. Members(below[i]) = {i} \cup Z
    <3>1. Members(below[i]) = {below[i][k] : k \in 1 .. Len(below[i])}
      BY DEF Members
    <3>2. /\ \A k \in 1 .. Len(below[i]) : below[i][k] \in {i} \cup Z
          /\ \A x \in {i} \cup Z : \E k \in 1 .. Len(below[i]) : below[i][k] = x
      BY <2>14 DEF Lists
    <3>3. Members(below[i]) \subseteq {i} \cup Z
      BY <3>1, <3>2
    <3>4. {i} \cup Z \subseteq Members(below[i])
      BY <3>1, <3>2
    <3> QED
      BY <3>3, <3>4
  <2>16. ASSUME NEW x \in G, par[x] \in {i} \cup Z PROVE x \in {i} \cup Z
    <3>1. CASE par[x] = i
      <4>1. x \in S
        BY <3>1 DEF S, Children
      <4>2. x \in Members(below[x])
        BY <2>4, <4>1 DEF Lineal, Tree
      <4> QED
        BY <4>1, <4>2 DEF Z, Under
    <3>2. CASE par[x] \in Z
      <4>1. PICK t \in S : par[x] \in Members(below[t])
        BY <3>2 DEF Z, Under
      <4>2. x \in Members(below[t])
        BY <2>4, <2>16, <4>1 DEF Lineal, Tree
      <4> QED
        BY <4>1, <4>2 DEF Z, Under
    <3> QED
      BY <2>16, <3>1, <3>2
  <2>17. i <= i
    BY <2>3
  <2>18. Tree({i} \cup Z, i, G, par)
    BY <2>9, <2>16, <2>17 DEF Tree
  <2> QED
    BY <2>14, <2>15, <2>18 DEF Lineal
<1> HIDE DEF T
<1>3. n \in T
  BY <1>1, <1>2, Upward
<1>4. \A i \in G : i > n - n
  OBVIOUS
<1> QED
  BY <1>3, <1>4 DEF T

\* An ordering that starts from the members without a parent in G lists all of G.
LEMMA TopsList ==
  ASSUME NEW G, NEW n, NEW par, NEW next, NEW below, Descends(below, next, G, n, par),
         NEW top, Enumerates(top, Heads(G, par))
  PROVE  Lists(Joined(below, top), G, par)
<1> SUFFICES ASSUME n \in Nat, G \subseteq 1 .. n, \A x \in G : par[x] \in Nat /\ par[x] < x,
                    \A i \in 1 .. n : Enumerates(next[i], Children(G, par, i)),
                    below \in [1 .. n -> Seq(1 .. n)],
                    \A i \in 1 .. n : below[i] = <<i>> \o Joined(below, next[i])
             PROVE  Lists(Joined(below, top), G, par)
  BY DEF Descends, Follows, Lineage
<1> DEFINE S == Heads(G, par)
<1>1. \A i \in G : Lineal(below[i], i, G, par)
  BY BelowLists
<1>2. \A t, u \in S : t # u => t \notin Members(below[u])
  BY <1>1 DEF Lineal, Tree, Heads
<1>3. Under(S, below) = G
  <2> DEFINE Miss == {x \in G : x \notin Under(S, below)}
  <2>1. Miss = {}
    <3> SUFFICES ASSUME Miss # {} PROVE FALSE
      OBVIOUS
    <3>1. Miss \subseteq Nat /\ Miss # {}
      <4>1. G \subseteq Nat
        OBVIOUS
      <4> QED
        BY <4>1
    <3>2. PICK m \in Miss : \A k \in Miss : m <= k
      BY <3>1, Least
    <3>3. m \in G /\ m \in Nat /\ par[m] \in Nat /\ par[m] < m
      OBVIOUS
    <3>4. m \notin S
      <4>1. m \in Members(below[m])
        BY <1>1, <3>3 DEF Lineal, Tree
      <4> QED
        BY <4>1 DEF Under
    <3>5. par[m] \in G
      BY <3>3, <3>4 DEF Heads
    <3>6. par[m] \notin Miss
      <4>1. ~(m <= par[m])
        BY <3>3
      <4> QED
        BY <3>2, <4>1
    <3>7. PICK t \in S : par[m] \in Members(below[t])
      BY <3>5, <3>6 DEF Under
    <3>8. m \in Members(below[t])
      BY <1>1, <3>3, <3>7 DEF Lineal, Tree, Heads
    <3> QED
      BY <3>7, <3>8 DEF Under
  <2>2. Under(S, below) \subseteq G
    BY <1>1 DEF Under, Lineal, Tree, Heads
  <2> QED
    BY <2>1, <2>2
<1>4. S \subseteq G /\ Enumerates(top, S) /\ \A t \in S : Lineal(below[t], t, G, par)
  BY <1>1 DEF Heads
<1>5. Forest(S, G, n, par, below)
  BY <1>2, <1>4 DEF Forest, Lineage
<1> HIDE DEF S
<1>6. Lists(Joined(below, top), Under(S, below), par)
  BY <1>4, <1>5, ForestLists
<1> QED
  BY <1>3, <1>6

-----------------------------------------------------------------------------
(* The order of a work thread.                                             *)

\* A list of a finite set is as long as the set.
LEMMA ListsCount ==
  ASSUME NEW s, NEW X, NEW par, Lists(s, X, par)
  PROVE  Len(s) = Cardinality(X) /\ ToSet(s) = X
<1>1. /\ s \in Seq(X) /\ Len(s) \in Nat /\ DOMAIN s = 1 .. Len(s) /\ s \in [1 .. Len(s) -> X]
      /\ \A x \in X : \E k \in 1 .. Len(s) : s[k] = x
      /\ \A j, k \in 1 .. Len(s) : s[j] = s[k] => j = k
  BY DEF Lists
<1>2. s \in Bijection(1 .. Len(s), X)
  BY <1>1 DEF Bijection, Injection, Surjection, IsInjective
<1>3. ExistsBijection(1 .. Len(s), X)
  BY <1>2 DEF ExistsBijection
<1>4. Cardinality(X) = Len(s)
  BY <1>1, <1>3, FS_CountingElements
<1>5. ToSet(s) = X
  BY <1>1 DEF ToSet
<1> QED
  BY <1>4, <1>5

\* The attempts created at one time are in the order of their creation.
LEMMA EarlierOrders ==
  ASSUME Aged
  PROVE  /\ \A i \in Ids : ~Earlier(i, i)
         /\ \A i, j \in Ids : i # j => Earlier(i, j) \/ Earlier(j, i)
         /\ \A i, j, k \in Ids : Earlier(i, j) /\ Earlier(j, k) => Earlier(i, k)
<1>1. \A i \in Ids : i \in Int /\ attempts[i].at \in Int
  BY DEF Aged, Ids
<1> QED
  BY <1>1 DEF Earlier

\* Some attempts in chronological order are those attempts, each once.
LEMMA ChronologicalLists ==
  ASSUME Aged, NEW S, S \subseteq Ids
  PROVE  Enumerates(Chronological(S), S)
<1> DEFINE Before(i) == {j \in S : Earlier(j, i)}
           n == Cardinality(S)
           rank == [i \in S |-> Cardinality(Before(i)) + 1]
<1>1. IsFiniteSet(S) /\ n \in Nat
  <2>1. Len(attempts) \in Nat /\ S \in SUBSET (1 .. Len(attempts))
    BY DEF Aged, Ids
  <2>2. IsFiniteSet(1 .. Len(attempts))
    BY <2>1, FS_Interval
  <2>3. IsFiniteSet(S)
    BY <2>1, <2>2, FS_Subset
  <2> QED
    BY <2>3, FS_CardinalityType
<1>2. \A i \in S : IsFiniteSet(Before(i)) /\ Cardinality(Before(i)) \in Nat
  BY <1>1, FS_Subset, FS_CardinalityType
<1>3. ASSUME NEW i \in S PROVE Cardinality(Before(i)) < n
  <2>1. Before(i) \in SUBSET S /\ Before(i) # S
    BY EarlierOrders
  <2>2. Cardinality(Before(i)) <= n /\ (n = Cardinality(Before(i)) => S = Before(i))
    BY <1>1, <2>1, FS_Subset
  <2> HIDE DEF Before, n
  <2> QED
    BY <1>1, <1>2, <2>1, <2>2
<1>4. ASSUME NEW i \in S, NEW j \in S, Earlier(i, j) PROVE Cardinality(Before(i)) < Cardinality(Before(j))
  <2>1. Before(i) \subseteq Before(j) /\ i \notin Before(i) /\ i \in Before(j)
    BY <1>4, EarlierOrders
  <2> HIDE DEF Before
  <2>2. /\ Cardinality(Before(i)) <= Cardinality(Before(j))
        /\ (Cardinality(Before(j)) = Cardinality(Before(i)) => Before(j) = Before(i))
    BY <1>2, <2>1, FS_Subset
  <2> QED
    BY <1>2, <2>1, <2>2
<1>5. rank \in Injection(S, 1 .. n)
  <2> HIDE DEF Before, n
  <2>1. rank \in [S -> 1 .. n]
    BY <1>1, <1>2, <1>3
  <2>2. ASSUME NEW i \in S, NEW j \in S, rank[i] = rank[j] PROVE i = j
    <3>1. Cardinality(Before(i)) = Cardinality(Before(j))
      BY <1>2, <2>2
    <3>2. ~Earlier(i, j) /\ ~Earlier(j, i)
      BY <1>2, <1>4, <3>1
    <3> QED
      BY <3>2, EarlierOrders
  <2>3. DOMAIN rank = S
    OBVIOUS
  <2> HIDE DEF rank
  <2> QED
    BY <2>1, <2>2, <2>3 DEF Injection, IsInjective
<1> HIDE DEF rank
<1>6. rank \in Surjection(S, 1 .. n)
  <2>1. IsFiniteSet(1 .. n) /\ Cardinality(1 .. n) = n
    BY <1>1, FS_Interval
  <2> QED
    BY <1>5, <2>1, FS_Injection
<1> DEFINE s == [k \in 1 .. n |-> CHOOSE i \in S : rank[i] = k]
<1>7. \A k \in 1 .. n : s[k] \in S /\ rank[s[k]] = k
  <2>1. \A k \in 1 .. n : \E i \in S : rank[i] = k
    BY <1>6 DEF Surjection
  <2> HIDE DEF n
  <2> QED
    BY <2>1
<1>8. s \in [1 .. n -> S] /\ DOMAIN s = 1 .. n
  BY <1>7
<1> HIDE DEF s
<1>9. s \in SetToSeqs(S)
  BY <1>7, <1>8 DEF SetToSeqs
<1>10. ASSUME NEW j \in 1 .. n, NEW k \in 1 .. n, j < k PROVE Earlier(s[j], s[k])
  <2>1. s[j] \in S /\ s[k] \in S /\ s[j] # s[k] /\ rank[s[j]] = j /\ rank[s[k]] = k
    BY <1>7, <1>10
  <2>2. ASSUME Earlier(s[k], s[j]) PROVE FALSE
    <3>1. Cardinality(Before(s[k])) < Cardinality(Before(s[j]))
      BY <1>4, <2>1, <2>2
    <3>2. j = Cardinality(Before(s[j])) + 1 /\ k = Cardinality(Before(s[k])) + 1
      BY <2>1 DEF rank
    <3>3. Cardinality(Before(s[j])) \in Nat /\ Cardinality(Before(s[k])) \in Nat
      BY <1>2, <2>1
    <3> HIDE DEF Before, n
    <3> QED
      BY <1>1, <1>10, <3>1, <3>2, <3>3
  <2> QED
    BY <2>1, <2>2, EarlierOrders
<1>11. Chronological(S) \in SetToSeqs(S)
  <2>1. \E t \in SetToSeqs(S) : \A j, k \in DOMAIN t : j < k => Earlier(t[j], t[k])
    BY <1>8, <1>9, <1>10
  <2> QED
    BY <2>1 DEF Chronological
<1>12. PICK t : t = Chronological(S)
  OBVIOUS
<1>13. t \in [1 .. n -> S] /\ \A j, k \in 1 .. n : j # k => t[j] # t[k]
  BY <1>11, <1>12 DEF SetToSeqs
<1>14. t \in Seq(S) /\ Len(t) = n
  BY <1>1, <1>13
<1>15. \A x \in S : \E k \in 1 .. n : t[k] = x
  <2>1. t \in Injection(1 .. n, S)
    BY <1>13 DEF Injection, IsInjective
  <2>2. IsFiniteSet(1 .. n) /\ Cardinality(1 .. n) = Cardinality(S)
    BY <1>1, FS_Interval
  <2>3. t \in Surjection(1 .. n, S)
    BY <1>1, <2>1, <2>2, FS_Injection
  <2> QED
    BY <2>3 DEF Surjection
<1> QED
  BY <1>12, <1>13, <1>14, <1>15 DEF Enumerates

\* Attempts are created in the order of their numbers.
CreatedInOrder == \A i, j \in Ids : i <= j => attempts[i].at <= attempts[j].at

\* No step changes the creation time of an attempt, and a new one is created now.
Dated ==
  /\ \A i \in Ids : i \in Ids' /\ attempts'[i].at = attempts[i].at
  /\ \A j \in Ids' : j \notin Ids => attempts'[j].at = clock /\ \A i \in Ids' : i <= j

\* An insertion dates the new attempt.
LEMMA InsertDates ==
  ASSUME Aged, NEW folder, Insert(folder)
  PROVE  Dated
<1>1. Len(attempts) \in Nat /\ attempts \in Seq(Attempt) /\ Ids = 1 .. Len(attempts)
  BY DEF Aged, Ids
<1>2. PICK a : attempts' = Append(attempts, a) /\ a.at = clock
  BY DEF Insert
<1>3. Ids' = 1 .. Len(attempts) + 1
  BY <1>1, <1>2 DEF Ids
<1>4. \A i \in Ids : attempts'[i] = attempts[i]
  BY <1>1, <1>2
<1>5. attempts'[Len(attempts) + 1] = a
  BY <1>1, <1>2
<1> QED
  BY <1>1, <1>2, <1>3, <1>4, <1>5 DEF Dated

\* Whatever happens to attempt i later keeps its creation time.
LEMMA ChangeDates ==
  ASSUME NEW i \in Ids, NEW a, a.at = attempts[i].at, attempts' = [attempts EXCEPT ![i] = a]
  PROVE  Dated
<1>1. Ids' = Ids
  BY DEF Ids
<1>2. \A j \in Ids : attempts'[j] = IF j = i THEN a ELSE attempts[j]
  BY DEF Ids
<1> QED
  BY <1>1, <1>2 DEF Dated

\* A step keeps the order of creation.
LEMMA OrderKept == AttemptsInv /\ CreatedInOrder /\ [Next]_vars => CreatedInOrder'
<1> SUFFICES ASSUME AttemptsInv, CreatedInOrder, [Next]_vars PROVE CreatedInOrder'
  OBVIOUS
<1>1. Aged /\ Aged'
  BY StepKeeps DEF AttemptsInv
<1>2. UNCHANGED attempts => Dated
  <2>1. \A i, j : i \in Ids => i \in Ids' \/ attempts' # attempts
    BY DEF Ids
  <2> QED
    BY DEF Dated, Ids
<1>3. Dated
  <2>1. CASE Submissions
    <3>1. UNCHANGED taskVars
      BY <2>1, SubmissionsKeep
    <3> QED
      BY <1>2, <3>1 DEF taskVars
  <2>2. CASE CheckFolder \/ CheckSession
    <3>1. UNCHANGED taskVars \/ \E folder : Insert(folder)
      BY <2>2 DEF CheckFolder, CheckSession, Refuse
    <3> QED
      BY <1>1, <1>2, <3>1, InsertDates DEF taskVars
  <2>3. CASE LaterStep
    <3>1. CASE Tick
      BY <1>2, <3>1 DEF Tick
    <3>2. ASSUME NEW i \in Ids, NEW from, NEW to, Move(i, from, to) PROVE Dated
      <4>1. attempts' = [attempts EXCEPT ![i] = [attempts[i] EXCEPT !.status = to]]
        BY <3>2 DEF Move
      <4>2. [attempts[i] EXCEPT !.status = to].at = attempts[i].at
        BY <1>1, AttemptTypes DEF Attempt
      <4> QED
        BY <4>1, <4>2, ChangeDates
    <3>3. ASSUME NEW i \in Ids, Complete(i) PROVE Dated
      <4>1. CASE attempts' = [attempts EXCEPT ![i].status = "completed"]
        <5>1. [attempts[i] EXCEPT !.status = "completed"].at = attempts[i].at
          BY <1>1, AttemptTypes DEF Attempt
        <5> QED
          BY <4>1, <5>1, ChangeDates
      <4>2. CASE attempts' = [attempts EXCEPT ![i].status = "completed", ![i].session = Len(sessions) + 1]
        <5> DEFINE a == [attempts[i] EXCEPT !.status = "completed", !.session = Len(sessions) + 1]
        <5>1. attempts' = [attempts EXCEPT ![i] = a]
          BY <4>2 DEF Ids
        <5>2. a.at = attempts[i].at
          BY <1>1, AttemptTypes DEF Attempt
        <5> HIDE DEF a
        <5> QED
          BY <5>1, <5>2, ChangeDates
      <4> QED
        BY <3>3, <4>1, <4>2 DEF Complete
    <3>4. ASSUME NEW i \in Ids, Archive(i) \/ Restore(i) PROVE Dated
      <4>1. PICK b \in BOOLEAN : attempts' = [attempts EXCEPT ![i] = [attempts[i] EXCEPT !.archived = b]]
        BY <3>4 DEF Archive, Restore
      <4>2. [attempts[i] EXCEPT !.archived = b].at = attempts[i].at
        BY <1>1, AttemptTypes DEF Attempt
      <4> QED
        BY <4>1, <4>2, ChangeDates
    <3> QED
      BY <2>3, <3>1, <3>2, <3>3, <3>4 DEF LaterStep, Start, Quiet, Speak, Fail, Approve, Reject, Cancel
  <2>4. CASE ProjectStep
    BY <1>2, <2>4 DEF ProjectStep, taskVars
  <2>5. CASE UNCHANGED vars
    BY <1>2, <2>5 DEF vars, taskVars
  <2> QED
    BY <2>1, <2>2, <2>3, <2>4, <2>5 DEF Next
<1>4. \A i \in Ids : attempts[i].at \in 1 .. clock
  BY <1>1 DEF Aged
<1>5. Ids \subseteq Int /\ Ids' \subseteq Int /\ clock \in Int
  BY <1>1 DEF Aged, Ids
<1>6. ASSUME NEW i \in Ids', NEW j \in Ids', i <= j PROVE attempts'[i].at <= attempts'[j].at
  <2>1. CASE i \in Ids /\ j \in Ids
    BY <1>3, <1>6, <2>1 DEF CreatedInOrder, Dated
  <2>2. CASE j \notin Ids
    <3>1. attempts'[j].at = clock
      BY <1>3, <2>2 DEF Dated
    <3>2. attempts'[i].at <= clock
      BY <1>3, <1>4, <1>5 DEF Dated
    <3> QED
      BY <3>1, <3>2
  <2>3. CASE i \notin Ids /\ j \in Ids
    <3>1. j <= i /\ j \in Int /\ i \in Int
      BY <1>3, <1>5, <2>3 DEF Dated
    <3>2. i = j
      BY <1>6, <3>1
    <3> QED
      BY <2>3, <3>2
  <2> QED
    BY <2>1, <2>2, <2>3
<1> QED
  BY <1>6 DEF CreatedInOrder

\* The numbers of the attempts are the order of their creation, in every reachable
\* state: the clock does not run backwards.
THEOREM CreatedInOrderTheorem == Spec => []CreatedInOrder
<1>1. Init => CreatedInOrder
  BY DEF Init, CreatedInOrder, Ids
<1> QED
  BY <1>1, OrderKept, AttemptsInvariant, PTL DEF Spec

\* The parents of the attempts.
Parents == [i \in Ids |-> attempts[i].parent]

\* A work thread's root, if it is among the attempts of the group, has no parent.
LEMMA GroupIsLineage ==
  ASSUME AttemptsInv, NEW root, NEW archivedToo, NEW group, group = Group(root, archivedToo)
  PROVE  /\ Lineage(group, Len(attempts), Parents)
         /\ \A i \in Ids : Children(group, Parents, i) = {c \in group \ {root} : attempts[c].parent = i}
         /\ Heads(group, Parents) = Tops(root, group)
<1>1. Aged /\ Len(attempts) \in Nat /\ Ids = 1 .. Len(attempts) /\ group \subseteq Ids
  BY DEF AttemptsInv, Aged, Ids, Group, Visible
<1>2. \A i \in Ids : Parents[i] = attempts[i].parent /\ Parents[i] \in Nat /\ Parents[i] < i
  BY <1>1, AttemptTypes DEF Parents
<1>3. ASSUME root \in group PROVE attempts[root].parent = 0
  <2> SUFFICES ASSUME attempts[root].parent # 0 PROVE FALSE
    OBVIOUS
  <2>1. root \in Ids /\ RootOf(root) = root
    BY <1>1, <1>3 DEF Group
  <2>2. /\ attempts[root].root \in Nat /\ attempts[root].root < root
        /\ attempts[root].parent \in 1 .. Len(attempts)
    BY <1>1, <2>1, AttemptTypes
  <2>3. attempts[root].root = 0
    BY <2>1, <2>2 DEF RootOf
  <2>4. attempts[root].root = RootOf(attempts[root].parent)
    BY <2>1 DEF AttemptsInv, LineageIsRooted
  <2>5. RootOf(attempts[root].parent) # 0
    BY <2>2 DEF RootOf
  <2> QED
    BY <2>3, <2>4, <2>5
<1>4. Lineage(group, Len(attempts), Parents)
  BY <1>1, <1>2 DEF Lineage
<1>5. ASSUME NEW i \in Ids PROVE Children(group, Parents, i) = {c \in group \ {root} : attempts[c].parent = i}
  BY <1>1, <1>2, <1>3 DEF Children
<1>6. Heads(group, Parents) = Tops(root, group)
  BY <1>1, <1>2, <1>3 DEF Heads, Tops
<1> QED
  BY <1>4, <1>5, <1>6

\* A work thread lists its attempts, each once and parents first.
LEMMA TimelineLists ==
  ASSUME AttemptsInv, NEW root, NEW archivedToo, NEW group, group = Group(root, archivedToo)
  PROVE  Lists(Timeline(root, group), group, Parents)
<1> DEFINE n == Len(attempts)
           kids(i) == {c \in group \ {root} : attempts[c].parent = i}
           order(i) == Chronological(kids(i))
           next == [i \in 1 .. n |-> order(i)]
           top == Chronological(Tops(root, group))
           Rhs(f) == [i \in Ids |-> <<i>> \o FlattenSeq([k \in DOMAIN order(i) |-> f[order(i)[k]]])]
           below == CHOOSE f : f = Rhs(f)
<1>1. Aged /\ n \in Nat /\ Ids = 1 .. n /\ group \subseteq Ids
  BY DEF AttemptsInv, Aged, Ids, Group, Visible
<1>2. /\ Lineage(group, n, Parents)
      /\ \A i \in Ids : Children(group, Parents, i) = kids(i)
      /\ Heads(group, Parents) = Tops(root, group)
  BY GroupIsLineage
<1>3. Timeline(root, group) = FlattenSeq([k \in DOMAIN top |-> below[top[k]]])
  BY DEF Timeline
<1>4. \A i \in 1 .. n : kids(i) \subseteq Ids
  BY <1>1
<1>5. Tops(root, group) \subseteq Ids
  BY <1>1 DEF Tops
<1> HIDE DEF kids
<1>6. \A i \in 1 .. n : Enumerates(next[i], kids(i))
  BY <1>1, <1>4, ChronologicalLists
<1>7. Enumerates(top, Heads(group, Parents))
  BY <1>1, <1>2, <1>5, ChronologicalLists
<1>8. /\ next \in [1 .. n -> Seq(1 .. n)]
      /\ \A i \in 1 .. n : \A k \in 1 .. Len(next[i]) : next[i][k] > i
  <2>1. ASSUME NEW i \in 1 .. n
        PROVE  next[i] \in Seq(1 .. n) /\ \A k \in 1 .. Len(next[i]) : next[i][k] > i
    <3>1. next[i] \in Seq(kids(i)) /\ kids(i) \subseteq 1 .. n
      BY <1>1, <1>4, <1>6 DEF Enumerates
    <3>2. \A c \in kids(i) : c > i
      <4>1. ASSUME NEW c \in kids(i) PROVE c > i
        <5>1. c \in Ids /\ attempts[c].parent = i
          BY <1>1 DEF kids
        <5>2. i < c
          BY <1>1, <5>1, AttemptTypes
        <5> QED
          BY <1>1, <5>1, <5>2
      <4> QED
        BY <4>1
    <3> HIDE DEF next
    <3> QED
      BY <3>1, <3>2
  <2> QED
    BY <2>1
<1>9. \A f : Rhs(f) = [i \in 1 .. n |-> <<i>> \o FlattenSeq([k \in DOMAIN next[i] |-> f[next[i][k]]])]
  BY <1>1
<1> HIDE DEF Rhs, next
<1>10. below = Descent(next, n)
  BY <1>9 DEF Descent
<1> HIDE DEF below, n
<1>11. Forward(next, n)
  BY <1>1, <1>8 DEF Forward
<1>12. Follows(below, next, n)
  BY <1>10, <1>11, DescentFacts
<1>13. Descends(below, next, group, n, Parents)
  BY <1>1, <1>2, <1>6, <1>12 DEF Descends
<1>14. Lists(Joined(below, top), group, Parents)
  BY <1>7, <1>13, TopsList
<1>15. DOMAIN top = 1 .. Len(top)
  BY <1>7 DEF Enumerates
<1> QED
  BY <1>3, <1>14, <1>15 DEF Joined

\* Of finitely many dates one is the latest, and the last of the latest is one.
LEMMA LatestExists ==
  ASSUME NEW n \in Nat, n # 0, NEW c \in Nat, NEW date, \A k \in 1 .. n : date[k] \in 0 .. c
  PROVE  \E k \in 1 .. n : \A j \in 1 .. n : date[j] < date[k] \/ (date[j] = date[k] /\ j <= k)
<1> DEFINE A == {c - date[k] : k \in 1 .. n}
<1>1. A \subseteq Nat /\ A # {}
  <2>1. 1 \in 1 .. n
    OBVIOUS
  <2> QED
    BY <2>1
<1>2. PICK a \in A : \A b \in A : a <= b
  BY <1>1, Least
<1>3. PICK m \in 1 .. n : a = c - date[m]
  OBVIOUS
<1>4. \A k \in 1 .. n : date[k] <= date[m]
  <2>1. ASSUME NEW k \in 1 .. n PROVE date[k] <= date[m]
    <3>1. c - date[m] <= c - date[k]
      BY <1>2, <1>3
    <3>2. date[k] \in 0 .. c /\ date[m] \in 0 .. c
      OBVIOUS
    <3> QED
      BY <3>1, <3>2
  <2> QED
    BY <2>1
<1> DEFINE B == {n - k : k \in {k \in 1 .. n : date[k] = date[m]}}
<1>5. B \subseteq Nat /\ B # {}
  OBVIOUS
<1>6. PICK b \in B : \A d \in B : b <= d
  BY <1>5, Least
<1>7. PICK l \in 1 .. n : date[l] = date[m] /\ b = n - l
  OBVIOUS
<1>8. ASSUME NEW j \in 1 .. n PROVE date[j] < date[l] \/ (date[j] = date[l] /\ j <= l)
  <2>1. date[j] \in 0 .. c /\ date[l] \in 0 .. c /\ date[j] <= date[l]
    BY <1>4, <1>7
  <2>2. CASE date[j] = date[l]
    <3>1. n - l <= n - j
      BY <1>6, <1>7, <2>2
    <3> QED
      BY <2>2, <3>1
  <2>3. CASE date[j] # date[l]
    BY <2>1, <2>3
  <2> QED
    BY <2>2, <2>3
<1> QED
  BY <1>8

\* A work thread lists each of its attempts once, parents first, and its latest
\* attempt is one that nothing in it was created after and nothing in it continues.
THEOREM TimelinesAreWholeTheorem == Spec => []TimelinesAreWhole
<1>1. AttemptsInv /\ CreatedInOrder => TimelinesAreWhole
  <2> SUFFICES ASSUME AttemptsInv, CreatedInOrder, NEW archivedToo \in BOOLEAN, NEW root \in Roots(archivedToo)
               PROVE  LET group == Group(root, archivedToo)
                          timeline == Timeline(root, group)
                          latest == Latest(root, archivedToo)
                      IN  /\ Len(timeline) = Cardinality(group)
                          /\ ToSet(timeline) = group
                          /\ \A j, k \in DOMAIN timeline :
                               attempts[timeline[j]].parent = timeline[k] => k < j
                          /\ \A i \in group :
                               attempts[i].at <= attempts[latest].at /\ attempts[i].parent # latest
    BY DEF TimelinesAreWhole
  <2>1. PICK group : group = Group(root, archivedToo)
    OBVIOUS
  <2>2. PICK s : s = Timeline(root, group)
    OBVIOUS
  <2>3. PICK last : last = LatestPlace(s)
    OBVIOUS
  <2>4. Lists(s, group, Parents)
    BY <2>1, <2>2, TimelineLists
  <2>5. Len(s) = Cardinality(group) /\ ToSet(s) = group
    BY <2>4, ListsCount
  <2>6. /\ Aged /\ Ids = 1 .. Len(attempts) /\ Len(attempts) \in Nat /\ group \subseteq Ids /\ group # {}
        /\ clock \in Nat
    BY <2>1, SettingTypes DEF AttemptsInv, Aged, Ids, Group, Visible, Roots
  <2>7. /\ Len(s) \in Nat /\ DOMAIN s = 1 .. Len(s) /\ \A k \in 1 .. Len(s) : s[k] \in group
        /\ \A i \in group : \E k \in 1 .. Len(s) : s[k] = i
    BY <2>4 DEF Lists
  <2>8. \A i \in Ids : /\ Parents[i] = attempts[i].parent /\ attempts[i].parent < i
                       /\ attempts[i].at \in 0 .. clock
    BY <2>6 DEF Parents, Aged
  <2>9. ASSUME NEW j \in DOMAIN s, NEW k \in DOMAIN s, attempts[s[j]].parent = s[k] PROVE k < j
    <3>1. s[j] \in Ids /\ Parents[s[j]] = s[k]
      BY <2>6, <2>7, <2>8, <2>9
    <3> QED
      BY <2>4, <2>7, <3>1 DEF Lists
  <2>10. last \in 1 .. Len(s) /\ \A j \in 1 .. Len(s) :
           \/ attempts[s[j]].at < attempts[s[last]].at
           \/ attempts[s[j]].at = attempts[s[last]].at /\ j <= last
    <3> DEFINE date == [k \in 1 .. Len(s) |-> attempts[s[k]].at]
    <3>1. Len(s) # 0
      <4>1. PICK k \in 1 .. Len(s) : TRUE
        BY <2>6, <2>7
      <4> QED
        BY <2>7, <4>1
    <3>2. \A k \in 1 .. Len(s) : date[k] \in 0 .. clock
      BY <2>6, <2>7, <2>8
    <3> HIDE DEF date
    <3>3. \E k \in 1 .. Len(s) : \A j \in 1 .. Len(s) : date[j] < date[k] \/ (date[j] = date[k] /\ j <= k)
      BY <2>6, <2>7, <3>1, <3>2, LatestExists
    <3>4. \E k \in DOMAIN s : \A j \in DOMAIN s :
            \/ attempts[s[j]].at < attempts[s[k]].at
            \/ attempts[s[j]].at = attempts[s[k]].at /\ j <= k
      BY <2>7, <3>3 DEF date
    <3> QED
      BY <2>3, <2>7, <3>4 DEF LatestPlace
  <2>11. Latest(root, archivedToo) = s[last]
    BY <2>1, <2>2, <2>3 DEF Latest
  <2>12. ASSUME NEW i \in group
         PROVE  attempts[i].at <= attempts[s[last]].at /\ attempts[i].parent # s[last]
    <3>1. PICK k \in 1 .. Len(s) : s[k] = i
      BY <2>7
    <3>2. /\ attempts[i].at \in Int /\ attempts[s[last]].at \in Int
          /\ \/ attempts[i].at < attempts[s[last]].at
             \/ attempts[i].at = attempts[s[last]].at /\ k <= last
      <4>1. i \in Ids /\ s[last] \in Ids
        BY <2>6, <2>7, <2>10
      <4>2. attempts[i].at \in 0 .. clock /\ attempts[s[last]].at \in 0 .. clock
        BY <2>8, <4>1
      <4>3. attempts[i].at \in Int /\ attempts[s[last]].at \in Int
        BY <2>6, <4>2
      <4> QED
        BY <2>10, <3>1, <4>3
    <3>3. ASSUME attempts[i].parent = s[last] PROVE FALSE
      <4>1. last < k
        BY <2>7, <2>9, <2>10, <3>1, <3>3
      <4>2. s[last] \in Ids /\ i \in Ids /\ s[last] <= i
        <5>1. s[last] \in Ids /\ i \in Ids
          BY <2>6, <2>7, <2>10
        <5>2. s[last] < i /\ s[last] \in Int /\ i \in Int
          BY <2>6, <2>8, <3>3, <5>1
        <5> QED
          BY <5>1, <5>2
      <4>3. attempts[s[last]].at <= attempts[i].at
        BY <4>2 DEF CreatedInOrder
      <4> QED
        BY <2>7, <2>10, <3>2, <4>1, <4>3
    <3> QED
      BY <3>2, <3>3
  <2> QED
    BY <2>1, <2>2, <2>5, <2>9, <2>11, <2>12
<1> QED
  BY <1>1, AttemptsInvariant, CreatedInOrderTheorem, PTL

=============================================================================
