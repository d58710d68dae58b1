-------------------------- MODULE Installer_proofs --------------------------
(***************************************************************************)
(* Proofs about Installer, for any revisions and any number of commands,   *)
(* failures and kills.                                                     *)
(***************************************************************************)
EXTENDS Installer, TLAPS

-----------------------------------------------------------------------------
(* The steps of a command.                                                 *)

Rank(x) ==
  CASE x \in {"environment", "rotate", "files", "stopBridge", "stopApi"} -> 1
    [] x \in {"copy", "checkout", "stopGateway"} -> 2
    [] x \in {"record", "remove"} -> 4
    [] OTHER -> 3

Before(x, y) == x # y /\ Rank(x) <= Rank(y)
Ordered(t) == \A i, j \in 1 .. Len(t) : i < j => Before(t[i], t[j])

\* A step that is taken leaves the others, in their order.
LEMMA TailFacts ==
  ASSUME NEW t \in Seq(Steps), t # <<>>
  PROVE  /\ Tail(t) \in Seq(Steps)
         /\ Head(t) \in Steps
         /\ Range(t) = {Head(t)} \union Range(Tail(t))
         /\ Range(t) \subseteq Steps
         /\ Ordered(t) => Ordered(Tail(t)) /\ \A x \in Range(Tail(t)) : Before(Head(t), x)
<1>1. /\ Len(t) \in Nat \ {0}
      /\ Tail(t) \in Seq(Steps)
      /\ Head(t) = t[1]
      /\ Len(Tail(t)) = Len(t) - 1
      /\ \A i \in 1 .. Len(t) - 1 : Tail(t)[i] = t[i + 1]
  OBVIOUS
<1>2. /\ Range(t) = {t[i] : i \in 1 .. Len(t)}
      /\ Range(Tail(t)) = {t[i + 1] : i \in 1 .. Len(t) - 1}
  <2>1. DOMAIN t = 1 .. Len(t) /\ DOMAIN Tail(t) = 1 .. Len(t) - 1
    BY <1>1
  <2> QED
    BY <1>1, <2>1 DEF Range
<1>3. {t[i] : i \in 1 .. Len(t)} = {t[1]} \union {t[i + 1] : i \in 1 .. Len(t) - 1}
  <2>1. ASSUME NEW i \in 1 .. Len(t) PROVE i = 1 \/ \E j \in 1 .. Len(t) - 1 : i = j + 1
    <3>1. i = 1 \/ (i - 1 \in 1 .. Len(t) - 1 /\ i = (i - 1) + 1)
      BY <1>1
    <3> QED
      BY <3>1
  <2>2. 1 \in 1 .. Len(t) /\ \A j \in 1 .. Len(t) - 1 : j + 1 \in 1 .. Len(t)
    BY <1>1
  <2> QED
    BY <2>1, <2>2
<1>4. ASSUME Ordered(t) PROVE Ordered(Tail(t))
  <2>1. \A i \in 1 .. Len(t) - 1 : i + 1 \in 1 .. Len(t)
    BY <1>1
  <2> QED
    BY <1>1, <1>4, <2>1 DEF Ordered
<1>5. ASSUME Ordered(t) PROVE \A x \in Range(Tail(t)) : Before(Head(t), x)
  <2>1. 1 \in 1 .. Len(t) /\ \A i \in 1 .. Len(t) - 1 : i + 1 \in 1 .. Len(t) /\ 1 < i + 1
    BY <1>1
  <2> QED
    BY <1>1, <1>2, <1>5, <2>1 DEF Ordered
<1> QED
  BY <1>1, <1>2, <1>3, <1>4, <1>5

\* Steps after steps are in order when they come after them.
LEMMA ConcatFacts ==
  ASSUME NEW s \in Seq(Steps), NEW t \in Seq(Steps)
  PROVE  /\ s \o t \in Seq(Steps)
         /\ Range(s \o t) = Range(s) \union Range(t)
         /\ Ordered(s) /\ Ordered(t) /\ (\A x \in Range(s), y \in Range(t) : Before(x, y)) => Ordered(s \o t)
<1> DEFINE u == s \o t
<1>1. /\ u \in Seq(Steps)
      /\ Len(s) \in Nat /\ Len(t) \in Nat
      /\ Len(u) = Len(s) + Len(t)
      /\ \A i \in 1 .. Len(s) + Len(t) : u[i] = IF i <= Len(s) THEN s[i] ELSE t[i - Len(s)]
  OBVIOUS
<1>2. /\ Range(s) = {s[i] : i \in 1 .. Len(s)}
      /\ Range(t) = {t[i] : i \in 1 .. Len(t)}
      /\ Range(u) = {u[i] : i \in 1 .. Len(s) + Len(t)}
  <2>1. DOMAIN s = 1 .. Len(s) /\ DOMAIN t = 1 .. Len(t) /\ DOMAIN u = 1 .. Len(s) + Len(t)
    BY <1>1
  <2> QED
    BY <2>1 DEF Range
<1> HIDE DEF u
<1>3. ASSUME NEW i \in 1 .. Len(u)
      PROVE  \/ i \in 1 .. Len(s) /\ u[i] = s[i]
             \/ i - Len(s) \in 1 .. Len(t) /\ u[i] = t[i - Len(s)] /\ i > Len(s)
  BY <1>1
<1>4. Range(u) = Range(s) \union Range(t)
  <2>1. Range(u) \subseteq Range(s) \union Range(t)
    BY <1>1, <1>2, <1>3
  <2>2. \A i \in 1 .. Len(s) : i \in 1 .. Len(s) + Len(t) /\ u[i] = s[i]
    BY <1>1
  <2>3. \A i \in 1 .. Len(t) : i + Len(s) \in 1 .. Len(s) + Len(t) /\ u[i + Len(s)] = t[i]
    <3>1. ASSUME NEW i \in 1 .. Len(t)
          PROVE  i + Len(s) \in 1 .. Len(s) + Len(t) /\ ~(i + Len(s) <= Len(s)) /\ (i + Len(s)) - Len(s) = i
      BY <1>1
    <3> QED
      BY <1>1, <3>1
  <2>4. Range(s) \subseteq Range(u) /\ Range(t) \subseteq Range(u)
    BY <1>2, <2>2, <2>3
  <2> QED
    BY <2>1, <2>4
<1>5. ASSUME Ordered(s), Ordered(t), \A x \in Range(s), y \in Range(t) : Before(x, y),
             NEW i \in 1 .. Len(u), NEW j \in 1 .. Len(u), i < j
      PROVE  Before(u[i], u[j])
  <2>1. CASE i \in 1 .. Len(s) /\ u[i] = s[i] /\ j \in 1 .. Len(s) /\ u[j] = s[j]
    BY <1>5, <2>1 DEF Ordered
  <2>2. CASE i \in 1 .. Len(s) /\ u[i] = s[i] /\ j - Len(s) \in 1 .. Len(t) /\ u[j] = t[j - Len(s)]
    <3>1. u[i] \in Range(s) /\ u[j] \in Range(t)
      BY <1>2, <2>2
    <3> QED
      BY <1>5, <3>1
  <2>3. CASE /\ i - Len(s) \in 1 .. Len(t) /\ u[i] = t[i - Len(s)]
             /\ j - Len(s) \in 1 .. Len(t) /\ u[j] = t[j - Len(s)]
    <3>1. i - Len(s) < j - Len(s)
      BY <1>1, <1>5
    <3> QED
      BY <1>5, <2>3, <3>1 DEF Ordered
  <2>4. CASE i > Len(s) /\ j \in 1 .. Len(s)
    BY <1>1, <1>5, <2>4
  <2> QED
    BY <1>3, <2>1, <2>2, <2>3, <2>4
<1> QED
  BY <1>1, <1>4, <1>5 DEF u, Ordered

\* What the services and the gateway are restarted by.
RestartSteps(components) ==
  (IF "bridge" \in components THEN {"bridge"} ELSE {})
  \union (IF components \intersect Services # {} THEN {"api"} ELSE {})
  \union (IF "plugin" \in components THEN {"gateway"} ELSE {})

\* One step, if there is cause for it.
LEMMA OneFacts ==
  ASSUME NEW x \in Steps, NEW cause \in BOOLEAN
  PROVE  LET one == IF cause THEN <<x>> ELSE <<>>
         IN  one \in Seq(Steps) /\ Range(one) = (IF cause THEN {x} ELSE {}) /\ Ordered(one)
<1>1. /\ <<x>> \in Seq(Steps) /\ Range(<<x>>) = {x} /\ Ordered(<<x>>)
      /\ <<>> \in Seq(Steps) /\ Range(<<>>) = {} /\ Ordered(<<>>)
  BY DEF Range, Ordered
<1> QED
  BY <1>1

\* What is restarted: bridge, API and gateway, in this order, each once.
LEMMA RestartsFacts ==
  ASSUME NEW components
  PROVE  /\ Restarts(components) \in Seq(Steps)
         /\ Range(Restarts(components)) = RestartSteps(components)
         /\ Ordered(Restarts(components))
<1> DEFINE a == IF "bridge" \in components THEN <<"bridge">> ELSE <<>>
           b == IF components \intersect Services # {} THEN <<"api">> ELSE <<>>
           c == IF "plugin" \in components THEN <<"gateway">> ELSE <<>>
<1>1. /\ a \in Seq(Steps) /\ Range(a) = (IF "bridge" \in components THEN {"bridge"} ELSE {}) /\ Ordered(a)
      /\ b \in Seq(Steps) /\ Range(b) = (IF components \intersect Services # {} THEN {"api"} ELSE {}) /\ Ordered(b)
      /\ c \in Seq(Steps) /\ Range(c) = (IF "plugin" \in components THEN {"gateway"} ELSE {}) /\ Ordered(c)
  <2>1. {"bridge", "api", "gateway"} \subseteq Steps
    BY DEF Steps
  <2> QED
    BY <2>1, OneFacts
<1>2. Restarts(components) = (a \o b) \o c
  BY DEF Restarts
<1> HIDE DEF a, b, c
<1>3. \A x, y \in {"bridge", "api", "gateway"} : x # y => Before(x, y)
  BY DEF Before, Rank
<1>4. a \o b \in Seq(Steps) /\ Range(a \o b) = Range(a) \union Range(b) /\ Ordered(a \o b)
  BY <1>1, <1>3, ConcatFacts
<1>5. /\ (a \o b) \o c \in Seq(Steps) /\ Range((a \o b) \o c) = Range(a \o b) \union Range(c)
      /\ Ordered((a \o b) \o c)
  BY <1>1, <1>3, <1>4, ConcatFacts
<1> QED
  BY <1>1, <1>2, <1>4, <1>5 DEF RestartSteps

-----------------------------------------------------------------------------
(* Type correctness.                                                       *)

\* Tokens are only ever added.
LEMMA MoreTokens ==
  ASSUME TypeOK, tokens' \in {tokens, tokens + 1}
  PROVE  /\ tokens' \in Nat /\ 0 .. tokens \subseteq 0 .. tokens'
         /\ Environments \subseteq Environments'
         /\ Commands \subseteq Commands'
<1>1. tokens \in Nat /\ tokens' \in Nat /\ 0 .. tokens \subseteq 0 .. tokens'
  BY DEF TypeOK
<1>2. Environments \subseteq Environments'
  BY <1>1 DEF Environments
<1> QED
  BY <1>1, <1>2 DEF Commands

\* A command that takes a step stays a command.
LEMMA TakenType ==
  ASSUME TypeOK, tokens' \in {tokens, tokens + 1}, NEW step, At(step), NEW c \in BOOLEAN,
         op' = [op EXCEPT !.todo = Tail(@), !.created = c]
  PROVE  op \in Commands /\ op' \in Commands' /\ ~Idle' /\ (op'.target = NoRev => "copy" \notin Range(op'.todo))
<1>1. op \in Commands /\ op.todo \in Seq(Steps) /\ op.todo # <<>>
  BY DEF TypeOK, At, Idle, Commands
<1>2. Tail(op.todo) \in Seq(Steps)
  BY <1>1
<1>3. op' \in Commands
  BY <1>1, <1>2 DEF Commands
<1>4. Range(Tail(op.todo)) \subseteq Range(op.todo)
  BY <1>1, TailFacts
<1>5. op' # NoOp /\ op'.target = op.target /\ op'.todo = Tail(op.todo)
  <2>1. op'.kind = op.kind /\ op'.target = op.target /\ op'.todo = Tail(op.todo)
    BY <1>1 DEF Commands
  <2> QED
    BY <1>1, <2>1 DEF Commands, Kinds, NoOp
<1> QED
  BY <1>1, <1>3, <1>4, <1>5, MoreTokens DEF Idle, TypeOK, At

\* The sequences of steps the commands begin with, and the one that undoes an update.
LEMMA InstallSteps ==
  LET todo == <<"environment", "copy", "units", "startBridge", "startApi", "plugin", "gateway", "verify", "record">>
  IN  /\ todo \in Seq(Steps) /\ Ordered(todo)
      /\ Range(todo) = {"environment", "copy", "units", "startBridge", "startApi", "plugin", "gateway", "verify",
                        "record"}
BY DEF Steps, Ordered, Before, Rank, Range

\* An update installs, restarts what has changed, and writes its record last.
LEMMA UpdateSteps ==
  ASSUME NEW components
  PROVE  LET todo == <<"environment", "copy", "units", "plugin", "verify">> \o Restarts(components) \o <<"record">>
         IN  /\ todo \in Seq(Steps) /\ Ordered(todo)
             /\ Range(todo) = {"environment", "copy", "units", "plugin", "verify", "record"}
                              \union RestartSteps(components)
             /\ todo[Len(todo)] = "record"
<1> DEFINE a == <<"environment", "copy", "units", "plugin", "verify">>
           c == <<"record">>
<1>1. /\ a \in Seq(Steps) /\ Ordered(a) /\ Range(a) = {"environment", "copy", "units", "plugin", "verify"}
      /\ c \in Seq(Steps) /\ Ordered(c) /\ Range(c) = {"record"} /\ Len(c) = 1 /\ c[1] = "record"
  BY DEF Steps, Ordered, Before, Rank, Range
<1> HIDE DEF a, c
<1>2. /\ Restarts(components) \in Seq(Steps) /\ Ordered(Restarts(components))
      /\ Range(Restarts(components)) = RestartSteps(components)
      /\ RestartSteps(components) \subseteq {"bridge", "api", "gateway"}
  BY RestartsFacts DEF RestartSteps
<1>3. /\ \A x \in {"environment", "copy", "units", "plugin", "verify"}, y \in {"bridge", "api", "gateway"} :
           Before(x, y)
      /\ \A x \in {"environment", "copy", "units", "plugin", "verify", "bridge", "api", "gateway"} :
           Before(x, "record")
  BY DEF Before, Rank
<1>4. /\ a \o Restarts(components) \in Seq(Steps) /\ Ordered(a \o Restarts(components))
      /\ Range(a \o Restarts(components)) = Range(a) \union RestartSteps(components)
  BY <1>1, <1>2, <1>3, ConcatFacts
<1>5. /\ (a \o Restarts(components)) \o c \in Seq(Steps) /\ Ordered((a \o Restarts(components)) \o c)
      /\ Range((a \o Restarts(components)) \o c) = Range(a) \union RestartSteps(components) \union {"record"}
  <2>1. \A x \in Range(a \o Restarts(components)), y \in Range(c) : Before(x, y)
    BY <1>1, <1>2, <1>3, <1>4
  <2> QED
    <3> DEFINE ab == a \o Restarts(components)
    <3>1. ab \in Seq(Steps) /\ Ordered(ab) /\ Range(ab) = Range(a) \union RestartSteps(components)
          /\ \A x \in Range(ab), y \in Range(c) : Before(x, y)
      BY <1>4, <2>1
    <3> HIDE DEF ab
    <3>2. ab \o c \in Seq(Steps) /\ Ordered(ab \o c) /\ Range(ab \o c) = Range(ab) \union Range(c)
      BY <1>1, <3>1, ConcatFacts
    <3> QED
      BY <1>1, <3>1, <3>2 DEF ab
<1>6. ASSUME NEW t \in Seq(Steps) PROVE (t \o c)[Len(t \o c)] = "record"
  <2>1. (t \o <<"record">>)[Len(t \o <<"record">>)] = "record"
    OBVIOUS
  <2> QED
    BY <2>1 DEF c
<1> QED
  BY <1>1, <1>4, <1>5, <1>6 DEF a, c

\* The undoing of an update restores its files, its checkout, and restarts.
LEMMA UndoSteps ==
  ASSUME NEW components
  PROVE  LET todo == <<"files", "checkout">> \o Restarts(components)
         IN  /\ todo \in Seq(Steps) /\ Ordered(todo)
             /\ Range(todo) = {"files", "checkout"} \union RestartSteps(components)
<1> DEFINE a == <<"files", "checkout">>
<1>1. a \in Seq(Steps) /\ Ordered(a) /\ Range(a) = {"files", "checkout"}
  BY DEF Steps, Ordered, Before, Rank, Range
<1> HIDE DEF a
<1>2. /\ Restarts(components) \in Seq(Steps) /\ Ordered(Restarts(components))
      /\ Range(Restarts(components)) = RestartSteps(components)
      /\ RestartSteps(components) \subseteq {"bridge", "api", "gateway"}
  BY RestartsFacts DEF RestartSteps
<1>3. \A x \in {"files", "checkout"}, y \in {"bridge", "api", "gateway"} : Before(x, y)
  BY DEF Before, Rank
<1>4. /\ a \o Restarts(components) \in Seq(Steps) /\ Ordered(a \o Restarts(components))
      /\ Range(a \o Restarts(components)) = Range(a) \union RestartSteps(components)
  BY <1>1, <1>2, <1>3, ConcatFacts
<1> QED
  BY <1>1, <1>4 DEF a

\* A rotation writes the environment and restarts the API after the bridge.
LEMMA RotateSteps ==
  ASSUME NEW scope
  PROVE  LET todo == <<"rotate">> \o (IF "bridge" \in scope THEN <<"bridge">> ELSE <<>>) \o <<"api">>
         IN  /\ todo \in Seq(Steps) /\ Ordered(todo)
             /\ {"rotate", "api"} \subseteq Range(todo) /\ Range(todo) \subseteq {"rotate", "bridge", "api"}
             /\ "bridge" \in scope => "bridge" \in Range(todo)
<1> DEFINE a == <<"rotate">>
           b == IF "bridge" \in scope THEN <<"bridge">> ELSE <<>>
           c == <<"api">>
<1>1. /\ a \in Seq(Steps) /\ Ordered(a) /\ Range(a) = {"rotate"}
      /\ c \in Seq(Steps) /\ Ordered(c) /\ Range(c) = {"api"}
  BY DEF Steps, Ordered, Before, Rank, Range
<1>0. /\ b \in Seq(Steps) /\ Ordered(b) /\ Range(b) \subseteq {"bridge"}
      /\ "bridge" \in scope => "bridge" \in Range(b)
  <2>1. "bridge" \in Steps /\ ("bridge" \in scope) \in BOOLEAN
    BY DEF Steps
  <2> QED
    BY <2>1, OneFacts
<1> HIDE DEF a, b, c
<1>2. \A x, y \in {"rotate", "bridge", "api"} : x # y => Before(x, y) \/ y = "rotate"
  BY DEF Before, Rank
<1>3. a \o b \in Seq(Steps) /\ Ordered(a \o b) /\ Range(a \o b) = Range(a) \union Range(b)
  BY <1>0, <1>1, <1>2, ConcatFacts
<1>4. /\ (a \o b) \o c \in Seq(Steps) /\ Ordered((a \o b) \o c)
      /\ Range((a \o b) \o c) = Range(a \o b) \union Range(c)
  BY <1>0, <1>1, <1>2, <1>3, ConcatFacts
<1> QED
  BY <1>0, <1>1, <1>3, <1>4 DEF a, b, c

\* An uninstall stops everything before it removes anything.
LEMMA UninstallSteps ==
  LET todo == <<"stopBridge", "stopApi", "stopGateway", "removePlugin", "startGateway", "remove">>
  IN  /\ todo \in Seq(Steps) /\ Ordered(todo)
      /\ Range(todo) = {"stopBridge", "stopApi", "stopGateway", "removePlugin", "startGateway", "remove"}
BY DEF Steps, Ordered, Before, Rank, Range

\* A service is started from a revision.
LEMMA StartType ==
  ASSUME TypeOK, NEW s \in Services, checkout # NoRev, Start(s), tokens' = tokens
  PROVE  /\ proc' \in [Services -> [up : BOOLEAN, on : BOOLEAN, rev : Revs \union {NoRev}, token : 0 .. tokens']]
         /\ kept' \subseteq Services
         /\ \A x \in Services : proc'[x].up => proc'[x].rev # NoRev
<1>1. PICK rev \in {checkout} \union mixed :
        /\ proc' = [proc EXCEPT ![s] = Started(rev)]
        /\ kept' = IF rev = checkout THEN kept \ {s} ELSE kept \union {s}
  BY DEF Start
<1>2. rev \in Revs /\ rev # NoRev
  BY InstallerAssumption DEF TypeOK
<1>3. Started(rev) \in [up : BOOLEAN, on : BOOLEAN, rev : Revs \union {NoRev}, token : 0 .. tokens]
  BY <1>2 DEF TypeOK, Environments, Started
<1> QED
  BY <1>1, <1>2, <1>3 DEF TypeOK, Started

\* Every variable holds a value of its kind: a command is one throughout its steps.
THEOREM TypeCorrect == Spec => []TypeOK
<1>1. Init => TypeOK
  BY InstallerAssumption, SMTT(30) DEF Init, TypeOK, Environments, Stopped, Idle
<1>2. ASSUME TypeOK, [Next]_vars PROVE TypeOK'
  <2> USE <1>2
  <2> USE DEF diskVars, runVars, Most, Rest
  <2>0. /\ (op = NoOp \/ op \in Commands)
        /\ tokens' = tokens => Environments' = Environments /\ Commands' = Commands
        /\ tokens \in Nat /\ Installed \in Revs \union {NoRev} /\ Idle = (op = NoOp) /\ Idle' = (op' = NoOp)
    BY DEF TypeOK, Installed, Idle, Environments, Commands
  <2>1. ASSUME NEW kind \in Kinds, NEW target \in Revs \union {NoRev},
               NEW components \in SUBSET {"api", "bridge", "plugin"},
               NEW scope \in SUBSET {"api", "bridge", "config", "state"}, NEW todo \in Seq(Steps),
               target = NoRev => "copy" \notin Range(todo),
               Begin(kind, target, components, scope, todo)
        PROVE  TypeOK'
    <3>1. op' \in Commands /\ op'.target = target /\ op'.todo = todo
      BY <2>0, <2>1 DEF Begin, TypeOK, Commands
    <3> QED
      BY <2>0, <2>1, <3>1, InstallerAssumption DEF Begin, TypeOK
  <2>2. ASSUME NEW r \in Revs, Install(r) PROVE TypeOK'
    <3>1. {"api", "bridge", "plugin"} \in SUBSET {"api", "bridge", "plugin"} /\ r # NoRev
      BY InstallerAssumption
    <3> QED
      BY <2>1, <2>2, <3>1, InstallSteps DEF Install, Kinds
  <2>3. ASSUME NEW r \in Revs, NEW kind \in {"update", "rollback"}, Update(kind, r) PROVE TypeOK'
    <3>1. Changed(Installed, r) \in SUBSET {"api", "bridge", "plugin"} /\ r # NoRev
      BY InstallerAssumption DEF Changed
    <3> QED
      BY <2>1, <2>3, <3>1, UpdateSteps DEF Update, Kinds
  <2>4. ASSUME NEW scope \in {{"api"}, {"bridge"}, {"api", "bridge"}}, Rotate(scope) PROVE TypeOK'
    BY <2>1, <2>4, RotateSteps DEF Rotate, Kinds
  <2>5. ASSUME NEW scope \in SUBSET {"config", "state"}, Uninstall(scope) PROVE TypeOK'
    BY <2>1, <2>5, UninstallSteps DEF Uninstall, Kinds
  <2>6. ASSUME NEW step, At(step), NEW c \in BOOLEAN, op' = [op EXCEPT !.todo = Tail(@), !.created = c],
               tokens' \in {tokens, tokens + 1}
        PROVE  /\ op \in Commands /\ op' \in Commands'
               /\ ~Idle' /\ (op'.target = NoRev => "copy" \notin Range(op'.todo))
    BY <2>6, TakenType
  <2>7. ASSUME NEW step, At(step), Taken, tokens' \in {tokens, tokens + 1}
        PROVE  /\ op \in Commands /\ op' \in Commands'
               /\ ~Idle' /\ (op'.target = NoRev => "copy" \notin Range(op'.todo))
    <3>1. op \in Commands
      BY <2>0, <2>7 DEF At
    <3>2. op.created \in BOOLEAN /\ op' = [op EXCEPT !.todo = Tail(@), !.created = op.created]
      BY <2>7, <3>1 DEF Taken, Commands
    <3> QED
      BY <2>6, <2>7, <3>2
  <2>8. CASE WriteEnvironment
    <3>1. op' \in Commands' /\ (~Idle' /\ op'.target = NoRev => "copy" \notin Range(op'.todo))
      <4>1. (env.api = 0) \in BOOLEAN /\ tokens' \in {tokens, tokens + 1}
        BY <2>8 DEF WriteEnvironment
      <4> QED
        BY <2>6, <2>8, <4>1 DEF WriteEnvironment
    <3>2. env' \in Environments'
      <4>1. env \in [api : 0 .. tokens, bridge : 0 .. tokens]
        BY DEF TypeOK, Environments
      <4>2. env' \in [api : 0 .. tokens', bridge : 0 .. tokens']
        <5>1. CASE UNCHANGED <<env, tokens>>
          BY <4>1, <5>1
        <5>2. CASE /\ env' = [api |-> tokens + 1, bridge |-> tokens + 1]
                   /\ tokens' = tokens + 1
          BY <2>0, <5>2
        <5> QED
          BY <2>8, <5>1, <5>2 DEF WriteEnvironment
      <4> QED
        BY <4>2 DEF Environments
    <3>3. tokens' \in Nat /\ 0 .. tokens \subseteq 0 .. tokens'
      BY <2>0, <2>8 DEF WriteEnvironment
    <3> QED
      BY <2>8, <3>1, <3>2, <3>3 DEF WriteEnvironment, TypeOK
  <2>9. CASE RotateEnvironment
    <3>1. op' \in Commands' /\ (~Idle' /\ op'.target = NoRev => "copy" \notin Range(op'.todo))
      BY <2>7, <2>9 DEF RotateEnvironment
    <3>2. env' \in Environments'
      BY <2>0, <2>9 DEF RotateEnvironment, TypeOK, Environments
    <3>3. tokens' \in Nat /\ 0 .. tokens \subseteq 0 .. tokens'
      BY <2>0, <2>9 DEF RotateEnvironment
    <3> QED
      BY <2>9, <3>1, <3>2, <3>3 DEF RotateEnvironment, TypeOK
  <2>10. CASE CopyCheckout \/ InstallUnits \/ InstallPlugin \/ VerifyPlugin \/ WriteRecord
    <3>1. /\ op' \in Commands' /\ op \in Commands /\ tokens' = tokens
          /\ (~Idle' /\ op'.target = NoRev => "copy" \notin Range(op'.todo))
      BY <2>7, <2>10 DEF CopyCheckout, InstallUnits, InstallPlugin, VerifyPlugin, WriteRecord
    <3>2. op.target \in Revs \union {NoRev} /\ env.api \in 0 .. tokens
      BY <3>1 DEF Commands, TypeOK, Environments
    <3>3. CASE CopyCheckout
      BY <2>0, <3>1, <3>2, <3>3 DEF CopyCheckout, TypeOK
    <3>4. CASE InstallUnits
      <4>1. /\ proc' \in [Services -> [up : BOOLEAN, on : BOOLEAN, rev : Revs \union {NoRev}, token : 0 .. tokens]]
            /\ \A s \in Services : proc'[s].up => proc'[s].rev # NoRev
        <5>1. ASSUME NEW s \in Services
              PROVE  LET next == [proc[s] EXCEPT !.on = TRUE]
                     IN  /\ next \in [up : BOOLEAN, on : BOOLEAN, rev : Revs \union {NoRev}, token : 0 .. tokens]
                         /\ next.up => next.rev # NoRev
          BY DEF TypeOK
        <5> QED
          BY <3>4, <5>1 DEF InstallUnits
      <4> QED
        BY <2>0, <3>1, <3>2, <3>4, <4>1 DEF InstallUnits, TypeOK
    <3>5. CASE InstallPlugin
      BY <2>0, <3>1, <3>2, <3>5 DEF InstallPlugin, TypeOK
    <3>6. CASE VerifyPlugin
      BY <2>0, <3>1, <3>2, <3>6 DEF VerifyPlugin, TypeOK
    <3>7. CASE WriteRecord
      BY <2>0, <3>1, <3>2, <3>7 DEF WriteRecord, TypeOK
    <3> QED
      BY <2>10, <3>3, <3>4, <3>5, <3>6, <3>7
  <2>11. CASE RestartGateway \/ StopGateway \/ RemovePlugin \/ StartGateway
    <3>1. /\ op' \in Commands' /\ op \in Commands /\ tokens' = tokens
          /\ (~Idle' /\ op'.target = NoRev => "copy" \notin Range(op'.todo))
      BY <2>7, <2>11 DEF RestartGateway, StopGateway, RemovePlugin, StartGateway
    <3>2. /\ gateway' \in [up : BOOLEAN, rev : Revs \union {NoRev}] /\ plugin' \in Revs \union {NoRev}
          /\ UNCHANGED <<checkout, mixed, record, units, env, proc, tokens, Rest>>
      <4>1. gateway \in [up : BOOLEAN, rev : Revs \union {NoRev}] /\ plugin \in Revs \union {NoRev}
        BY DEF TypeOK
      <4>2. CASE RestartGateway
        BY <4>1, <4>2 DEF RestartGateway
      <4>3. CASE StopGateway
        BY <4>1, <4>3 DEF StopGateway
      <4>4. CASE RemovePlugin
        BY <4>1, <4>4 DEF RemovePlugin
      <4>5. CASE StartGateway
        BY <4>1, <4>5 DEF StartGateway
      <4> QED
        BY <2>11, <4>2, <4>3, <4>4, <4>5
    <3> QED
      BY <2>0, <3>1, <3>2 DEF TypeOK
  <2>12. CASE RestoreFiles \/ RestoreCheckout \/ RemoveFiles
    <3>1. /\ op' \in Commands' /\ op \in Commands /\ tokens' = tokens
          /\ (~Idle' /\ op'.target = NoRev => "copy" \notin Range(op'.todo))
      BY <2>7, <2>12 DEF RestoreFiles, RestoreCheckout, RemoveFiles
    <3>2. /\ op.before.rev \in Revs \union {NoRev} /\ op.before.record \in Revs \union {NoRev}
          /\ op.before.env \in Environments /\ 0 \in 0 .. tokens
      BY <2>0, <3>1 DEF Commands
    <3>3. [api |-> 0, bridge |-> 0] \in Environments
      BY <3>2 DEF Environments
    <3>4. CASE RestoreFiles
      BY <2>0, <3>1, <3>2, <3>4 DEF RestoreFiles, TypeOK
    <3>5. CASE RestoreCheckout
      BY <2>0, <3>1, <3>2, <3>5 DEF RestoreCheckout, TypeOK
    <3>6. CASE RemoveFiles
      BY <2>0, <3>1, <3>2, <3>3, <3>6 DEF RemoveFiles, Removes, TypeOK
    <3> QED
      BY <2>12, <3>4, <3>5, <3>6
  <2>13. ASSUME NEW s \in Services, EnableNow(s) \/ RestartService(s) PROVE TypeOK'
    <3>1. /\ op' \in Commands' /\ tokens' = tokens
          /\ (~Idle' /\ op'.target = NoRev => "copy" \notin Range(op'.todo))
      BY <2>7, <2>13 DEF EnableNow, RestartService
    <3>2. CASE Start(s)
      <4>1. checkout # NoRev
        BY <2>13 DEF EnableNow, RestartService, Cannot
      <4> QED
        BY <2>0, <2>13, <3>1, <3>2, <4>1, StartType DEF EnableNow, RestartService, TypeOK
    <3>3. CASE kept' = kept \union {s} /\ proc' = proc
      BY <2>0, <2>13, <3>1, <3>3 DEF EnableNow, RestartService, TypeOK
    <3> QED
      BY <2>13, <3>2, <3>3 DEF EnableNow, RestartService
  <2>14. ASSUME NEW s \in Services, StopService(s) PROVE TypeOK'
    <3>1. /\ op' \in Commands' /\ tokens' = tokens
          /\ (~Idle' /\ op'.target = NoRev => "copy" \notin Range(op'.todo))
      BY <2>7, <2>14 DEF StopService
    <3>2. Stopped \in [up : BOOLEAN, on : BOOLEAN, rev : Revs \union {NoRev}, token : 0 .. tokens] /\ ~Stopped.up
      BY <2>0 DEF Stopped
    <3> QED
      BY <2>0, <2>14, <3>1, <3>2 DEF StopService, TypeOK
  <2>15. ASSUME NEW s \in Services, SystemdRestarts(s) PROVE TypeOK'
    <3>1. checkout # NoRev
      BY <2>15 DEF SystemdRestarts, Cannot
    <3> QED
      BY <2>0, <2>15, <3>1, StartType DEF SystemdRestarts, TypeOK
  <2>16. ASSUME NEW outcome, NEW step, Ended(outcome, step) PROVE op' = NoOp /\ Idle' /\ kept' \subseteq Services
    BY <2>16 DEF Ended, Owed, TypeOK, Idle
  <2>17. CASE Finish
    <3>1. last'.outcome \in {"pass", "restored"} /\ op' = NoOp /\ Idle' /\ kept' \subseteq Services
      BY <2>16, <2>17 DEF Finish, Ended
    <3>2. held' \in 0 .. tokens /\ tokens' = tokens
      BY <2>17 DEF Finish, TypeOK, Environments
    <3> QED
      BY <2>0, <2>17, <3>1, <3>2 DEF Finish, TypeOK
  <2>18. ASSUME HalfCopied PROVE checkout' \in Revs \union {NoRev} /\ mixed' \subseteq Revs
    <3>1. op \in Commands /\ op.todo # <<>> /\ Head(op.todo) = "copy"
      BY <2>0, <2>18 DEF HalfCopied, At
    <3>2. "copy" \in Range(op.todo)
      <4>1. op.todo \in Seq(Steps)
        BY <3>1 DEF Commands
      <4> QED
        BY <3>1, <4>1, TailFacts
    <3>3. op.target \in Revs
      BY <2>0, <3>1, <3>2 DEF TypeOK, Commands, Idle, NoOp, Kinds
    <3> QED
      BY <2>18, <3>3 DEF HalfCopied, TypeOK
  <2>19. CASE Fail
    <3>0. PICK step \in Steps :
            /\ Failing(step) /\ Spoiled(step)
            /\ \/ /\ op' = [op EXCEPT !.undoing = TRUE,
                                      !.todo = <<"files", "checkout">> \o Restarts(op.components)]
                  /\ UNCHANGED <<env, last, kept>>
               \/ \E outcome \in {"restored", "failed"} : Ended(outcome, step) /\ env' \in {env, op.before.env}
      BY <2>19 DEF Fail
    <3>1. /\ op \in Commands /\ tokens' = tokens /\ Commands' = Commands /\ Environments' = Environments
          /\ op.target \in Revs \union {NoRev} /\ op.before.env \in Environments
      BY <2>0, <2>19 DEF Fail, Commands
    <3>2. Spoiled(step) /\ UNCHANGED <<record, plugin, held, tokens, killed, ops>>
      BY <2>19, <3>0 DEF Fail
    <3>3. {checkout', record', units', plugin'} \subseteq Revs \union {NoRev} /\ mixed' \subseteq Revs
      BY <2>18, <3>1, <3>2 DEF Spoiled, TypeOK
    <3>4. /\ proc' \in [Services -> [up : BOOLEAN, on : BOOLEAN, rev : Revs \union {NoRev}, token : 0 .. tokens]]
          /\ \A s \in Services : proc'[s].up => proc'[s].rev # NoRev
      <4>1. Down \in [up : BOOLEAN, on : BOOLEAN, rev : Revs \union {NoRev}, token : 0 .. tokens] /\ ~Down.up
        BY <2>0 DEF Down
      <4> QED
        BY <3>2, <4>1 DEF Spoiled, TypeOK
    <3>5. gateway' \in [up : BOOLEAN, rev : Revs \union {NoRev}]
      <4>1. gateway \in [up : BOOLEAN, rev : Revs \union {NoRev}] /\ plugin \in Revs \union {NoRev}
        BY DEF TypeOK
      <4>2. \/ gateway' = gateway
            \/ gateway' = [gateway EXCEPT !.up = FALSE]
            \/ gateway' = [up |-> TRUE, rev |-> plugin]
        BY <3>2 DEF Spoiled
      <4>3. gateway' = gateway => gateway' \in [up : BOOLEAN, rev : Revs \union {NoRev}]
        BY <4>1
      <4>4. gateway' = [gateway EXCEPT !.up = FALSE] => gateway' \in [up : BOOLEAN, rev : Revs \union {NoRev}]
        BY <4>1
      <4>5. gateway' = [up |-> TRUE, rev |-> plugin] => gateway' \in [up : BOOLEAN, rev : Revs \union {NoRev}]
        BY <4>1
      <4> QED
        BY <4>2, <4>3, <4>4, <4>5
    <3>6. troubles' \in 0 .. MaxTroubles
      BY <2>19, InstallerAssumption DEF Fail, TypeOK
    <3>7. /\ env' \in Environments /\ kept' \subseteq Services /\ (op' = NoOp \/ op' \in Commands)
          /\ last'.outcome \in {"none", "pass", "restored", "failed", "killed"}
          /\ ~Idle' /\ op'.target = NoRev => "copy" \notin Range(op'.todo)
      <4>1. CASE /\ op' = [op EXCEPT !.undoing = TRUE,
                                       !.todo = <<"files", "checkout">> \o Restarts(op.components)]
                 /\ UNCHANGED <<env, last, kept>>
        <5>1. /\ <<"files", "checkout">> \o Restarts(op.components) \in Seq(Steps)
              /\ "copy" \notin Range(<<"files", "checkout">> \o Restarts(op.components))
          BY UndoSteps DEF RestartSteps
        <5>2. op' \in Commands /\ op'.todo = <<"files", "checkout">> \o Restarts(op.components)
          BY <3>1, <4>1, <5>1 DEF Commands
        <5> QED
          BY <4>1, <5>1, <5>2 DEF TypeOK
      <4>2. ASSUME NEW outcome \in {"restored", "failed"}, Ended(outcome, step), env' \in {env, op.before.env}
            PROVE  /\ env' \in Environments /\ kept' \subseteq Services /\ op' = NoOp /\ Idle'
                   /\ last'.outcome \in {"none", "pass", "restored", "failed", "killed"}
        BY <2>16, <3>1, <4>2 DEF Ended, TypeOK
      <4>3. \/ /\ op' = [op EXCEPT !.undoing = TRUE,
                                      !.todo = <<"files", "checkout">> \o Restarts(op.components)]
               /\ UNCHANGED <<env, last, kept>>
            \/ \E outcome \in {"restored", "failed"} : Ended(outcome, step) /\ env' \in {env, op.before.env}
        BY <3>0
      <4> QED
        BY <4>1, <4>2, <4>3
    <3> QED
      BY <3>1, <3>2, <3>3, <3>4, <3>5, <3>6, <3>7 DEF TypeOK
  <2>20. CASE Kill
    <3>1. op \in Commands /\ op.kind \in Kinds
      BY <2>0, <2>20 DEF Kill, Commands
    <3>2. checkout' \in Revs \union {NoRev} /\ mixed' \subseteq Revs
      BY <2>18, <2>20 DEF Kill, TypeOK
    <3>3. op' = NoOp /\ Idle' /\ kept' \subseteq Services /\ last'.outcome = "killed"
      BY <2>16, <2>20 DEF Kill, Ended
    <3>4. troubles' \in 0 .. MaxTroubles /\ killed' \subseteq Kinds
      BY <2>20, <3>1, InstallerAssumption DEF Kill, TypeOK
    <3> QED
      BY <2>0, <2>20, <3>2, <3>3, <3>4 DEF Kill, TypeOK
  <2>22. CASE CutRemoval
    <3>1. op \in Commands /\ op.kind \in Kinds /\ tokens' = tokens /\ Environments' = Environments
      BY <2>0, <2>22 DEF CutRemoval, At, Commands
    <3>2. PICK paths : Removes(paths)
      BY <2>22 DEF CutRemoval
    <3>3. {checkout', record', units'} \subseteq Revs \union {NoRev} /\ mixed' \subseteq Revs
      BY <3>2 DEF Removes, TypeOK
    <3>4. env' \in Environments /\ held' \in 0 .. tokens
      BY <2>0, <3>2 DEF Removes, TypeOK, Environments
    <3>5. op' = NoOp /\ Idle' /\ kept' \subseteq Services /\ last'.outcome \in {"failed", "killed"}
      BY <2>16, <2>22 DEF CutRemoval, Ended
    <3>6. troubles' \in 0 .. MaxTroubles /\ killed' \subseteq Kinds
      BY <2>22, <3>1, InstallerAssumption DEF CutRemoval, TypeOK
    <3> QED
      BY <2>0, <2>22, <3>1, <3>3, <3>4, <3>5, <3>6 DEF CutRemoval, TypeOK
  <2>21. CASE UNCHANGED vars
    BY <2>0, <2>21 DEF vars, TypeOK
  <2> QED
    BY <2>2, <2>3, <2>4, <2>5, <2>8, <2>9, <2>10, <2>11, <2>12, <2>13, <2>14, <2>15, <2>17, <2>19, <2>20,
       <2>21, <2>22 DEF Next
<1> QED
  BY <1>1, <1>2, PTL DEF Spec

-----------------------------------------------------------------------------
(* The steps a command has left.                                           *)

Left == Range(op.todo)
Updating == op.kind \in {"update", "rollback"}
Installing == op.kind \in {"install", "update", "rollback"}

StepsOf(kind, undoing) ==
  CASE undoing -> {"files", "checkout", "bridge", "api", "gateway"}
    [] ~undoing /\ kind = "install" ->
         {"environment", "copy", "units", "startBridge", "startApi", "plugin", "gateway", "verify", "record"}
    [] ~undoing /\ kind \in {"update", "rollback"} ->
         {"environment", "copy", "units", "plugin", "verify", "bridge", "api", "gateway", "record"}
    [] ~undoing /\ kind = "rotate" -> {"rotate", "bridge", "api"}
    [] ~undoing /\ kind = "uninstall" ->
         {"stopBridge", "stopApi", "stopGateway", "removePlugin", "startGateway", "remove"}
    [] OTHER -> {}

\* A command has steps of its own kind left, in their order, and an update ends with
\* its record; what an update knows of the host does not contradict itself.
OpInv ==
  ~Idle =>
    /\ Ordered(op.todo)
    /\ Left \subseteq StepsOf(op.kind, op.undoing)
    /\ op.undoing => Updating
    /\ Installing => op.target \in Revs
    /\ Updating => op.before.rev # NoRev /\ op.before.record \in {op.before.rev, NoRev}
    /\ Updating /\ ~op.undoing /\ op.todo # <<>> => op.todo[Len(op.todo)] = "record"

TakesStep(step) ==
  /\ ~Idle /\ ~Idle'
  /\ op \in Commands
  /\ op'.kind = op.kind /\ op'.target = op.target /\ op'.components = op.components /\ op'.scope = op.scope
  /\ op'.undoing = op.undoing /\ op'.gateway = op.gateway /\ op'.before = op.before
  /\ op'.todo = Tail(op.todo) /\ op.todo # <<>>
  /\ step \in Left
  /\ Left' = Left \ {step}
  /\ \A x \in Left' : Before(step, x)

\* A command that takes a step has the steps after it left.
LEMMA TakenStep ==
  ASSUME TypeOK, OpInv, NEW step, At(step), NEW c \in BOOLEAN, op' = [op EXCEPT !.todo = Tail(@), !.created = c]
  PROVE  TakesStep(step)
<1>1. /\ op \in Commands /\ ~Idle /\ op.todo \in Seq(Steps) /\ op.todo # <<>> /\ Head(op.todo) = step
      /\ Ordered(op.todo)
  BY DEF TypeOK, At, Idle, Commands, OpInv
<1>2. /\ op'.kind = op.kind /\ op'.target = op.target /\ op'.components = op.components /\ op'.scope = op.scope
      /\ op'.undoing = op.undoing /\ op'.gateway = op.gateway /\ op'.before = op.before
      /\ op'.todo = Tail(op.todo)
  BY <1>1 DEF Commands
<1>3. ~Idle'
  BY <1>1, <1>2 DEF Commands, Kinds, NoOp, Idle
<1>4. /\ step \in Left /\ Left = {step} \union Left'
      /\ \A x \in Left' : Before(step, x)
  BY <1>1, <1>2, TailFacts DEF Left
<1>5. step \notin Left'
  BY <1>4 DEF Before
<1> QED
  BY <1>1, <1>2, <1>3, <1>4, <1>5 DEF TakesStep

\* What each action takes.
LEMMA Takes ==
  ASSUME TypeOK, OpInv
  PROVE  /\ WriteEnvironment => TakesStep("environment")
         /\ RotateEnvironment => TakesStep("rotate")
         /\ CopyCheckout => TakesStep("copy")
         /\ InstallUnits => TakesStep("units")
         /\ InstallPlugin => TakesStep("plugin")
         /\ VerifyPlugin => TakesStep("verify")
         /\ RestartGateway => TakesStep("gateway")
         /\ WriteRecord => TakesStep("record")
         /\ RestoreFiles => TakesStep("files")
         /\ RestoreCheckout => TakesStep("checkout")
         /\ StopGateway => TakesStep("stopGateway")
         /\ RemovePlugin => TakesStep("removePlugin")
         /\ StartGateway => TakesStep("startGateway")
         /\ RemoveFiles => TakesStep("remove")
         /\ \A s \in Services : /\ EnableNow(s) => TakesStep(StartOf(s))
                                /\ RestartService(s) => TakesStep(s)
                                /\ StopService(s) => TakesStep(StopOf(s))
<1>1. ASSUME NEW step, At(step), Taken PROVE TakesStep(step)
  <2>1. op.created \in BOOLEAN /\ op' = [op EXCEPT !.todo = Tail(@), !.created = op.created]
    BY <1>1 DEF TypeOK, At, Idle, Taken, Commands
  <2> QED
    BY <1>1, <2>1, TakenStep
<1>2. WriteEnvironment => TakesStep("environment")
  <2>1. (env.api = 0) \in BOOLEAN
    OBVIOUS
  <2> QED
    BY <2>1, TakenStep DEF WriteEnvironment
<1> QED
  BY <1>1, <1>2
  DEF RotateEnvironment, CopyCheckout, InstallUnits, InstallPlugin, VerifyPlugin, RestartGateway, WriteRecord,
      RestoreFiles, RestoreCheckout, StopGateway, RemovePlugin, StartGateway, RemoveFiles, EnableNow,
      RestartService, StopService

\* The actions that take no step.
Begins ==
  \/ \E r \in Revs : Install(r) \/ \E kind \in {"update", "rollback"} : Update(kind, r)
  \/ \E scope \in {{"api"}, {"bridge"}, {"api", "bridge"}} : Rotate(scope)
  \/ \E scope \in SUBSET {"config", "state"} : Uninstall(scope)

\* A command begins with the steps of its kind, and a snapshot of what is there.
LEMMA Beginning ==
  ASSUME TypeOK, OpInv, Begins
  PROVE  /\ Idle /\ ~Idle' /\ op'.undoing = FALSE /\ OpInv'
         /\ op'.before = [rev |-> Installed, record |-> record, env |-> env] /\ op'.gateway = gateway.up
         /\ UNCHANGED <<diskVars, env, runVars, last, held, tokens, killed, kept, troubles>>
         /\ \/ /\ op'.kind = "install"
               /\ Left' = {"environment", "copy", "units", "startBridge", "startApi", "plugin", "gateway",
                           "verify", "record"}
            \/ /\ op'.kind \in {"update", "rollback"}
               /\ ~(checkout # NoRev /\ record # NoRev /\ checkout # record) /\ Installed # NoRev
               /\ op'.components = Changed(Installed, op'.target)
               /\ Left' = {"environment", "copy", "units", "plugin", "verify", "record"}
                          \union RestartSteps(op'.components)
            \/ /\ op'.kind = "rotate" /\ env.api > 0 /\ "rotate" \in Left'
               /\ "bridge" \in op'.scope => {"bridge", "api"} \subseteq Left'
            \/ /\ op'.kind = "uninstall"
               /\ Left' = {"stopBridge", "stopApi", "stopGateway", "removePlugin", "startGateway", "remove"}
<1> DEFINE Shared ==
      /\ Idle /\ ~Idle' /\ op'.undoing = FALSE
      /\ op'.before = [rev |-> Installed, record |-> record, env |-> env] /\ op'.gateway = gateway.up
      /\ UNCHANGED <<diskVars, env, runVars, last, held, tokens, killed, kept, troubles>>
<1>1. ASSUME NEW kind, NEW target, NEW components, NEW scope, NEW todo,
             Begin(kind, target, components, scope, todo)
      PROVE  /\ Shared /\ op'.kind = kind /\ op'.target = target /\ op'.components = components
             /\ op'.scope = scope /\ op'.todo = todo
  BY <1>1 DEF Begin, Idle, NoOp
<1> HIDE DEF Shared
<1>2. ASSUME NEW r \in Revs, Install(r)
      PROVE  /\ Shared /\ OpInv' /\ op'.kind = "install"
             /\ Left' = {"environment", "copy", "units", "startBridge", "startApi", "plugin", "gateway",
                         "verify", "record"}
  <2>1. /\ Shared /\ op'.kind = "install" /\ op'.target = r
        /\ op'.todo = <<"environment", "copy", "units", "startBridge", "startApi", "plugin", "gateway", "verify",
                       "record">>
    BY <1>1, <1>2 DEF Install
  <2>2. /\ Ordered(op'.todo)
        /\ Left' = {"environment", "copy", "units", "startBridge", "startApi", "plugin", "gateway", "verify",
                    "record"}
    BY <2>1, InstallSteps DEF Left
  <2> QED
    BY <2>1, <2>2 DEF Shared, OpInv, Updating, Installing, StepsOf
<1>3. ASSUME NEW r \in Revs, NEW kind \in {"update", "rollback"}, Update(kind, r)
      PROVE  /\ Shared /\ OpInv' /\ op'.kind \in {"update", "rollback"}
             /\ ~(checkout # NoRev /\ record # NoRev /\ checkout # record) /\ Installed # NoRev
             /\ op'.components = Changed(Installed, op'.target)
             /\ Left' = {"environment", "copy", "units", "plugin", "verify", "record"}
                        \union RestartSteps(op'.components)
  <2>1. ~(checkout # NoRev /\ record # NoRev /\ checkout # record) /\ Installed # NoRev
    BY <1>3 DEF Update, Refused
  <2>2. record \in {Installed, NoRev}
    BY <2>1 DEF Installed
  <2>3. /\ Shared /\ op'.kind = kind /\ op'.target = r /\ op'.components = Changed(Installed, r)
        /\ op'.todo = <<"environment", "copy", "units", "plugin", "verify">>
                      \o Restarts(Changed(Installed, r)) \o <<"record">>
    <3> DEFINE components == Changed(Installed, r)
               todo == <<"environment", "copy", "units", "plugin", "verify">> \o Restarts(components) \o <<"record">>
    <3>1. Begin(kind, r, components, {}, todo)
      BY <1>3 DEF Update
    <3> HIDE DEF components, todo
    <3>2. /\ Shared /\ op'.kind = kind /\ op'.target = r /\ op'.components = components
          /\ op'.todo = todo
      BY <1>1, <3>1
    <3> QED
      BY <3>2 DEF components, todo
  <2>4. /\ Ordered(op'.todo) /\ op'.todo[Len(op'.todo)] = "record"
        /\ Left' = {"environment", "copy", "units", "plugin", "verify", "record"}
                   \union RestartSteps(op'.components)
    BY <2>3, UpdateSteps DEF Left
  <2>5. OpInv'
    <3>1. op'.before.rev = Installed /\ op'.before.record = record /\ op'.undoing = FALSE
      BY <2>3 DEF Shared
    <3>2. Left' \subseteq StepsOf(kind, FALSE)
      BY <2>4 DEF StepsOf, RestartSteps
    <3> QED
      BY <2>1, <2>2, <2>3, <2>4, <3>1, <3>2 DEF OpInv, Updating, Installing
  <2> QED
    BY <2>1, <2>3, <2>4, <2>5
<1>4. ASSUME NEW scope, Rotate(scope)
      PROVE  /\ Shared /\ OpInv' /\ op'.kind = "rotate" /\ env.api > 0 /\ "rotate" \in Left'
             /\ "bridge" \in op'.scope => {"bridge", "api"} \subseteq Left'
  <2>1. /\ Shared /\ op'.kind = "rotate" /\ op'.scope = scope /\ env.api > 0
        /\ op'.todo = <<"rotate">> \o (IF "bridge" \in scope THEN <<"bridge">> ELSE <<>>) \o <<"api">>
    <3>1. Begin("rotate", NoRev, {}, scope,
                <<"rotate">> \o (IF "bridge" \in scope THEN <<"bridge">> ELSE <<>>) \o <<"api">>)
      BY <1>4 DEF Rotate
    <3> QED
      BY <1>1, <1>4, <3>1 DEF Rotate
  <2>2. /\ Ordered(op'.todo) /\ "rotate" \in Left' /\ Left' \subseteq {"rotate", "bridge", "api"}
        /\ "bridge" \in scope => {"bridge", "api"} \subseteq Left'
    BY <2>1, RotateSteps DEF Left
  <2> QED
    BY <2>1, <2>2 DEF Shared, OpInv, Updating, Installing, StepsOf
<1>5. ASSUME NEW scope, Uninstall(scope)
      PROVE  /\ Shared /\ OpInv' /\ op'.kind = "uninstall"
             /\ Left' = {"stopBridge", "stopApi", "stopGateway", "removePlugin", "startGateway", "remove"}
  <2>1. /\ Shared /\ op'.kind = "uninstall"
        /\ op'.todo = <<"stopBridge", "stopApi", "stopGateway", "removePlugin", "startGateway", "remove">>
    BY <1>1, <1>5 DEF Uninstall
  <2>2. /\ Ordered(op'.todo)
        /\ Left' = {"stopBridge", "stopApi", "stopGateway", "removePlugin", "startGateway", "remove"}
    BY <2>1, UninstallSteps DEF Left
  <2> QED
    BY <2>1, <2>2 DEF Shared, OpInv, Updating, Installing, StepsOf
<1> QED
  BY <1>2, <1>3, <1>4, <1>5 DEF Begins, Shared

\* An update that fails turns to undoing.
Undoes ==
  /\ ~Idle /\ ~Idle'
  /\ op \in Commands /\ Updating /\ ~op.undoing /\ op.todo # <<>> /\ "record" \in Left
  /\ op'.kind = op.kind /\ op'.target = op.target /\ op'.components = op.components /\ op'.scope = op.scope
  /\ op'.undoing = TRUE /\ op'.gateway = op.gateway /\ op'.before = op.before
  /\ Left' = {"files", "checkout"} \union RestartSteps(op.components)

\* A failing step begins the undoing of an update, or ends the command.
LEMMA Undoing ==
  ASSUME TypeOK, OpInv, Fail
  PROVE  \E step \in Steps :
           /\ Failing(step) /\ Spoiled(step) /\ step # "files"
           /\ \/ Undoes /\ OpInv' /\ UNCHANGED <<env, last, kept>>
              \/ op.undoing /\ Ended(IF step = "checkout" THEN "failed" ELSE "restored", step)
                 /\ UNCHANGED env
              \/ op.kind = "rotate" /\ Ended("failed", step) /\ env' = op.before.env
              \/ op.kind \in {"install", "uninstall"} /\ Ended("failed", step) /\ UNCHANGED env
<1>2. PICK step \in Steps :
        /\ Failing(step) /\ Spoiled(step) /\ step # "files"
        /\ \/ /\ op.kind \in {"update", "rollback"} /\ ~op.undoing
              /\ op' = [op EXCEPT !.undoing = TRUE,
                                  !.todo = <<"files", "checkout">> \o Restarts(op.components)]
              /\ UNCHANGED <<env, last, kept>>
           \/ op.undoing /\ Ended(IF step = "checkout" THEN "failed" ELSE "restored", step) /\ UNCHANGED env
           \/ op.kind = "rotate" /\ Ended("failed", step) /\ env' = op.before.env
           \/ op.kind \in {"install", "uninstall"} /\ Ended("failed", step) /\ UNCHANGED env
  BY DEF Fail
<1>1. CASE /\ op.kind \in {"update", "rollback"} /\ ~op.undoing
           /\ op' = [op EXCEPT !.undoing = TRUE,
                               !.todo = <<"files", "checkout">> \o Restarts(op.components)]
           /\ UNCHANGED <<env, last, kept>>
  <2>1. /\ op \in Commands /\ op.todo # <<>> /\ op.todo \in Seq(Steps) /\ ~Idle
    BY DEF Fail, TypeOK, Idle, Commands
  <2>2. "record" \in Left
    <3>1. op.todo[Len(op.todo)] = "record" /\ Len(op.todo) \in DOMAIN op.todo
      BY <1>1, <2>1 DEF OpInv, Updating
    <3> QED
      BY <3>1 DEF Left, Range
  <2>3. /\ op'.kind = op.kind /\ op'.target = op.target /\ op'.components = op.components
        /\ op'.scope = op.scope /\ op'.undoing = TRUE /\ op'.gateway = op.gateway /\ op'.before = op.before
        /\ op'.todo = <<"files", "checkout">> \o Restarts(op.components)
    BY <1>1, <2>1 DEF Commands
  <2>4. /\ Ordered(op'.todo)
        /\ Left' = {"files", "checkout"} \union RestartSteps(op.components)
        /\ Left' \subseteq StepsOf(op.kind, TRUE)
    BY <2>3, UndoSteps DEF Left, StepsOf, RestartSteps
  <2>5. ~Idle'
    BY <2>1, <2>3 DEF Commands, Kinds, NoOp, Idle
  <2>6. Undoes /\ OpInv'
    BY <1>1, <2>1, <2>2, <2>3, <2>4, <2>5 DEF Undoes, OpInv, Updating, Installing
  <2> QED
    BY <1>1, <1>2, <2>6
<1> QED
  BY <1>1, <1>2

\* The steps a command has left are always its own, in their order.
LEMMA StepOp ==
  ASSUME TypeOK, OpInv, [Next]_vars
  PROVE  OpInv'
<1>1. ASSUME NEW step, TakesStep(step) PROVE OpInv'
  <2>1. op.todo \in Seq(Steps) /\ op.todo # <<>>
    BY <1>1 DEF TakesStep, Commands
  <2>2. Ordered(op'.todo)
    BY <1>1, <2>1, TailFacts DEF TakesStep, OpInv
  <2>3. ASSUME op.todo[Len(op.todo)] = "record", Tail(op.todo) # <<>>
        PROVE  Tail(op.todo)[Len(Tail(op.todo))] = "record"
    BY <2>1, <2>3
  <2> QED
    BY <1>1, <2>2, <2>3 DEF TakesStep, OpInv, Updating, Installing
<1>2. CASE Begins
  BY <1>2, Beginning
<1>3. CASE Fail
  BY <1>3, Undoing DEF Ended, OpInv, Idle
<1>4. CASE Finish \/ CutRemoval \/ Kill
  BY <1>4 DEF Finish, CutRemoval, Kill, Ended, OpInv, Idle
<1>5. CASE UNCHANGED vars \/ \E s \in Services : SystemdRestarts(s)
  BY <1>5 DEF vars, SystemdRestarts, OpInv, Idle, Left, Updating, Installing
<1> QED
  BY <1>1, <1>2, <1>3, <1>4, <1>5, Takes DEF Next, Begins

\* OpInv: a command under way has steps of its kind left, in the order of the code, and
\* an undoing command is an update or a rollback (execute_install, update_install).
THEOREM OpInvariant == Spec => []OpInv
<1>1. Init => OpInv
  BY DEF Init, OpInv, Idle
<1> QED
  BY <1>1, StepOp, TypeCorrect, PTL DEF Spec

-----------------------------------------------------------------------------
(* The record.                                                             *)

\* What a command has no step left for has been done: the checkout and the record are
\* those of the target, or, when it undoes, those from before.
RecordInv ==
  /\ RecordIsCheckout
  /\ ~Idle /\ Installing /\ ~op.undoing =>
       /\ "copy" \notin Left => checkout = op.target
       /\ "record" \notin Left => record = op.target
       /\ Updating /\ "record" \in Left => record = op.before.record
  /\ ~Idle /\ op.undoing =>
       /\ record = op.before.record
       /\ "checkout" \notin Left => checkout = op.before.rev

\* Each step of a command keeps what RecordInv says of record and checkout.
LEMMA StepRecord ==
  ASSUME TypeOK, OpInv, RecordInv, [Next]_vars
  PROVE  RecordInv'
<1> USE DEF diskVars, runVars, Most, Rest
<1>1. ASSUME NEW step, TakesStep(step), step \notin {"copy", "record", "checkout"}, UNCHANGED <<checkout, record>>
      PROVE  RecordInv'
  BY <1>1 DEF TakesStep, RecordInv, RecordIsCheckout, Updating, Installing
<1>2. CASE Begins
  <2>1. /\ ~Idle' /\ ~op'.undoing /\ op'.before.record = record /\ record' = record
        /\ Installing' => {"copy", "record"} \subseteq Left'
    <3>1. ~Idle' /\ op'.undoing = FALSE /\ op'.before.record = record /\ record' = record
      <4>1. /\ ~Idle' /\ op'.undoing = FALSE /\ UNCHANGED <<diskVars, env, runVars>>
            /\ op'.before = [rev |-> Installed, record |-> record, env |-> env]
        BY <1>2, Beginning
      <4> QED
        BY <4>1
    <3>2. Installing' => {"copy", "record"} \subseteq Left'
      BY <1>2, Beginning DEF Installing
    <3> QED
      BY <3>1, <3>2
  <2> QED
    BY <2>1 DEF RecordInv, RecordIsCheckout
<1>3. CASE CopyCheckout
  <2>1. TakesStep("copy") /\ checkout' = op.target /\ record' = record
    BY <1>3, Takes DEF CopyCheckout
  <2>2. ~op.undoing
    BY <2>1 DEF TakesStep, OpInv, StepsOf
  <2> QED
    BY <2>1, <2>2 DEF TakesStep, RecordInv, RecordIsCheckout, Updating, Installing
<1>4. CASE WriteRecord
  <2>1. TakesStep("record") /\ checkout' = checkout /\ record' = op.target
    BY <1>4, Takes DEF WriteRecord
  <2>2. ~op.undoing
    BY <2>1 DEF TakesStep, OpInv, StepsOf
  <2> QED
    BY <2>1, <2>2 DEF TakesStep, RecordInv, RecordIsCheckout, Updating, Installing
<1>5. CASE RestoreCheckout
  <2>1. TakesStep("checkout") /\ checkout' = op.before.rev /\ record' = record
    BY <1>5, Takes DEF RestoreCheckout
  <2>2. op.undoing
    BY <2>1 DEF TakesStep, OpInv, StepsOf
  <2> QED
    BY <2>1, <2>2 DEF TakesStep, RecordInv, RecordIsCheckout, Updating, Installing
<1>6. CASE RestoreFiles
  <2>1. TakesStep("files") /\ checkout' = checkout /\ record' = op.before.record
    BY <1>6, Takes DEF RestoreFiles
  <2>2. op.undoing
    BY <2>1 DEF TakesStep, OpInv, StepsOf
  <2> QED
    BY <2>1, <2>2 DEF TakesStep, RecordInv, RecordIsCheckout, Updating, Installing
<1>7. CASE RemoveFiles
  <2>1. TakesStep("remove")
    BY <1>7, Takes
  <2>2. ~op.undoing /\ ~Installing
    BY <2>1 DEF TakesStep, OpInv, StepsOf, Installing, Commands
  <2> QED
    BY <2>1, <2>2 DEF TakesStep, RecordInv, RecordIsCheckout, Updating, Installing
<1>8. CASE \/ WriteEnvironment \/ RotateEnvironment \/ InstallUnits \/ InstallPlugin \/ VerifyPlugin
           \/ RestartGateway \/ StopGateway \/ RemovePlugin \/ StartGateway
  <2>1. UNCHANGED <<checkout, record>>
    BY <1>8 DEF WriteEnvironment, RotateEnvironment, InstallUnits, InstallPlugin, VerifyPlugin, RestartGateway,
                StopGateway, RemovePlugin, StartGateway
  <2> QED
    BY <1>1, <1>8, <2>1, Takes
<1>9. ASSUME NEW s \in Services, EnableNow(s) \/ RestartService(s) \/ StopService(s) PROVE RecordInv'
  <2>1. UNCHANGED <<checkout, record>>
    BY <1>9 DEF EnableNow, RestartService, StopService
  <2>2. {s, StartOf(s), StopOf(s)} \intersect {"copy", "record", "checkout"} = {}
    BY DEF StartOf, StopOf, Services
  <2> QED
    BY <1>1, <1>9, <2>1, <2>2, Takes
<1>10. CASE Finish
  <2>1. /\ ~Idle /\ Left = {} /\ UNCHANGED <<checkout, record>> /\ Idle'
        /\ last'.kind = op.kind /\ last'.outcome = IF op.undoing THEN "restored" ELSE "pass"
    BY <1>10 DEF Finish, Ended, Left, Range, Idle
  <2> QED
    BY <2>1 DEF RecordInv, RecordIsCheckout, OpInv, Installing, Updating
<1>11. CASE Fail
  <2>0. PICK step \in Steps :
          /\ Failing(step) /\ Spoiled(step) /\ step # "files"
          /\ \/ Undoes /\ OpInv'
             \/ op.undoing /\ Ended(IF step = "checkout" THEN "failed" ELSE "restored", step)
             \/ Ended("failed", step)
    BY <1>11, Undoing
  <2>1. CASE Undoes /\ OpInv'
    <3>1. record' = record
      BY <1>11 DEF Fail
    <3> QED
      BY <2>1, <3>1 DEF Undoes, RecordInv, RecordIsCheckout, OpInv, Installing, Updating
  <2>2. CASE op.undoing /\ Ended(IF step = "checkout" THEN "failed" ELSE "restored", step)
    <3>1. step \in Left /\ (\A x \in Left : x = step \/ Before(step, x)) /\ step = Head(op.todo)
      <4>1. op \in Commands /\ op.todo \in Seq(Steps) /\ op.todo # <<>> /\ Ordered(op.todo) /\ ~Idle
        BY <1>11 DEF Fail, TypeOK, OpInv, Commands, Idle
      <4>2. Head(op.todo) \in Left /\ \A x \in Left : x = Head(op.todo) \/ Before(Head(op.todo), x)
        BY <4>1, TailFacts DEF Left
      <4>3. "removePlugin" \notin Left
        BY <2>2, <4>1 DEF OpInv, StepsOf
      <4> QED
        BY <2>0, <4>2, <4>3 DEF Failing
    <3>2. step # "checkout" => "checkout" \notin Left
      <4>1. step # "files" /\ ~Idle
        BY <1>11, <2>0 DEF Fail
      <4>2. step \in {"checkout", "bridge", "api", "gateway"}
        BY <2>2, <3>1, <4>1 DEF OpInv, StepsOf
      <4> QED
        BY <3>1, <4>2 DEF Before, Rank
    <3>3. step # "checkout" => checkout' = checkout
      <4>1. At("copy") => step = "copy"
        BY <3>1 DEF At
      <4>2. step # "copy"
        BY <1>11, <2>2, <3>1 DEF Fail, OpInv, StepsOf
      <4> QED
        BY <2>0, <4>1, <4>2 DEF Spoiled, HalfCopied
    <3>4. record' = record /\ ~Idle
      BY <1>11 DEF Fail
    <3>5. Idle' /\ last'.outcome = (IF step = "checkout" THEN "failed" ELSE "restored")
      BY <2>2 DEF Ended, Idle
    <3> QED
      BY <2>2, <3>2, <3>3, <3>4, <3>5 DEF RecordInv, RecordIsCheckout, OpInv
  <2>3. CASE Ended("failed", step)
    <3>1. Idle' /\ last'.outcome = "failed"
      BY <2>3 DEF Ended, Idle
    <3> QED
      BY <3>1 DEF RecordInv, RecordIsCheckout
  <2> QED
    BY <2>0, <2>1, <2>2, <2>3
<1>12. CASE Kill
  BY <1>12 DEF Kill, Ended, RecordInv, RecordIsCheckout, Idle
<1>14. CASE CutRemoval
  BY <1>14 DEF CutRemoval, Ended, RecordInv, RecordIsCheckout, Idle
<1>13. CASE UNCHANGED vars \/ \E s \in Services : SystemdRestarts(s)
  <2>1. UNCHANGED <<checkout, record, op, last>>
    BY <1>13 DEF vars, SystemdRestarts
  <2> QED
    BY <2>1 DEF RecordInv, RecordIsCheckout, Idle, Left, Updating, Installing
<1> QED
  BY <1>2, <1>3, <1>4, <1>5, <1>6, <1>7, <1>8, <1>9, <1>10, <1>11, <1>12, <1>13, <1>14 DEF Next, Begins

\* RecordInv: an update or install whose copy is done has the target checked out until
\* it undoes, and one that undoes has the record from before once the files are restored.
THEOREM RecordInvariant == Spec => []RecordInv
<1>1. Init => RecordInv
  BY DEF Init, RecordInv, RecordIsCheckout, Idle
<1> QED
  BY <1>1, StepRecord, TypeCorrect, OpInvariant, PTL DEF Spec

\* RecordIsCheckout: after every command that passes the record names what is
\* installed, and after one that restores it never names anything else.
THEOREM RecordTheorem == Spec => []RecordIsCheckout
BY RecordInvariant, PTL DEF RecordInv

-----------------------------------------------------------------------------
(* The token.                                                              *)

\* Before it ends, a rotation has told nobody: what is held is the token from before.
TokenInv ==
  /\ ~Idle /\ Updating => op.before.env.api \in {0, env.api}
  /\ ~Idle /\ op.kind = "rotate" /\ ("rotate" \in Left \/ "api" \notin op.scope) =>
       env.api = op.before.env.api
  /\ "rotate" \notin killed =>
       IF ~Idle /\ op.kind = "rotate" THEN held \in {0, op.before.env.api} ELSE held \in {0, env.api}

\* Only a new environment, a rotation and their undoing change the token.
LEMMA StepToken ==
  ASSUME TypeOK, OpInv, TokenInv, [Next]_vars
  PROVE  TokenInv'
<1> USE DEF diskVars, runVars, Most, Rest
<1>1. ASSUME NEW step, TakesStep(step), UNCHANGED <<env, held, killed>> PROVE TokenInv'
  BY <1>1 DEF TakesStep, TokenInv, Updating
<1>2. CASE Begins
  <2>1. /\ Idle /\ op'.before.env = env /\ UNCHANGED <<env, held, killed>>
    BY <1>2, Beginning
  <2> QED
    BY <2>1 DEF TokenInv
<1>3. CASE WriteEnvironment
  <2>1. TakesStep("environment") /\ UNCHANGED <<held, killed>> /\ op.kind # "rotate"
    <3>1. TakesStep("environment") /\ UNCHANGED <<held, killed>>
      BY <1>3, Takes DEF WriteEnvironment
    <3> QED
      BY <3>1 DEF TakesStep, OpInv, StepsOf
  <2>2. env.api = 0 \/ env'.api = env.api
    BY <1>3 DEF WriteEnvironment, TypeOK, Environments
  <2> QED
    BY <2>1, <2>2 DEF TakesStep, TokenInv, Updating
<1>4. CASE RotateEnvironment
  <2>1. TakesStep("rotate") /\ UNCHANGED <<held, killed>> /\ op.kind = "rotate"
    <3>1. TakesStep("rotate") /\ UNCHANGED <<held, killed>>
      BY <1>4, Takes DEF RotateEnvironment
    <3> QED
      BY <3>1 DEF TakesStep, OpInv, StepsOf, Commands, Kinds
  <2>2. "api" \in op.scope \/ env'.api = env.api
    BY <1>4 DEF RotateEnvironment
  <2> QED
    BY <2>1, <2>2 DEF TakesStep, TokenInv, Updating
<1>5. CASE VerifyPlugin
  <2>1. TakesStep("verify") /\ UNCHANGED <<env, killed>> /\ held' \in {held, env.api} /\ op.kind # "rotate"
    <3>1. TakesStep("verify") /\ UNCHANGED <<env, killed>> /\ held' \in {held, env.api}
      BY <1>5, Takes DEF VerifyPlugin
    <3> QED
      BY <3>1 DEF TakesStep, OpInv, StepsOf
  <2> QED
    BY <2>1 DEF TakesStep, TokenInv, Updating
<1>6. CASE RestoreFiles
  <2>1. /\ TakesStep("files") /\ env' = op.before.env /\ killed' = killed
        /\ held' = IF op.before.env.api = 0 THEN 0 ELSE held
    BY <1>6, Takes DEF RestoreFiles
  <2>2. ~Idle /\ Updating
    BY <2>1 DEF TakesStep, OpInv, StepsOf
  <2> QED
    BY <2>1, <2>2 DEF TakesStep, TokenInv, Updating
<1>7. CASE RemoveFiles
  <2>1. TakesStep("remove") /\ killed' = killed /\ (UNCHANGED <<env, held>> \/ held' = 0)
    BY <1>7, Takes DEF RemoveFiles, Removes
  <2>2. op.kind = "uninstall"
    BY <2>1 DEF TakesStep, OpInv, StepsOf
  <2> QED
    BY <2>1, <2>2 DEF TakesStep, TokenInv, Updating
<1>8. CASE \/ CopyCheckout \/ InstallUnits \/ InstallPlugin \/ RestartGateway \/ WriteRecord
           \/ RestoreCheckout \/ StopGateway \/ RemovePlugin \/ StartGateway
  <2>1. UNCHANGED <<env, held, killed>>
    BY <1>8 DEF CopyCheckout, InstallUnits, InstallPlugin, RestartGateway, WriteRecord,
                RestoreCheckout, StopGateway, RemovePlugin, StartGateway
  <2> QED
    BY <1>1, <1>8, <2>1, Takes
<1>9. ASSUME NEW s \in Services, EnableNow(s) \/ RestartService(s) \/ StopService(s) PROVE TokenInv'
  <2>1. UNCHANGED <<env, held, killed>>
    BY <1>9 DEF EnableNow, RestartService, StopService
  <2> QED
    BY <1>1, <1>9, <2>1, Takes
<1>10. CASE Finish
  <2>1. /\ ~Idle /\ Left = {} /\ UNCHANGED <<env, killed>> /\ Idle'
        /\ held' = IF (op.kind = "install" /\ op.created) \/ "api" \in op.scope THEN env.api ELSE held
    BY <1>10 DEF Finish, Ended, Left, Range, Idle
  <2> QED
    BY <2>1 DEF TokenInv
<1>11. CASE Fail
  <2>1. UNCHANGED <<held, killed>> /\ ~Idle
    BY <1>11 DEF Fail
  <2>2. CASE Undoes /\ UNCHANGED env
    BY <2>1, <2>2 DEF Undoes, TokenInv, Updating
  <2>3. ASSUME NEW outcome, NEW step, Ended(outcome, step), op.kind # "rotate" /\ UNCHANGED env
        PROVE  TokenInv'
    BY <2>1, <2>3 DEF Ended, TokenInv, Idle
  <2>4. ASSUME NEW step, op.kind = "rotate" /\ Ended("failed", step) /\ env' = op.before.env
        PROVE  TokenInv'
    BY <2>1, <2>4 DEF Ended, TokenInv, Idle
  <2> QED
    BY <1>11, <2>1, <2>2, <2>3, <2>4, Undoing DEF OpInv, Updating
<1>12. CASE Kill
  <2>1. /\ ~Idle /\ UNCHANGED <<env, held>> /\ killed' = killed \union {op.kind} /\ Idle'
    BY <1>12 DEF Kill, Ended, Idle
  <2> QED
    BY <2>1 DEF TokenInv
<1>14. CASE CutRemoval
  <2>1. /\ (UNCHANGED <<env, held>> \/ held' = 0) /\ killed' \in {killed, killed \union {op.kind}}
        /\ ~Idle /\ Idle'
    BY <1>14 DEF CutRemoval, Removes, At, Ended, Idle
  <2>2. op.kind = "uninstall"
    <3>1. op \in Commands /\ op.todo \in Seq(Steps) /\ op.todo # <<>> /\ Head(op.todo) = "remove"
      BY <1>14 DEF CutRemoval, At, TypeOK, Commands, Idle
    <3>2. "remove" \in Left
      BY <3>1, TailFacts DEF Left
    <3> QED
      BY <2>1, <3>1, <3>2 DEF OpInv, StepsOf, Commands, Kinds
  <2> QED
    BY <2>1, <2>2 DEF TokenInv
<1>13. CASE UNCHANGED vars \/ \E s \in Services : SystemdRestarts(s)
  <2>1. UNCHANGED <<op, held, killed>> /\ env'.api = env.api
    BY <1>13 DEF vars, SystemdRestarts, TypeOK, Environments
  <2> QED
    BY <2>1 DEF TokenInv, Idle, Left, Updating
<1> QED
  BY <1>2, <1>3, <1>4, <1>5, <1>6, <1>7, <1>8, <1>9, <1>10, <1>11, <1>12, <1>13, <1>14 DEF Next, Begins

\* TokenInv: between commands the token that is held is none or the one in force; the
\* snapshot of an update agrees with it; a rotation tells its token only at its end.
THEOREM TokenInvariant == Spec => []TokenInv
<1>1. Init => TokenInv
  BY DEF Init, TokenInv, Idle
<1> QED
  BY <1>1, StepToken, TypeCorrect, OpInvariant, PTL DEF Spec

\* TokenIsHeld: what the operator was told is what the API asks for, unless a rotation
\* was killed.
THEOREM TokenTheorem == Spec => []TokenIsHeld
<1>1. TokenInv => TokenIsHeld
  BY DEF TokenInv, TokenIsHeld
<1> QED
  BY <1>1, TokenInvariant, PTL

-----------------------------------------------------------------------------
(* The token in force.                                                     *)

\* Once a rotation of the bridge's token has written it, every service that runs with
\* another is one it has still to restart.
ForceInv ==
  /\ RotatedIsInForce
  /\ ~Idle /\ op.kind = "rotate" /\ "bridge" \in op.scope =>
       /\ "rotate" \in Left => {"bridge", "api"} \subseteq Left
       /\ \A s \in Services \ Left : proc[s].up => proc[s].token = env.bridge

\* A service that is started has the token of the environment, the others have theirs.
LEMMA StartForce ==
  ASSUME TypeOK, NEW s \in Services, Start(s)
  PROVE  proc'[s].token = env.bridge /\ \A x \in Services \ {s} : proc'[x] = proc[x]
BY DEF Start, Started, TypeOK

\* Only a rotation changes the token, and it restarts the services after that.
LEMMA StepForce ==
  ASSUME TypeOK, OpInv, ForceInv, [Next]_vars
  PROVE  ForceInv'
<1> USE DEF diskVars, runVars, Most, Rest
<1>1. ASSUME NEW step, TakesStep(step), step \notin {"rotate", "bridge", "api"} PROVE ForceInv'
  <2>1. ~Idle' /\ op'.kind = op.kind /\ op.kind # "rotate"
    BY <1>1 DEF TakesStep, OpInv, StepsOf, Updating
  <2> QED
    BY <2>1 DEF ForceInv, RotatedIsInForce, EndedWell
<1>2. CASE Begins
  <2>1. /\ ~Idle'
        /\ op'.kind = "rotate" /\ "bridge" \in op'.scope => {"bridge", "api"} \subseteq Left'
    BY <1>2, Beginning
  <2> QED
    BY <2>1 DEF ForceInv, RotatedIsInForce, EndedWell, Services
<1>3. CASE RotateEnvironment
  <2>1. TakesStep("rotate")
    BY <1>3, Takes
  <2>2. op'.kind = "rotate" /\ "bridge" \in op'.scope => {"bridge", "api"} \subseteq Left'
    BY <2>1 DEF TakesStep, ForceInv
  <2> QED
    BY <2>1, <2>2 DEF TakesStep, ForceInv, RotatedIsInForce, EndedWell, Services
<1>4. ASSUME NEW s \in Services, RestartService(s) PROVE ForceInv'
  <2>1. TakesStep(s) /\ Start(s) /\ env' = env
    BY <1>4, Takes DEF RestartService
  <2>2. proc'[s].token = env.bridge /\ \A x \in Services \ {s} : proc'[x] = proc[x]
    BY <2>1, StartForce
  <2>3. /\ ~Idle /\ ~Idle' /\ op'.kind = op.kind /\ op'.scope = op.scope /\ Left' = Left \ {s}
        /\ \A x \in Left' : Before(s, x)
    BY <2>1 DEF TakesStep
  <2>4. "rotate" \notin Left'
    BY <2>3 DEF Before, Rank, Services
  <2> QED
    BY <2>1, <2>2, <2>3, <2>4 DEF ForceInv, RotatedIsInForce, EndedWell
<1>5. CASE \/ WriteEnvironment \/ CopyCheckout \/ InstallUnits \/ InstallPlugin \/ VerifyPlugin \/ RestartGateway
           \/ WriteRecord \/ RestoreFiles \/ RestoreCheckout \/ StopGateway \/ RemovePlugin \/ StartGateway
           \/ RemoveFiles
  BY <1>1, <1>5, Takes
<1>6. ASSUME NEW s \in Services, EnableNow(s) \/ StopService(s) PROVE ForceInv'
  <2>1. {StartOf(s), StopOf(s)} \intersect {"rotate", "bridge", "api"} = {}
    BY DEF StartOf, StopOf, Services
  <2> QED
    BY <1>1, <1>6, <2>1, Takes
<1>7. CASE Finish
  <2>1. /\ ~Idle /\ Left = {} /\ UNCHANGED <<env, proc>> /\ Idle'
        /\ last'.kind = op.kind /\ last'.scope = op.scope
    BY <1>7 DEF Finish, Ended, Left, Range, Idle
  <2> QED
    BY <2>1 DEF ForceInv, RotatedIsInForce, EndedWell
<1>8. CASE Fail
  <2>1. ASSUME NEW outcome, NEW step, Ended(outcome, step), outcome # "pass" PROVE ForceInv'
    BY <2>1 DEF Ended, ForceInv, RotatedIsInForce, EndedWell, Idle
  <2>2. CASE Undoes
    BY <2>2 DEF Undoes, ForceInv, RotatedIsInForce, EndedWell, Updating
  <2>3. ASSUME NEW step,
               op.undoing /\ Ended(IF step = "checkout" THEN "failed" ELSE "restored", step)
        PROVE  ForceInv'
    BY <2>1, <2>3
  <2> QED
    BY <1>8, <2>1, <2>2, <2>3, Undoing
<1>9. CASE CutRemoval \/ Kill
  BY <1>9 DEF CutRemoval, Kill, Ended, ForceInv, RotatedIsInForce, EndedWell, Idle
<1>10. ASSUME NEW s \in Services, SystemdRestarts(s) PROVE ForceInv'
  <2>1. proc'[s].token = env.bridge /\ (\A x \in Services \ {s} : proc'[x] = proc[x]) /\ UNCHANGED <<env, op, last>>
    BY <1>10, StartForce DEF SystemdRestarts
  <2> QED
    BY <2>1 DEF ForceInv, RotatedIsInForce, EndedWell, Idle, Left
<1>11. CASE UNCHANGED vars
  BY <1>11 DEF vars, ForceInv, RotatedIsInForce, EndedWell, Idle, Left
<1> QED
  BY <1>2, <1>3, <1>4, <1>5, <1>6, <1>7, <1>8, <1>9, <1>10, <1>11 DEF Next, Begins

\* RotatedIsInForce: after a rotation of the bridge's token that passes, every service
\* that runs has the token of the environment (rotate_tokens).
THEOREM RotatedTheorem == Spec => []RotatedIsInForce
<1>1. Init => ForceInv
  BY DEF Init, ForceInv, RotatedIsInForce, EndedWell, Idle
<1>2. Spec => []ForceInv
  BY <1>1, StepForce, TypeCorrect, OpInvariant, PTL DEF Spec
<1> QED
  BY <1>2, PTL DEF ForceInv

\* TokensAgree: what the operator was told, the environment and, after a rotation that
\* passes, the services have the same token.
THEOREM TokensTheorem == Spec => []TokensAgree
BY TokenTheorem, RotatedTheorem, PTL DEF TokensAgree

-----------------------------------------------------------------------------
(* The gateway.                                                            *)

\* Only an uninstall stops a gateway, and it has yet to start it again.
GatewayInv ==
  /\ ~Idle /\ ~op.undoing /\ op.gateway =>
       \/ gateway.up
       \/ /\ op.kind = "uninstall" /\ "startGateway" \in Left
          /\ Left \intersect {"stopBridge", "stopApi", "stopGateway"} = {}
  /\ ~Idle /\ "stopGateway" \in Left => "startGateway" \in Left

\* Only an uninstall stops the gateway, and starting it again is among its steps.
LEMMA StepGateway ==
  ASSUME TypeOK, OpInv, GatewayInv, [Next]_vars
  PROVE  GatewayInv'
<1> USE DEF diskVars, runVars, Most, Rest
<1>1. ASSUME NEW step, TakesStep(step), step \notin {"stopGateway", "startGateway"}, gateway'.up = gateway.up
      PROVE  GatewayInv'
  BY <1>1 DEF TakesStep, GatewayInv
<1>2. CASE Begins
  <2>1. ~Idle' /\ op'.gateway = gateway.up /\ gateway' = gateway
    BY <1>2, Beginning
  <2>2. OpInv' /\ ("stopGateway" \in Left' => "startGateway" \in Left')
    <3>1. OpInv' /\ op'.undoing = FALSE
      BY <1>2, Beginning
    <3>2. op'.kind \in {"install", "update", "rollback", "rotate"} => "stopGateway" \notin Left'
      BY <2>1, <3>1 DEF OpInv, StepsOf
    <3> QED
      BY <1>2, <3>1, <3>2, Beginning
  <2> QED
    BY <2>1, <2>2 DEF GatewayInv
<1>3. CASE StopGateway
  <2>1. TakesStep("stopGateway") /\ gateway' = [gateway EXCEPT !.up = FALSE]
    BY <1>3, Takes DEF StopGateway
  <2>2. /\ op.kind = "uninstall" /\ "startGateway" \in Left'
    BY <2>1 DEF TakesStep, OpInv, StepsOf, GatewayInv
  <2>3. Left' \intersect {"stopBridge", "stopApi", "stopGateway"} = {}
    BY <2>1 DEF TakesStep, Before, Rank
  <2> QED
    BY <2>1, <2>2, <2>3 DEF TakesStep, GatewayInv
<1>4. CASE StartGateway
  <2>1. TakesStep("startGateway") /\ (op.gateway => gateway'.up)
    BY <1>4, Takes DEF StartGateway
  <2>2. "stopGateway" \notin Left'
    BY <2>1 DEF TakesStep, Before, Rank
  <2> QED
    BY <2>1, <2>2 DEF TakesStep, GatewayInv
<1>5. CASE \/ WriteEnvironment \/ RotateEnvironment \/ CopyCheckout \/ InstallUnits \/ InstallPlugin
           \/ VerifyPlugin \/ RestartGateway \/ WriteRecord \/ RestoreFiles \/ RestoreCheckout
           \/ RemovePlugin \/ RemoveFiles
  <2>1. gateway'.up = gateway.up
    BY <1>5 DEF WriteEnvironment, RotateEnvironment, CopyCheckout, InstallUnits, InstallPlugin, VerifyPlugin,
                RestartGateway, WriteRecord, RestoreFiles, RestoreCheckout, RemovePlugin, RemoveFiles, TypeOK
  <2> QED
    BY <1>1, <1>5, <2>1, Takes
<1>6. ASSUME NEW s \in Services, EnableNow(s) \/ RestartService(s) \/ StopService(s) PROVE GatewayInv'
  <2>1. gateway' = gateway
    BY <1>6 DEF EnableNow, RestartService, StopService
  <2>2. {s, StartOf(s), StopOf(s)} \intersect {"stopGateway", "startGateway"} = {}
    BY DEF StartOf, StopOf, Services
  <2> QED
    BY <1>1, <1>6, <2>1, <2>2, Takes
<1>7. CASE Fail
  <2>1. CASE Undoes /\ OpInv'
    <3>1. "stopGateway" \notin Left'
      BY <2>1 DEF Undoes, OpInv, StepsOf
    <3> QED
      BY <2>1, <3>1 DEF Undoes, GatewayInv
  <2>2. ASSUME NEW outcome, NEW step, Ended(outcome, step) PROVE GatewayInv'
    BY <2>2 DEF Ended, Idle, GatewayInv
  <2> QED
    BY <1>7, <2>1, <2>2, Undoing
<1>8. CASE Finish \/ CutRemoval \/ Kill
  BY <1>8 DEF Finish, CutRemoval, Kill, Ended, Idle, GatewayInv
<1>9. CASE UNCHANGED vars \/ \E s \in Services : SystemdRestarts(s)
  <2>1. UNCHANGED <<op, gateway>>
    BY <1>9 DEF vars, SystemdRestarts
  <2> QED
    BY <2>1 DEF GatewayInv, Idle, Left
<1> QED
  BY <1>2, <1>3, <1>4, <1>5, <1>6, <1>7, <1>8, <1>9 DEF Next, Begins

\* GatewayInv: while a command that found the gateway running is under way, the gateway
\* runs or its start is among the steps left (uninstall, restart_services_for_components).
THEOREM GatewayInvariant == Spec => []GatewayInv
<1>1. Init => GatewayInv
  BY DEF Init, GatewayInv, Idle
<1> QED
  BY <1>1, StepGateway, TypeCorrect, OpInvariant, PTL DEF Spec

\* GatewayServes: a gateway that ran when a command began runs when it ends, unless it
\* was the gateway that failed to stop or to start.
THEOREM GatewayTheorem == Spec => GatewayServes
<1> DEFINE Serves ==
      ~Idle /\ op'.kind = "none" /\ op.gateway /\ last'.outcome # "killed"
        => gateway'.up \/ last'.step \in {"gateway", "startGateway", "stopGateway"} \/ op.undoing
<1>1. ASSUME TypeOK, OpInv, GatewayInv, [Next]_vars PROVE Serves
  <2> SUFFICES ASSUME ~Idle, op'.kind = "none", op.gateway, last'.outcome # "killed", ~op.undoing
               PROVE  gateway'.up \/ last'.step \in {"gateway", "startGateway", "stopGateway"}
    OBVIOUS
  <2> USE <1>1
  <2>1. op \in Commands /\ op.kind # "none"
    BY DEF TypeOK, Idle, Commands, Kinds
  <2>2. ASSUME NEW step, TakesStep(step) PROVE FALSE
    BY <2>1, <2>2 DEF TakesStep
  <2>3. ~Begins
    BY Beginning
  <2>4. op' # op
    BY <2>1
  <2>5. Finish \/ Fail \/ CutRemoval \/ Kill
    BY <2>2, <2>3, <2>4, Takes DEF Next, Begins, SystemdRestarts, vars
  <2>6. CASE Finish
    <3>1. Left = {} /\ gateway' = gateway
      BY <2>6 DEF Finish, Left, Range, runVars
    <3> QED
      BY <3>1 DEF GatewayInv
  <2>7. CASE Kill
    BY <2>7 DEF Kill, Ended
  <2>8. CASE Fail
    <3>1. Head(op.todo) \in Left /\ op.todo # <<>>
      <4>1. op.todo \in Seq(Steps) /\ op.todo # <<>>
        BY <2>1, <2>8 DEF Fail, Commands
      <4> QED
        BY <4>1, TailFacts DEF Left
    <3>2. PICK step \in Steps : Failing(step) /\ Spoiled(step) /\ last'.step = step
      <4>1. ~Undoes
        BY <2>1 DEF Undoes
      <4>2. \E step \in Steps : /\ Failing(step) /\ Spoiled(step)
                              /\ \E outcome \in {"restored", "failed"} : Ended(outcome, step)
        BY <2>8, <4>1, Undoing
      <4> QED
        BY <4>2 DEF Ended
    <3>3. Head(op.todo) # "remove"
      BY <2>8 DEF Fail, Failing
    <3>4. step # "startGateway" => gateway.up \/ (step = "removePlugin" /\ Head(op.todo) = "removePlugin")
      BY <3>1, <3>2, <3>3 DEF GatewayInv, OpInv, StepsOf, Failing
    <3>5. gateway \in [up : BOOLEAN, rev : Revs \union {NoRev}]
      BY DEF TypeOK
    <3>6. step \notin {"gateway", "startGateway", "stopGateway"} => gateway'.up
      BY <3>2, <3>4, <3>5 DEF Spoiled
    <3> QED
      BY <3>2, <3>6
  <2>9. CASE CutRemoval
    <3>1. op.todo \in Seq(Steps) /\ op.todo # <<>> /\ Head(op.todo) = "remove" /\ Ordered(op.todo)
      BY <2>1, <2>9 DEF CutRemoval, At, OpInv, Commands
    <3>2. "startGateway" \notin Left
      BY <3>1, TailFacts DEF Left, Before, Rank
    <3> QED
      BY <2>9, <3>2 DEF CutRemoval, GatewayInv, runVars
  <2> QED
    BY <2>5, <2>6, <2>7, <2>8, <2>9
<1> QED
  BY <1>1, TypeCorrect, OpInvariant, GatewayInvariant, PTL DEF Spec, GatewayServes

-----------------------------------------------------------------------------
(* The services.                                                           *)

\* A service runs the code of a revision, unless it is down or known to be left behind.
Sound(s, rev) == s \in kept \/ ~proc[s].up \/ Runs(s, rev)
AllSound(rev) == \A s \in Services : Sound(s, rev)
Affected == RestartSteps(op.components) \intersect Services
Unrefused == checkout = NoRev \/ record = NoRev \/ checkout = record

\* Without a checkout nothing runs, and what an uninstall has stopped stays down.
DownInv ==
  /\ checkout = NoRev => \A s \in Services : ~proc[s].up
  /\ ~Idle /\ op.kind = "uninstall" =>
       \A s \in Services : StopOf(s) \notin Left => ~proc[s].up /\ ~proc[s].on

\* Between installations: what an update would not refuse runs what is installed.
IdleInv == Idle \/ op.kind \in {"rotate", "uninstall"} => (Unrefused => AllSound(Installed))

\* An install has yet to start what may not run the target.
InstallInv ==
  ~Idle /\ op.kind = "install" =>
    IF "copy" \in Left THEN Services = Owed ELSE \A s \in Services \ Owed : Sound(s, op.target)

\* An update has yet to restart what may not run the revision it leaves: until then a
\* service runs what was there or the target, and the two differ only for the services
\* it means to restart.
UpdateInv ==
  ~Idle /\ Updating =>
    /\ \A s \in Services \ Affected : Content[op.before.rev][s] = Content[op.target][s]
    /\ Left \intersect {"copy", "checkout"} # {} => Affected \subseteq Left
    /\ checkout \in {op.before.rev, op.target, NoRev}
    /\ checkout = NoRev => op.before.record # NoRev
    /\ \A s \in Services : Sound(s, op.before.rev) \/ Sound(s, op.target)
    /\ op.undoing => \A s \in Services \ Left : Sound(s, op.before.rev)
    /\ ~op.undoing /\ "copy" \in Left => checkout \in {op.before.rev, NoRev} /\ AllSound(op.before.rev)
    /\ ~op.undoing /\ "copy" \notin Left => \A s \in Services \ Left : Sound(s, op.target)

RunInv == DownInv /\ IdleInv /\ InstallInv /\ UpdateInv

\* A service that is started runs the checkout, unless it was started on a mixture.
LEMMA StartSound ==
  ASSUME TypeOK, NEW s \in Services, Start(s)
  PROVE  /\ \A x \in Services : x # s => /\ \A rev : Sound(x, rev) => Sound(x, rev)'
                                         /\ proc'[x] = proc[x]
         /\ \A rev : Content[checkout][s] = Content[rev][s] => Sound(s, rev)'
<1>1. PICK rev \in {checkout} \union mixed :
        /\ proc' = [proc EXCEPT ![s] = Started(rev)]
        /\ kept' = IF rev = checkout THEN kept \ {s} ELSE kept \union {s}
  BY DEF Start
<1>2. /\ proc'[s].rev = rev
      /\ \A x \in Services : x # s => proc'[x] = proc[x] /\ (x \in kept => x \in kept')
  BY <1>1 DEF TypeOK, Started
<1>3. \A x \in Services : \A r : x # s => (Sound(x, r) => Sound(x, r)')
  BY <1>2 DEF Sound, Runs
<1>4. ASSUME NEW r, Content[checkout][s] = Content[r][s] PROVE Sound(s, r)'
  <2>1. CASE rev = checkout
    BY <1>2, <1>4, <2>1 DEF Sound, Runs
  <2>2. CASE rev # checkout
    BY <1>1, <2>2 DEF Sound
  <2> QED
    BY <2>1, <2>2
<1> QED
  BY <1>2, <1>3, <1>4

\* A command that begins finds sound what an update would not refuse.
LEMMA BeginRun ==
  ASSUME TypeOK, OpInv, RunInv, Begins
  PROVE  RunInv'
<1> USE DEF diskVars, runVars
<1>1. /\ Idle /\ ~Idle' /\ op'.undoing = FALSE
      /\ op'.before = [rev |-> Installed, record |-> record, env |-> env]
      /\ UNCHANGED <<checkout, mixed, record, units, proc, kept>>
  BY Beginning
<1>2. /\ op'.before.rev = Installed /\ op'.before.record = record
      /\ Unrefused' = Unrefused /\ Installed' = Installed
      /\ \A s \in Services : \A rev : Sound(s, rev)' = Sound(s, rev)
  BY <1>1 DEF Unrefused, Installed, Sound, Runs
<1>3. Unrefused => AllSound(Installed)
  BY <1>1 DEF RunInv, IdleInv
<1>4. CASE op'.kind = "install"
  <2>1. Left' = {"environment", "copy", "units", "startBridge", "startApi", "plugin", "gateway", "verify", "record"}
    BY <1>4, Beginning
  <2>2. "copy" \in Left' /\ Owed' = Services
    BY <2>1 DEF Owed, Left, StartOf, Services
  <2>3. DownInv' /\ IdleInv' /\ UpdateInv'
    BY <1>1, <1>4 DEF RunInv, DownInv, IdleInv, UpdateInv, Updating
  <2> QED
    BY <2>2, <2>3 DEF RunInv, InstallInv
<1>5. CASE op'.kind \in {"update", "rollback"}
  <2>1. /\ ~(checkout # NoRev /\ record # NoRev /\ checkout # record) /\ Installed # NoRev
        /\ op'.components = Changed(Installed, op'.target)
        /\ Left' = {"environment", "copy", "units", "plugin", "verify", "record"}
                   \union RestartSteps(op'.components)
    BY <1>5, Beginning
  <2>2. AllSound(Installed)
    BY <1>3, <2>1 DEF Unrefused
  <2>3. \A s \in Services \ Affected' : Content[Installed][s] = Content[op'.target][s]
    BY <2>1 DEF Affected, RestartSteps, Changed, Services
  <2>4. "copy" \in Left' /\ Affected' \subseteq Left'
    BY <2>1 DEF Affected
  <2>5. checkout \in {Installed, NoRev} /\ (checkout = NoRev => record # NoRev)
    BY <2>1 DEF Installed
  <2>6. AllSound(op.before.rev)'
    BY <1>2, <2>2 DEF AllSound
  <2>7. UpdateInv'
    BY <1>1, <1>2, <2>3, <2>4, <2>5, <2>6 DEF UpdateInv, AllSound
  <2>8. DownInv' /\ IdleInv' /\ InstallInv'
    BY <1>1, <1>5 DEF RunInv, DownInv, IdleInv, InstallInv
  <2> QED
    BY <2>7, <2>8 DEF RunInv
<1>6. CASE op'.kind \in {"rotate", "uninstall"}
  <2>1. IdleInv'
    BY <1>2, <1>3 DEF IdleInv, AllSound
  <2>2. DownInv'
    <3>1. op'.kind = "uninstall" => \A s \in Services : StopOf(s) \in Left'
      <4>1. op'.kind = "uninstall" => {"stopBridge", "stopApi"} \subseteq Left'
        BY Beginning
      <4> QED
        BY <4>1 DEF StopOf
    <3> QED
      BY <1>1, <3>1 DEF RunInv, DownInv
  <2>3. InstallInv' /\ UpdateInv'
    BY <1>6 DEF InstallInv, UpdateInv, Updating
  <2> QED
    BY <2>1, <2>2, <2>3 DEF RunInv
<1> QED
  <2>1. op'.kind \in {"install", "update", "rollback", "rotate", "uninstall"}
    BY Beginning
  <2> QED
    BY <1>4, <1>5, <1>6, <2>1

\* A step that concerns no service.
LEMMA OtherRun ==
  ASSUME TypeOK, OpInv, RunInv, NEW step, TakesStep(step),
         step \notin {"copy", "checkout", "startBridge", "startApi", "bridge", "api", "stopBridge", "stopApi"},
         UNCHANGED <<checkout, kept>>, Installing \/ record' = record,
         \A s \in Services : proc'[s].up = proc[s].up /\ proc'[s].rev = proc[s].rev,
         op.kind = "uninstall" => proc' = proc
  PROVE  RunInv'
<1>1. /\ ~Idle /\ ~Idle' /\ op'.kind = op.kind /\ op'.target = op.target /\ op'.before = op.before
      /\ op'.components = op.components /\ op'.undoing = op.undoing
      /\ Affected' = Affected /\ Updating' = Updating
      /\ \A x \in {"copy", "checkout", "startBridge", "startApi", "bridge", "api", "stopBridge", "stopApi"} :
           (x \in Left') = (x \in Left)
  BY DEF TakesStep, Affected, Updating
<1>2. \A s \in Services : \A rev : Sound(s, rev)' = Sound(s, rev)
  BY DEF Sound, Runs
<1>3. Owed' = Owed /\ \A s \in Services : StopOf(s) \in {"stopBridge", "stopApi"}
  BY <1>1 DEF Owed, Left, StartOf, StopOf, Services
<1>4. DownInv'
  BY <1>1, <1>3 DEF RunInv, DownInv
<1>5. IdleInv'
  <2>1. op.kind \in {"rotate", "uninstall"} => Unrefused' = Unrefused /\ Installed' = Installed
    BY DEF Unrefused, Installed, Installing
  <2> QED
    BY <1>1, <1>2, <2>1 DEF RunInv, IdleInv, AllSound
<1>6. InstallInv'
  BY <1>1, <1>2, <1>3 DEF RunInv, InstallInv
<1>7. UpdateInv'
  <2>1. Affected \subseteq {"bridge", "api"} /\ Services = {"bridge", "api"}
    BY DEF Affected, Services
  <2>2. (Affected' \subseteq Left') = (Affected \subseteq Left) /\ (Services \ Left') = (Services \ Left)
    BY <1>1, <2>1
  <2>3. (Left' \intersect {"copy", "checkout"} # {}) = (Left \intersect {"copy", "checkout"} # {})
    BY <1>1
  <2> QED
    BY <1>1, <1>2, <2>2, <2>3 DEF RunInv, UpdateInv, AllSound
<1> QED
  BY <1>4, <1>5, <1>6, <1>7 DEF RunInv

\* The checkout changes under services that go on running.
LEMMA CopyRun ==
  ASSUME TypeOK, OpInv, RunInv, CopyCheckout
  PROVE  RunInv'
<1> USE DEF diskVars, runVars, Most, Rest
<1>1. /\ TakesStep("copy") /\ checkout' = op.target /\ UNCHANGED <<record, proc, kept>>
  BY Takes DEF CopyCheckout
<1>2. /\ ~Idle /\ ~Idle' /\ op'.kind = op.kind /\ op'.target = op.target /\ op'.before = op.before
      /\ op'.undoing = op.undoing /\ Affected' = Affected /\ Updating' = Updating
      /\ Left' = Left \ {"copy"} /\ "copy" \in Left
  BY <1>1 DEF TakesStep, Affected, Updating
<1>3. ~op.undoing /\ Installing /\ op.target \in Revs /\ op.target # NoRev
  <2>1. ~op.undoing /\ Installing
    BY <1>2 DEF OpInv, StepsOf, Installing
  <2> QED
    BY <1>2, <2>1, InstallerAssumption DEF OpInv
<1>4. \A s \in Services : \A rev : Sound(s, rev)' = Sound(s, rev)
  BY <1>1 DEF Sound, Runs
<1>5. Owed' = Owed
  BY <1>2 DEF Owed, Left, StartOf, Services
<1>6. DownInv' /\ IdleInv'
  BY <1>1, <1>2, <1>3 DEF DownInv, IdleInv, Installing
<1>7. InstallInv'
  BY <1>2, <1>5 DEF RunInv, InstallInv
<1>8. UpdateInv'
  <2> SUFFICES ASSUME Updating PROVE UpdateInv'
    BY <1>2 DEF UpdateInv
  <2>1. /\ \A s \in Services \ Affected : Content[op.before.rev][s] = Content[op.target][s]
        /\ Affected \subseteq Left
        /\ \A s \in Services : Sound(s, op.before.rev)
    BY <1>2, <1>3 DEF RunInv, UpdateInv, AllSound
  <2>2. Affected \subseteq Left'
    BY <1>2, <2>1 DEF Affected, Services
  <2>3. \A s \in Services \ Left' : Sound(s, op.target)
    BY <2>1, <2>2 DEF Sound, Runs
  <2> QED
    BY <1>1, <1>2, <1>3, <1>4, <2>1, <2>2, <2>3 DEF UpdateInv
<1> QED
  BY <1>6, <1>7, <1>8 DEF RunInv

\* The checkout is restored under the services that the undoing has yet to restart.
LEMMA RestoreRun ==
  ASSUME TypeOK, OpInv, RunInv, RestoreCheckout
  PROVE  RunInv'
<1> USE DEF diskVars, runVars, Most, Rest
<1>1. /\ TakesStep("checkout") /\ checkout' = op.before.rev /\ UNCHANGED <<record, proc, kept>>
  BY Takes DEF RestoreCheckout
<1>2. /\ ~Idle /\ ~Idle' /\ op'.kind = op.kind /\ op'.target = op.target /\ op'.before = op.before
      /\ op'.undoing = op.undoing /\ Affected' = Affected /\ Updating' = Updating
      /\ Left' = Left \ {"checkout"} /\ "checkout" \in Left
  BY <1>1 DEF TakesStep, Affected, Updating
<1>3. op.undoing /\ Updating /\ op.before.rev # NoRev /\ "copy" \notin Left
  BY <1>2 DEF OpInv, StepsOf
<1>4. \A s \in Services : \A rev : Sound(s, rev)' = Sound(s, rev)
  BY <1>1 DEF Sound, Runs
<1>5. DownInv' /\ IdleInv' /\ InstallInv'
  BY <1>1, <1>2, <1>3 DEF DownInv, IdleInv, InstallInv, Updating
<1>6. UpdateInv'
  <2>1. Services \ Left' = Services \ Left
    BY <1>2 DEF Services
  <2>2. Affected' \subseteq Left'
    BY <1>2, <1>3 DEF RunInv, UpdateInv, Affected, Services
  <2> QED
    BY <1>1, <1>2, <1>3, <1>4, <2>1, <2>2 DEF RunInv, UpdateInv
<1> QED
  BY <1>5, <1>6 DEF RunInv

\* A restart comes after the checkout it is for.
LEMMA RestartRun ==
  ASSUME TypeOK, OpInv, RecordInv, RunInv, NEW s \in Services, RestartService(s)
  PROVE  RunInv'
<1> USE DEF diskVars, runVars, Most, Rest
<1>1. /\ TakesStep(s) /\ Start(s) /\ checkout # NoRev /\ UNCHANGED <<checkout, record>>
  BY Takes DEF RestartService, Cannot
<1>2. /\ ~Idle /\ ~Idle' /\ op'.kind = op.kind /\ op'.target = op.target /\ op'.before = op.before
      /\ op'.undoing = op.undoing /\ Affected' = Affected /\ Updating' = Updating
      /\ Left' = Left \ {s} /\ s \in Left
  BY <1>1 DEF TakesStep, Affected, Updating
<1>3. op.kind \notin {"install", "uninstall"}
  BY <1>2 DEF OpInv, StepsOf, Services, Updating
<1>4. Left \intersect {"copy", "checkout"} = {}
  BY <1>1 DEF TakesStep, Before, Rank, Services
<1>5. /\ \A x \in Services : \A rev : x # s => (Sound(x, rev) => Sound(x, rev)')
      /\ \A rev : Content[checkout][s] = Content[rev][s] => Sound(s, rev)'
  BY <1>1, StartSound
<1>6. DownInv' /\ InstallInv'
  BY <1>1, <1>2, <1>3 DEF DownInv, InstallInv
<1>7. IdleInv'
  <2> SUFFICES ASSUME op.kind \in {"rotate", "uninstall"}, Unrefused PROVE AllSound(Installed)'
    BY <1>1, <1>2 DEF IdleInv, Unrefused
  <2>1. AllSound(checkout) /\ Installed' = checkout
    BY <1>1 DEF RunInv, IdleInv, Installed
  <2> QED
    BY <1>5, <2>1 DEF AllSound
<1>8. UpdateInv'
  <2> SUFFICES ASSUME Updating PROVE UpdateInv'
    BY <1>2 DEF UpdateInv
  <2>1. checkout = IF op.undoing THEN op.before.rev ELSE op.target
    BY <1>2, <1>4 DEF RecordInv, Installing, Updating
  <2>2. Left' \intersect {"copy", "checkout"} = {}
    BY <1>2, <1>4
  <2>3. \A x \in Services : Sound(x, op.before.rev)' \/ Sound(x, op.target)'
    BY <1>2, <1>5, <2>1 DEF RunInv, UpdateInv
  <2>4. op.undoing => \A x \in Services \ Left' : Sound(x, op.before.rev)'
    BY <1>2, <1>5, <2>1 DEF RunInv, UpdateInv
  <2>5. ~op.undoing => \A x \in Services \ Left' : Sound(x, op.target)'
    BY <1>2, <1>4, <1>5, <2>1 DEF RunInv, UpdateInv
  <2> QED
    BY <1>1, <1>2, <2>2, <2>3, <2>4, <2>5 DEF RunInv, UpdateInv
<1> QED
  BY <1>6, <1>7, <1>8 DEF RunInv

\* An install starts a service from its target, or finds it running and leaves it.
LEMMA EnableRun ==
  ASSUME TypeOK, OpInv, RecordInv, RunInv, NEW s \in Services, EnableNow(s)
  PROVE  RunInv'
<1> USE DEF diskVars, runVars, Most, Rest
<1>1. /\ TakesStep(StartOf(s)) /\ checkout # NoRev /\ UNCHANGED <<checkout, record>>
      /\ (kept' = kept \union {s} /\ proc' = proc) \/ Start(s)
  BY Takes DEF EnableNow, Cannot
<1>2. /\ ~Idle /\ ~Idle' /\ op'.kind = op.kind /\ op'.target = op.target
      /\ Left' = Left \ {StartOf(s)} /\ StartOf(s) \in Left
  BY <1>1 DEF TakesStep
<1>3. op.kind = "install" /\ ~op.undoing
  BY <1>2 DEF OpInv, StepsOf, StartOf
<1>4. "copy" \notin Left /\ "copy" \notin Left'
  BY <1>1, <1>2 DEF TakesStep, Before, Rank, StartOf
<1>5. checkout = op.target
  BY <1>2, <1>3, <1>4 DEF RecordInv, Installing
<1>6. /\ \A x \in Services : \A rev : x # s => (Sound(x, rev) => Sound(x, rev)')
      /\ Sound(s, op.target)'
  <2>1. CASE Start(s)
    <3>1. /\ \A x \in Services : \A rev : x # s => (Sound(x, rev) => Sound(x, rev)')
          /\ \A rev : Content[checkout][s] = Content[rev][s] => Sound(s, rev)'
      BY <2>1, StartSound
    <3>2. \A rev : rev = op.target => Sound(s, rev)'
      BY <1>5, <3>1
    <3> QED
      BY <1>2, <3>1, <3>2 DEF Sound, Runs
  <2>2. CASE kept' = kept \union {s} /\ proc' = proc
    BY <2>2 DEF Sound, Runs
  <2> QED
    BY <1>1, <2>1, <2>2
<1>7. Services \ Owed' \subseteq (Services \ Owed) \union {s}
  BY <1>2 DEF Owed, Left, StartOf, Services
<1>8. \A x \in Services \ Owed : Sound(x, op.target)
  BY <1>2, <1>3, <1>4 DEF RunInv, InstallInv
<1>9. InstallInv'
  <2>1. \A x \in Services \ Owed : x # s => Sound(x, op.target)'
    BY <1>2, <1>6, <1>8 DEF Sound, Runs
  <2> QED
    BY <1>2, <1>4, <1>6, <1>7, <2>1 DEF InstallInv
<1>10. DownInv' /\ IdleInv' /\ UpdateInv'
  BY <1>1, <1>2, <1>3 DEF DownInv, IdleInv, UpdateInv, Updating
<1> QED
  BY <1>9, <1>10 DEF RunInv

\* A service that is stopped runs no other code.
LEMMA StopRun ==
  ASSUME TypeOK, OpInv, RunInv, NEW s \in Services, StopService(s)
  PROVE  RunInv'
<1> USE DEF diskVars, runVars, Most, Rest
<1>1. /\ TakesStep(StopOf(s)) /\ proc' = [proc EXCEPT ![s] = Stopped] /\ kept' = kept \ {s}
      /\ UNCHANGED <<checkout, record>>
  BY Takes DEF StopService
<1>2. /\ ~Idle /\ ~Idle' /\ op'.kind = op.kind /\ Left' = Left \ {StopOf(s)} /\ StopOf(s) \in Left
  BY <1>1 DEF TakesStep
<1>3. op.kind = "uninstall"
  BY <1>2 DEF OpInv, StepsOf, StopOf
<1>4. /\ ~proc'[s].up /\ ~proc'[s].on
      /\ \A x \in Services : x # s => proc'[x] = proc[x] /\ (x \in kept => x \in kept')
  BY <1>1 DEF TypeOK, Stopped
<1>5. DownInv'
  <2>1. \A x \in Services : x # s => StopOf(x) # StopOf(s)
    BY DEF StopOf, Services
  <2> QED
    BY <1>1, <1>2, <1>3, <1>4, <2>1 DEF RunInv, DownInv
<1>6. IdleInv'
  <2>1. \A x \in Services : \A rev : Sound(x, rev) => Sound(x, rev)'
    BY <1>4 DEF Sound, Runs
  <2>2. Unrefused' = Unrefused /\ Installed' = Installed
    BY <1>1 DEF Unrefused, Installed
  <2> QED
    BY <1>2, <1>3, <2>1, <2>2 DEF RunInv, IdleInv, AllSound
<1>7. InstallInv' /\ UpdateInv'
  BY <1>2, <1>3 DEF InstallInv, UpdateInv, Updating
<1> QED
  BY <1>5, <1>6, <1>7 DEF RunInv

\* What an uninstall removes runs no more.
LEMMA RemoveRun ==
  ASSUME TypeOK, OpInv, RunInv, RemoveFiles
  PROVE  RunInv'
<1> USE DEF diskVars, runVars, Most, Rest
<1>1. TakesStep("remove") /\ checkout' = NoRev /\ proc' = proc
  BY Takes DEF RemoveFiles, Removes
<1>2. /\ ~Idle /\ ~Idle' /\ op'.kind = op.kind /\ Left' = Left \ {"remove"} /\ "remove" \in Left
  BY <1>1 DEF TakesStep
<1>3. op.kind = "uninstall"
  BY <1>2 DEF OpInv, StepsOf
<1>4. \A s \in Services : StopOf(s) \notin Left
  BY <1>1 DEF TakesStep, Before, Rank, StopOf
<1>5. \A s \in Services : ~proc'[s].up /\ ~proc'[s].on
  BY <1>1, <1>2, <1>3, <1>4 DEF RunInv, DownInv
<1>6. DownInv' /\ IdleInv' /\ InstallInv' /\ UpdateInv'
  BY <1>2, <1>3, <1>5 DEF DownInv, IdleInv, InstallInv, UpdateInv, Updating, AllSound, Sound
<1> QED
  BY <1>6 DEF RunInv

\* Nor does what it has begun to remove.
LEMMA CutRun ==
  ASSUME TypeOK, OpInv, RunInv, CutRemoval
  PROVE  RunInv'
<1> USE DEF diskVars, runVars
<1>1. /\ op \in Commands /\ op.todo \in Seq(Steps) /\ op.todo # <<>> /\ Head(op.todo) = "remove"
      /\ Ordered(op.todo) /\ ~Idle /\ Idle' /\ proc' = proc
  BY DEF CutRemoval, At, OpInv, TypeOK, Commands, Idle, Ended
<1>2. "remove" \in Left /\ \A x \in Left : x = "remove" \/ Before("remove", x)
  BY <1>1, TailFacts DEF Left
<1>3. op.kind = "uninstall"
  BY <1>1, <1>2 DEF OpInv, StepsOf
<1>4. \A s \in Services : StopOf(s) \notin Left
  BY <1>2 DEF Before, Rank, StopOf
<1>5. \A s \in Services : ~proc'[s].up
  BY <1>1, <1>3, <1>4 DEF RunInv, DownInv
<1> QED
  BY <1>1, <1>5 DEF RunInv, DownInv, IdleInv, InstallInv, UpdateInv, AllSound, Sound

\* A command that has steps left has its record to write, if it is an update.
LEMMA RecordLeft ==
  ASSUME TypeOK, OpInv, ~Idle, Updating, ~op.undoing, Left # {}
  PROVE  "record" \in Left
<1>1. op.todo # <<>>
  BY DEF Left, Range
<1>2. op.todo[Len(op.todo)] = "record" /\ Len(op.todo) \in DOMAIN op.todo
  BY <1>1 DEF OpInv, TypeOK, Commands, Idle
<1> QED
  BY <1>2 DEF Left, Range

\* However a command ends, what it leaves is what the next one relies on.
LEMMA EndRun ==
  ASSUME TypeOK, OpInv, RecordInv, RunInv, ~Idle, NEW outcome, NEW step, Ended(outcome, step), record' = record,
         HalfCopied \/ UNCHANGED <<checkout, mixed>>, \A s \in Services : proc'[s] = proc[s] \/ ~proc'[s].up
  PROVE  RunInv'
<1>1. /\ Idle' /\ op \in Commands
      /\ kept \subseteq kept'
      /\ op.kind = "install" \/ op.undoing \/ record = NoRev => kept' = kept \union Owed
  BY DEF Ended, Idle, TypeOK
<1>2. HalfCopied => "copy" \in Left /\ checkout' \in {checkout, op.target}
  <2>1. ASSUME HalfCopied PROVE op.todo \in Seq(Steps) /\ op.todo # <<>> /\ Head(op.todo) = "copy"
    BY <1>1, <2>1 DEF HalfCopied, At, Commands
  <2> QED
    BY <2>1, TailFacts DEF HalfCopied, Left
<1>3. "copy" \in Left => Installing /\ ~op.undoing /\ op.target \in Revs /\ op.target # NoRev
  <2>1. "copy" \in Left => Installing /\ ~op.undoing
    BY DEF OpInv, StepsOf, Installing
  <2> QED
    BY <2>1, InstallerAssumption DEF OpInv
<1>4. checkout' = NoRev => checkout = NoRev
  BY <1>2, <1>3
<1>5. DownInv' /\ InstallInv' /\ UpdateInv'
  BY <1>1, <1>4 DEF RunInv, DownInv, InstallInv, UpdateInv
<1>6. IdleInv'
  <2> SUFFICES ASSUME Unrefused', NEW s \in Services, proc'[s].up, s \notin kept'
               PROVE  Runs(s, Installed)'
    BY DEF IdleInv, AllSound, Sound
  <2>1. proc'[s] = proc[s] /\ proc[s].up /\ s \notin kept
    BY <1>1
  <2>2. checkout # NoRev /\ checkout' # NoRev /\ Installed' = checkout'
    BY <1>4, <2>1 DEF RunInv, DownInv, Installed
  <2>3. \A rev : Sound(s, rev) => Runs(s, rev)
    BY <2>1 DEF Sound
  <2>4. SUFFICES Runs(s, checkout')
    BY <2>1, <2>2 DEF Runs
  <2>5. op.kind = "install" \/ op.undoing \/ record = NoRev => s \notin Left /\ s \notin Owed
    BY <1>1 DEF Owed, Left
  <2>6. CASE op.kind = "install"
    <3>1. "copy" \notin Left /\ Sound(s, op.target)
      BY <2>5, <2>6 DEF RunInv, InstallInv
    <3>2. checkout' = op.target
      BY <1>2, <2>6, <3>1 DEF RecordInv, Installing, OpInv, Updating
    <3> QED
      BY <2>3, <3>1, <3>2
  <2>7. CASE op.undoing
    <3>1. Updating /\ "copy" \notin Left
      BY <2>7 DEF OpInv, StepsOf
    <3>2. /\ checkout' = checkout /\ Sound(s, op.before.rev) /\ checkout \in {op.before.rev, op.target}
      BY <1>2, <2>2, <2>5, <2>7, <3>1 DEF RunInv, UpdateInv
    <3>3. CASE checkout = op.before.rev
      BY <2>3, <3>2, <3>3
    <3>4. CASE checkout = op.target /\ checkout # op.before.rev
      <4>1. "checkout" \in Left
        BY <2>7, <3>4 DEF RecordInv
      <4>2. s \notin Affected
        BY <2>5, <2>7, <3>1, <4>1 DEF RunInv, UpdateInv
      <4>3. Content[op.before.rev][s] = Content[op.target][s]
        BY <3>1, <4>2 DEF RunInv, UpdateInv
      <4> QED
        BY <2>3, <3>2, <3>4, <4>3 DEF Runs
    <3> QED
      BY <3>2, <3>3, <3>4
  <2>8. CASE Updating /\ ~op.undoing /\ "copy" \in Left
    <3>1. checkout = op.before.rev /\ Runs(s, op.before.rev) /\ checkout' \in {op.before.rev, op.target}
      BY <1>2, <2>2, <2>3, <2>8 DEF RunInv, UpdateInv, AllSound
    <3>2. record = op.before.record /\ record \in {op.before.rev, NoRev}
      BY <2>8, RecordLeft DEF RecordInv, OpInv, Installing, Updating
    <3>3. CASE record = NoRev
      <4>1. s \notin Affected
        BY <2>5, <2>8, <3>3 DEF RunInv, UpdateInv
      <4>2. Content[op.before.rev][s] = Content[op.target][s]
        BY <2>8, <4>1 DEF RunInv, UpdateInv
      <4> QED
        BY <3>1, <4>2 DEF Runs
    <3>4. CASE record = op.before.rev /\ record # NoRev
      <4>1. checkout' = record
        BY <2>2, <3>4 DEF Unrefused
      <4> QED
        BY <3>1, <3>4, <4>1
    <3> QED
      BY <3>2, <3>3, <3>4
  <2>9. CASE Updating /\ ~op.undoing /\ "copy" \notin Left
    <3>1. checkout' = op.target /\ checkout = op.target
      BY <1>2, <2>9 DEF RecordInv, Installing, Updating
    <3>2. CASE s \notin Left
      BY <2>3, <2>9, <3>1, <3>2 DEF RunInv, UpdateInv
    <3>3. CASE s \in Left
      <4>1. record # NoRev
        BY <2>5, <3>3
      <4>2. record = op.before.rev
        BY <2>9, <3>3, <4>1, RecordLeft DEF RecordInv, OpInv, Installing, Updating
      <4>3. op.target = op.before.rev
        BY <2>2, <3>1, <4>1, <4>2 DEF Unrefused
      <4> QED
        BY <2>3, <2>9, <3>1, <4>3 DEF RunInv, UpdateInv
    <3> QED
      BY <3>2, <3>3
  <2>10. CASE op.kind \in {"rotate", "uninstall"}
    <3>1. "copy" \notin Left
      BY <1>3, <2>10 DEF Installing
    <3>2. checkout' = checkout
      BY <1>2, <3>1
    <3>3. Unrefused /\ Installed = checkout
      BY <2>2, <3>2 DEF Unrefused, Installed
    <3> QED
      BY <2>3, <2>10, <3>2, <3>3 DEF RunInv, IdleInv, AllSound
  <2> QED
    BY <1>1, <2>6, <2>7, <2>8, <2>9, <2>10 DEF Commands, Kinds, Updating
<1> QED
  BY <1>5, <1>6 DEF RunInv

\* An update that turns to undoing means to restart all that it may have changed.
LEMMA UndoRun ==
  ASSUME TypeOK, OpInv, RecordInv, RunInv, Undoes, kept' = kept,
         HalfCopied \/ UNCHANGED <<checkout, mixed>>, \A s \in Services : proc'[s] = proc[s] \/ ~proc'[s].up
  PROVE  RunInv'
<1>1. /\ ~Idle /\ ~Idle' /\ Updating /\ Updating' /\ ~op.undoing /\ op'.undoing
      /\ op'.kind = op.kind /\ op'.target = op.target /\ op'.before = op.before /\ Affected' = Affected
      /\ Left' = {"files", "checkout"} \union RestartSteps(op.components)
  BY DEF Undoes, Affected, Updating
<1>2. HalfCopied => "copy" \in Left /\ checkout' \in {checkout, op.target}
  <2>1. ASSUME HalfCopied PROVE op.todo \in Seq(Steps) /\ op.todo # <<>> /\ Head(op.todo) = "copy"
    BY <2>1 DEF HalfCopied, At, Undoes, Commands
  <2> QED
    BY <2>1, TailFacts DEF HalfCopied, Left
<1>3. op.target \in Revs /\ op.target # NoRev /\ op.before.rev # NoRev
  BY <1>1, InstallerAssumption DEF OpInv, Installing, Updating
<1>4. checkout' \in {checkout, op.target} /\ (checkout' = NoRev => checkout = NoRev)
  BY <1>2, <1>3
<1>5. \A s \in Services : \A rev : Sound(s, rev) => Sound(s, rev)'
  BY DEF Sound, Runs
<1>6. DownInv' /\ IdleInv' /\ InstallInv'
  BY <1>1, <1>4 DEF RunInv, DownInv, IdleInv, InstallInv, Updating
<1>7. /\ \A s \in Services \ Affected : Content[op.before.rev][s] = Content[op.target][s]
      /\ checkout \in {op.before.rev, op.target, NoRev} /\ (checkout = NoRev => op.before.record # NoRev)
      /\ \A s \in Services : Sound(s, op.before.rev) \/ Sound(s, op.target)
  BY <1>1 DEF RunInv, UpdateInv
<1>8. Affected \subseteq Left'
  BY <1>1 DEF Affected
<1>9. \A s \in Services \ Left' : Sound(s, op.before.rev)'
  <2>1. \A s \in Services \ Left' : Sound(s, op.before.rev)
    BY <1>7, <1>8 DEF Sound, Runs
  <2> QED
    BY <1>1, <1>5, <2>1
<1>10. \A s \in Services : Sound(s, op.before.rev)' \/ Sound(s, op.target)'
  BY <1>1, <1>5, <1>7
<1>11. UpdateInv'
  BY <1>1, <1>4, <1>7, <1>8, <1>9, <1>10 DEF UpdateInv
<1> QED
  BY <1>6, <1>11 DEF RunInv

\* systemd starts services in the middle of any command.
LEMMA SystemdRun ==
  ASSUME TypeOK, OpInv, RecordInv, RunInv, NEW s \in Services, SystemdRestarts(s)
  PROVE  RunInv'
<1> USE DEF diskVars, runVars, Most, Rest
<1>1. /\ checkout # NoRev /\ proc[s].on /\ Start(s) /\ UNCHANGED <<checkout, record, op>>
  BY DEF SystemdRestarts, Cannot
<1>2. /\ Idle' = Idle /\ Updating' = Updating /\ Affected' = Affected /\ Left' = Left /\ Owed' = Owed
      /\ Unrefused' = Unrefused /\ Installed' = Installed
  BY <1>1 DEF Idle, Updating, Affected, Left, Owed, Unrefused, Installed
<1>3. /\ \A x \in Services : \A rev : x # s => (Sound(x, rev) => Sound(x, rev)') /\ proc'[x] = proc[x]
      /\ \A rev : Content[checkout][s] = Content[rev][s] => Sound(s, rev)'
  BY <1>1, StartSound
<1>4. DownInv'
  BY <1>1, <1>2, <1>3 DEF RunInv, DownInv
<1>5. IdleInv'
  <2> SUFFICES ASSUME Idle \/ op.kind \in {"rotate", "uninstall"}, Unrefused PROVE AllSound(Installed)'
    BY <1>1, <1>2 DEF IdleInv
  <2>1. AllSound(checkout) /\ Installed' = checkout
    BY <1>1, <1>2 DEF RunInv, IdleInv, Installed
  <2> QED
    BY <1>3, <2>1 DEF AllSound
<1>6. InstallInv'
  <2> SUFFICES ASSUME ~Idle, op.kind = "install", "copy" \notin Left
               PROVE  \A x \in Services \ Owed : Sound(x, op.target)'
    BY <1>1, <1>2 DEF RunInv, InstallInv
  <2>1. checkout = op.target
    BY DEF RecordInv, OpInv, Installing, Updating
  <2> QED
    BY <1>1, <1>3, <2>1 DEF RunInv, InstallInv
<1>7. UpdateInv'
  <2> SUFFICES ASSUME ~Idle, Updating PROVE UpdateInv'
    BY <1>2 DEF UpdateInv
  <2>1. \A x \in Services : Sound(x, op.before.rev)' \/ Sound(x, op.target)'
    <3>1. checkout \in {op.before.rev, op.target}
      BY <1>1 DEF RunInv, UpdateInv
    <3>2. Sound(s, op.before.rev)' \/ Sound(s, op.target)'
      BY <1>1, <1>3, <3>1
    <3> QED
      BY <1>1, <1>3, <3>2 DEF RunInv, UpdateInv
  <2>2. ASSUME op.undoing PROVE \A x \in Services \ Left : Sound(x, op.before.rev)'
    <3>1. s \notin Left => Content[checkout][s] = Content[op.before.rev][s]
      <4>1. CASE "checkout" \in Left
        BY <1>1, <2>2, <4>1 DEF RunInv, UpdateInv
      <4>2. CASE "checkout" \notin Left
        BY <2>2, <4>2 DEF RecordInv
      <4> QED
        BY <4>1, <4>2
    <3> QED
      BY <1>1, <1>3, <2>2, <3>1 DEF RunInv, UpdateInv
  <2>3. ASSUME ~op.undoing, "copy" \in Left PROVE \A x \in Services : Sound(x, op.before.rev)'
    <3>1. checkout = op.before.rev
      BY <1>1, <2>3 DEF RunInv, UpdateInv
    <3> QED
      BY <1>1, <1>3, <2>3, <3>1 DEF RunInv, UpdateInv, AllSound
  <2>4. ASSUME ~op.undoing, "copy" \notin Left PROVE \A x \in Services \ Left : Sound(x, op.target)'
    <3>1. checkout = op.target
      BY <2>4 DEF RecordInv, Installing, Updating
    <3> QED
      BY <1>1, <1>3, <2>4, <3>1 DEF RunInv, UpdateInv
  <2>5. ~op.undoing /\ "copy" \in Left => AllSound(op.before.rev)'
    BY <1>1, <2>3 DEF AllSound
  <2> QED
    BY <1>1, <1>2, <2>1, <2>2, <2>4, <2>5 DEF RunInv, UpdateInv
<1> QED
  BY <1>4, <1>5, <1>6, <1>7 DEF RunInv

\* Each step keeps RunInv.
LEMMA StepRun ==
  ASSUME TypeOK, OpInv, RecordInv, RunInv, [Next]_vars
  PROVE  RunInv'
<1> USE DEF diskVars, runVars, Most, Rest
<1>1. CASE \/ WriteEnvironment \/ RotateEnvironment \/ InstallPlugin \/ VerifyPlugin \/ RestartGateway
           \/ StopGateway \/ RemovePlugin \/ StartGateway
  <2>1. UNCHANGED <<checkout, record, kept, proc>>
    BY <1>1 DEF WriteEnvironment, RotateEnvironment, InstallPlugin, VerifyPlugin, RestartGateway, StopGateway,
                RemovePlugin, StartGateway
  <2>2. \E step : /\ TakesStep(step)
                  /\ step \notin {"copy", "checkout", "startBridge", "startApi", "bridge", "api", "stopBridge",
                                  "stopApi"}
    BY <1>1, Takes
  <2> QED
    BY <2>1, <2>2, OtherRun
<1>2. CASE InstallUnits
  <2>1. TakesStep("units") /\ UNCHANGED <<checkout, record, kept>>
    BY <1>2, Takes DEF InstallUnits
  <2>2. \A s \in Services : proc'[s].up = proc[s].up /\ proc'[s].rev = proc[s].rev
    BY <1>2 DEF InstallUnits, TypeOK
  <2>3. op.kind # "uninstall"
    BY <2>1 DEF TakesStep, OpInv, StepsOf
  <2> QED
    BY <2>1, <2>2, <2>3, OtherRun
<1>3. CASE WriteRecord \/ RestoreFiles
  <2>1. /\ TakesStep("record") \/ TakesStep("files")
        /\ UNCHANGED <<checkout, kept, proc>>
    BY <1>3, Takes DEF WriteRecord, RestoreFiles
  <2>2. Installing
    BY <2>1 DEF TakesStep, OpInv, StepsOf, Installing, Updating
  <2> QED
    BY <2>1, <2>2, OtherRun
<1>4. CASE Finish \/ Kill
  <2>1. /\ ~Idle /\ record' = record /\ proc' = proc /\ (HalfCopied \/ UNCHANGED <<checkout, mixed>>)
        /\ \E outcome, step : Ended(outcome, step)
    BY <1>4 DEF Finish, Kill
  <2> QED
    BY <2>1, EndRun
<1>5. CASE Fail
  <2>1. /\ ~Idle /\ record' = record /\ (HalfCopied \/ UNCHANGED <<checkout, mixed>>)
        /\ \A s \in Services : proc'[s] = proc[s] \/ ~proc'[s].up
    <3>1. PICK step \in Steps : Spoiled(step)
      BY <1>5 DEF Fail
    <3> QED
      BY <1>5, <3>1 DEF Fail, Spoiled, Down, TypeOK
  <2>2. CASE Undoes /\ kept' = kept
    BY <2>1, <2>2, UndoRun
  <2>3. ASSUME NEW outcome, NEW step, Ended(outcome, step) PROVE RunInv'
    BY <2>1, <2>3, EndRun
  <2> QED
    BY <1>5, <2>2, <2>3, Undoing
<1>6. CASE UNCHANGED vars
  <2>1. UNCHANGED <<checkout, record, op, proc, kept>>
    BY <1>6 DEF vars
  <2>2. /\ Idle' = Idle /\ Updating' = Updating /\ Affected' = Affected /\ Left' = Left /\ Owed' = Owed
        /\ Unrefused' = Unrefused /\ Installed' = Installed
        /\ \A s \in Services : \A rev : Sound(s, rev)' = Sound(s, rev)
    BY <2>1 DEF Idle, Updating, Affected, Left, Owed, Unrefused, Installed, Sound, Runs
  <2> QED
    BY <2>1, <2>2 DEF RunInv, DownInv, IdleInv, InstallInv, UpdateInv, AllSound
<1> QED
  BY <1>1, <1>2, <1>3, <1>4, <1>5, <1>6, BeginRun, CopyRun, RestoreRun, RestartRun, EnableRun, StopRun, RemoveRun,
     CutRun, SystemdRun DEF Next, Begins

\* RunInv: at each point of an install, an update and its undoing, every service that does
\* not yet run what the command leaves is one that it has still to start or restart.
THEOREM RunInvariant == Spec => []RunInv
<1>1. Init => RunInv
  BY DEF Init, RunInv, DownInv, IdleInv, InstallInv, UpdateInv, AllSound, Sound, Idle, Stopped
<1> QED
  BY <1>1, StepRun, TypeCorrect, OpInvariant, RecordInvariant, PTL DEF Spec

\* InstalledIsRunning: a command that passes leaves no service on other code than the
\* checkout's but those that are known to be left behind.
THEOREM RunningTheorem == Spec => []InstalledIsRunning
<1>1. RunInv /\ RecordInv => InstalledIsRunning
  <2> SUFFICES ASSUME RunInv, RecordInv, EndedWell({"install", "update", "rollback"}),
                      NEW s \in Services, s \notin kept, proc[s].up
               PROVE  Runs(s, checkout)
    BY DEF InstalledIsRunning
  <2>1. Idle /\ record = checkout
    BY DEF EndedWell, RecordInv, RecordIsCheckout
  <2>2. AllSound(Installed) /\ Installed = checkout
    BY <2>1 DEF RunInv, IdleInv, Unrefused, Installed
  <2> QED
    BY <2>2 DEF AllSound, Sound
<1> QED
  BY <1>1, RunInvariant, RecordInvariant, PTL

=============================================================================
