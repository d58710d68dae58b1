----------------------------- MODULE Installer -----------------------------
(***************************************************************************)
(* The commands of hermes-control that change a host: install, update,     *)
(* rollback, rotate-token and uninstall.  Each is a sequence of commands   *)
(* that may fail or be cut off; update undoes what it can.  Meanwhile      *)
(* systemd keeps starting the services from whatever is on the disk.       *)
(*                                                                         *)
(* A revision is its contents in a few areas; the virtual environment, the *)
(* modes of files and the database are left out.  Refusals that change     *)
(* nothing (preflight, a dirty checkout, a dry run) are left out as well.  *)
(***************************************************************************)
EXTENDS Naturals, Sequences, Functions

CONSTANTS
  Revs,               \* revisions of the source checkout
  Content,            \* what each of them has in each area
  NoRev,
  MaxOps,             \* bound: commands run by the operator
  MaxTroubles         \* bound: failing and killed steps

\* "entry" is the plugin's own code, the __init__.py at the root of the repository.
Areas == {"api", "bridge", "plugin", "entry"}
Services == {"bridge", "api"}

ASSUME InstallerAssumption ==
  /\ Content \in [Revs -> [Areas -> Nat]]
  /\ NoRev \notin Revs
  /\ {MaxOps, MaxTroubles} \subseteq Nat

VARIABLES
  checkout,     \* the revision in the install directory, the one Git has for it
  mixed,        \* the revisions some of whose files a copy that was cut off has left there
  record,       \* the revision in install-record.json
  units,        \* the revision of the units in /etc/systemd/system
  plugin,       \* the revision Hermes has installed the plugin from
  env,          \* control-api.env: both tokens (0: no file)
  proc,         \* the services: what each was started from, and whether systemd keeps it up
  gateway,      \* hermes-gateway, and the plugin it has loaded
  op,           \* the command under way
  last,         \* how the last one ended
  held,         \* the API token the operator has been told
  tokens,       \* how many tokens have been generated
  killed,       \* the kinds of commands that were killed
  kept,         \* history: the services known to be left behind on other code
  ops,
  troubles

diskVars == <<checkout, mixed, record, units, plugin>>
runVars == <<proc, gateway>>
vars == <<diskVars, env, runVars, op, last, held, tokens, killed, kept, ops, troubles>>

Kinds == {"install", "update", "rollback", "rotate", "uninstall"}
Steps ==
  {"environment", "rotate", "copy", "units", "startBridge", "startApi", "plugin", "verify", "bridge", "api",
   "gateway", "record", "files", "checkout", "stopBridge", "stopApi", "stopGateway", "removePlugin",
   "startGateway", "remove"}
NoOp == [kind |-> "none"]
Down == [up |-> FALSE, on |-> TRUE, rev |-> NoRev, token |-> 0]
Stopped == [up |-> FALSE, on |-> FALSE, rev |-> NoRev, token |-> 0]
Idle == op = NoOp

\* _installed_revision, of a checkout and a record that do not contradict each other.
Installed == IF checkout # NoRev THEN checkout ELSE record

\* changed_components: the plugin's code is not among the paths it knows.
Changed(current, target) ==
  IF current = target
    THEN {"api", "bridge", "plugin"}
    ELSE {a \in {"api", "bridge", "plugin"} : Content[current][a] # Content[target][a]}

\* Mutant: a new bridge is taken not to concern the API.
RestartsOne(components) ==
  (IF "bridge" \in components THEN <<"bridge">> ELSE IF "api" \in components THEN <<"api">> ELSE <<>>)
  \o (IF "plugin" \in components THEN <<"gateway">> ELSE <<>>)

\* restart_services_for_components
Restarts(components) ==
  (IF "bridge" \in components THEN <<"bridge">> ELSE <<>>)
  \o (IF components \intersect Services # {} THEN <<"api">> ELSE <<>>)
  \o (IF "plugin" \in components THEN <<"gateway">> ELSE <<>>)

\* A service runs what it finds in the install directory: the checkout's code or,
\* after a copy that was cut off, another's.
Started(rev) == [up |-> TRUE, on |-> TRUE, rev |-> rev, token |-> env.bridge]
Start(s) ==
  \E rev \in {checkout} \union mixed :
    /\ proc' = [proc EXCEPT ![s] = Started(rev)]
    /\ kept' = IF rev = checkout THEN kept \ {s} ELSE kept \union {s}

\* A command begins, with the steps it will take.
Begin(kind, target, components, scope, todo) ==
  /\ Idle
  /\ ops < MaxOps
  /\ ops' = ops + 1
  /\ op' = [kind |-> kind, target |-> target, components |-> components, scope |-> scope, todo |-> todo,
            undoing |-> FALSE, created |-> FALSE, gateway |-> gateway.up,
            before |-> [rev |-> Installed, record |-> record, env |-> env]]
  /\ UNCHANGED <<diskVars, env, runVars, last, held, tokens, killed, kept, troubles>>

\* The step a command takes next; taking it removes it.
At(step) == ~Idle /\ op.todo # <<>> /\ Head(op.todo) = step
StartOf(s) == IF s = "bridge" THEN "startBridge" ELSE "startApi"
StopOf(s) == IF s = "bridge" THEN "stopBridge" ELSE "stopApi"

\* systemctl knows no service without its unit, and starts none without its code;
\* Git checks nothing out where it has no repository, and may refuse to over the files
\* of another revision.
Cannot(step) ==
  \/ (\E s \in Services : step \in {s, StartOf(s)}) /\ (units = NoRev \/ checkout = NoRev)
  \/ step \in {StopOf(s) : s \in Services} /\ units = NoRev
  \/ step = "checkout" /\ (checkout = NoRev \/ (checkout # op.before.rev /\ mixed # {}))

Taken == op' = [op EXCEPT !.todo = Tail(@)]
Most == <<last, held, killed, ops, troubles>>
Rest == <<Most, kept>>

-----------------------------------------------------------------------------
(* The commands.                                                           *)

\* install: the services are enabled and started, the gateway is restarted.
Install(target) ==
  Begin("install", target, {"api", "bridge", "plugin"}, {},
        <<"environment", "copy", "units", "startBridge", "startApi", "plugin", "gateway", "verify", "record">>)

\* The refusals of update and rollback.
Refused(kind) ==
  \/ checkout # NoRev /\ record # NoRev /\ checkout # record
  \/ Installed = NoRev
  \/ kind = "rollback" /\ record = NoRev

\* update and rollback.
Update(kind, target) ==
  /\ ~Refused(kind)
  /\ Begin(kind, target, Changed(Installed, target), {},
           <<"environment", "copy", "units", "plugin", "verify">>
           \o Restarts(Changed(Installed, target)) \o <<"record">>)

\* Mutant: only the API is restarted, whatever token is new.
RotateForApi(scope) ==
  /\ env.api > 0
  /\ Begin("rotate", NoRev, {}, scope, <<"rotate", "api">>)

\* rotate-token: the services read the environment when they start.
Rotate(scope) ==
  /\ env.api > 0
  /\ Begin("rotate", NoRev, {}, scope,
           <<"rotate">> \o (IF "bridge" \in scope THEN <<"bridge">> ELSE <<>>) \o <<"api">>)

\* uninstall: scope says what is purged.
Uninstall(scope) ==
  Begin("uninstall", NoRev, {}, scope,
        <<"stopBridge", "stopApi", "stopGateway", "removePlugin", "startGateway", "remove">>)

-----------------------------------------------------------------------------
(* The steps.                                                              *)

\* write_environment keeps the tokens it finds; the other settings are left out.
WriteEnvironment ==
  /\ At("environment")
  /\ \/ env.api > 0 /\ UNCHANGED <<env, tokens>>
     \/ /\ env.api = 0
        /\ env' = [api |-> tokens + 1, bridge |-> tokens + 1]
        /\ tokens' = tokens + 1
  /\ op' = [op EXCEPT !.todo = Tail(@), !.created = env.api = 0]
  /\ UNCHANGED <<diskVars, runVars, Rest>>

\* The same with new tokens of the scope.
RotateEnvironment ==
  /\ At("rotate")
  /\ tokens' = tokens + 1
  /\ env' = [api |-> IF "api" \in op.scope THEN tokens' ELSE env.api,
             bridge |-> IF "bridge" \in op.scope THEN tokens' ELSE env.bridge]
  /\ Taken
  /\ UNCHANGED <<diskVars, runVars, Rest>>

\* The files, .git among them, are copied over the install directory.
CopyCheckout ==
  /\ At("copy")
  /\ checkout' = op.target
  /\ mixed' = {}
  /\ Taken
  /\ UNCHANGED <<record, units, plugin, env, runVars, tokens, Rest>>

\* The units are installed, systemd reads them, and the services are enabled: the
\* next boot starts them.
InstallUnits ==
  /\ At("units")
  /\ units' = op.target
  /\ proc' = [s \in Services |-> [proc[s] EXCEPT !.on = TRUE]]
  /\ Taken
  /\ UNCHANGED <<checkout, mixed, record, plugin, env, gateway, tokens, Rest>>

InstallPlugin ==
  /\ At("plugin")
  /\ plugin' = op.target
  /\ Taken
  /\ UNCHANGED <<checkout, mixed, record, units, env, runVars, tokens, Rest>>

\* The plugin's tool is registered; update prints an API token it has generated.
VerifyPlugin ==
  /\ At("verify")
  /\ Taken
  /\ held' = IF op.created /\ op.kind # "install" THEN env.api ELSE held
  /\ UNCHANGED <<diskVars, env, runVars, last, tokens, killed, kept, ops, troubles>>

\* systemctl enable --now starts a service that does not run.
EnableNow(s) ==
  /\ At(StartOf(s))
  /\ ~Cannot(StartOf(s))
  /\ IF proc[s].up THEN kept' = kept \union {s} /\ UNCHANGED proc ELSE Start(s)
  /\ Taken
  /\ UNCHANGED <<diskVars, env, gateway, tokens, Most>>

\* systemctl restart, and the service is active.
RestartService(s) ==
  /\ At(s)
  /\ ~Cannot(s)
  /\ Start(s)
  /\ Taken
  /\ UNCHANGED <<diskVars, env, gateway, tokens, Most>>

\* A gateway that runs is restarted.
RestartGateway ==
  /\ At("gateway")
  /\ gateway' = IF gateway.up THEN [gateway EXCEPT !.rev = plugin] ELSE gateway
  /\ Taken
  /\ UNCHANGED <<diskVars, env, proc, tokens, Rest>>

WriteRecord ==
  /\ At("record")
  /\ record' = op.target
  /\ Taken
  /\ UNCHANGED <<checkout, mixed, units, plugin, env, runVars, tokens, Rest>>

\* restore_managed_files: the environment and the record, not the units in use.
RestoreFiles ==
  /\ At("files")
  /\ env' = op.before.env
  /\ record' = op.before.record
  /\ held' = IF op.before.env.api = 0 THEN 0 ELSE held
  /\ Taken
  /\ UNCHANGED <<checkout, mixed, units, plugin, runVars, last, tokens, killed, kept, ops, troubles>>

\* Mutant: the files of the target stay.
RestoreCheckoutNot ==
  /\ At("checkout")
  /\ Taken
  /\ UNCHANGED <<diskVars, env, runVars, tokens, Rest>>

\* git checkout: where it finds files of another revision, it may refuse, or leave
\* them alone.
RestoreCheckout ==
  /\ At("checkout")
  /\ checkout # NoRev
  /\ checkout' = op.before.rev
  /\ Taken
  /\ UNCHANGED <<mixed, record, units, plugin, env, runVars, tokens, Rest>>

\* A service is stopped and disabled; a failing disable is left out.
StopService(s) ==
  /\ At(StopOf(s))
  /\ ~Cannot(StopOf(s))
  /\ proc' = [proc EXCEPT ![s] = Stopped]
  /\ kept' = kept \ {s}
  /\ Taken
  /\ UNCHANGED <<diskVars, env, gateway, tokens, Most>>

StopGateway ==
  /\ At("stopGateway")
  /\ gateway' = [gateway EXCEPT !.up = FALSE]
  /\ Taken
  /\ UNCHANGED <<diskVars, env, proc, tokens, Rest>>

RemovePlugin ==
  /\ At("removePlugin")
  /\ plugin' = NoRev
  /\ Taken
  /\ UNCHANGED <<checkout, mixed, record, units, env, runVars, tokens, Rest>>

\* A gateway that ran before is started.
StartGateway ==
  /\ At("startGateway")
  /\ gateway' = IF op.gateway THEN [up |-> TRUE, rev |-> plugin] ELSE gateway
  /\ Taken
  /\ UNCHANGED <<diskVars, env, proc, tokens, Rest>>

\* _remove_path, of the install directory, the units, the configuration and the state.
Removes(paths) ==
  /\ checkout' = IF "code" \in paths THEN NoRev ELSE checkout
  /\ mixed' = IF "code" \in paths THEN {} ELSE mixed
  /\ units' = IF "units" \in paths THEN NoRev ELSE units
  /\ env' = IF "config" \in paths THEN [api |-> 0, bridge |-> 0] ELSE env
  /\ held' = IF "config" \in paths THEN 0 ELSE held
  /\ record' = IF "state" \in paths THEN NoRev ELSE record

RemoveFiles ==
  /\ At("remove")
  /\ Removes({"code", "units"} \union op.scope)
  /\ Taken
  /\ UNCHANGED <<plugin, runVars, last, tokens, killed, kept, ops, troubles>>

-----------------------------------------------------------------------------
(* The end of a command.                                                   *)

\* The services the command has still to start.
Owed == {s \in Services : {s, StartOf(s)} \intersect Range(op.todo) # {}}

\* A command ends, and leaves behind what it owes.  Not so an update that is killed
\* before it undoes: if it has touched the checkout, the record contradicts it, and no
\* update follows before an install does.
Ended(outcome, step) ==
  /\ op' = NoOp
  /\ last' = [kind |-> op.kind, scope |-> op.scope, outcome |-> outcome, step |-> step]
  /\ kept' = IF op.kind = "install" \/ op.undoing \/ record = NoRev THEN kept \union Owed ELSE kept

\* All steps are done: install and rotate-token print a new API token.
Finish ==
  /\ ~Idle
  /\ op.todo = <<>>
  /\ Ended(IF op.undoing THEN "restored" ELSE "pass", "none")
  /\ held' = IF (op.kind = "install" /\ op.created) \/ "api" \in op.scope THEN env.api ELSE held
  /\ UNCHANGED <<diskVars, env, runVars, tokens, killed, ops, troubles>>

\* Mutant: a plugin that cannot be removed leaves the gateway stopped.
SpoiledAndStopped(step) ==
  /\ UNCHANGED <<checkout, mixed, units, proc>>
  /\ gateway' = IF step \in {"gateway", "startGateway", "stopGateway"} THEN [gateway EXCEPT !.up = FALSE] ELSE gateway

\* A copy that is half done: it has come to the files of .git or not.
HalfCopied ==
  /\ At("copy")
  /\ \/ mixed' = mixed \union {op.target} /\ UNCHANGED checkout
     \/ checkout' = op.target /\ mixed' = (mixed \union {checkout}) \ {NoRev}

\* What a failing step leaves behind: units may be there although they could not be
\* enabled, a service or gateway that does not start is down, and one that could not be
\* stopped is up or down.
Spoiled(step) ==
  /\ \/ UNCHANGED <<checkout, mixed, units>>
     \/ HalfCopied /\ UNCHANGED units
     \/ step = "units" /\ units' = op.target /\ UNCHANGED <<checkout, mixed>>
  /\ \/ proc' = [s \in Services |->
          IF step \in {s, StartOf(s)} \/ (step = StopOf(s) /\ proc[s].up) THEN Down ELSE proc[s]]
     \/ step \in {StopOf(s) : s \in Services} /\ UNCHANGED proc
  /\ \/ gateway' = CASE step \in {"gateway", "startGateway", "stopGateway"} -> [gateway EXCEPT !.up = FALSE]
                     [] step = "removePlugin" /\ op.gateway -> [up |-> TRUE, rev |-> plugin]
                     [] OTHER -> gateway
     \/ step = "stopGateway" /\ UNCHANGED gateway

\* The step a failure is put down to: the next one, or the start of the gateway when
\* that fails too after the plugin could not be removed.
Failing(step) ==
  \/ step = Head(op.todo)
  \/ step = "startGateway" /\ Head(op.todo) = "removePlugin" /\ op.gateway

\* A step fails.  update undoes what it did, and restarts what it would have
\* restarted; rotate-token restores the environment; the others stop there.
Fail ==
  /\ ~Idle
  /\ op.todo # <<>>
  /\ \/ Cannot(Head(op.todo)) /\ UNCHANGED troubles
     \/ troubles < MaxTroubles /\ troubles' = troubles + 1
  /\ \E step \in Steps :
         /\ Failing(step)
         /\ step \notin {"environment", "rotate", "record", "files", "remove"}
         /\ Spoiled(step)
         /\ \/ /\ op.kind \in {"update", "rollback"} /\ ~op.undoing
               /\ op' = [op EXCEPT !.undoing = TRUE,
                                   !.todo = <<"files", "checkout">> \o Restarts(op.components)]
               /\ UNCHANGED <<env, last, kept>>
            \/ op.undoing /\ Ended(IF step = "checkout" THEN "failed" ELSE "restored", step) /\ UNCHANGED env
            \/ op.kind = "rotate" /\ Ended("failed", step) /\ env' = op.before.env
            \/ op.kind \in {"install", "uninstall"} /\ Ended("failed", step) /\ UNCHANGED env
  /\ UNCHANGED <<record, plugin, held, tokens, killed, ops>>

\* The removal fails or is cut off on the way: what came before is gone, and a
\* directory that was being removed counts as gone or not.
CutRemoval ==
  /\ At("remove")
  /\ troubles < MaxTroubles
  /\ troubles' = troubles + 1
  /\ \E paths \in {{}, {"code"}, {"code", "units"}, {"code", "units", "config"},
                   {"code", "units", "config", "state"}} :
       Removes(paths \intersect ({"code", "units"} \union op.scope))
  /\ \/ Ended("failed", "remove") /\ UNCHANGED killed
     \/ Ended("killed", "none") /\ killed' = killed \union {op.kind}
  /\ UNCHANGED <<plugin, runVars, tokens, ops>>

\* The command is killed, or the host goes down.
Kill ==
  /\ ~Idle
  /\ troubles < MaxTroubles
  /\ troubles' = troubles + 1
  /\ killed' = killed \union {op.kind}
  /\ Ended("killed", "none")
  /\ HalfCopied \/ UNCHANGED <<checkout, mixed>>
  /\ UNCHANGED <<record, units, plugin, env, runVars, held, tokens, ops>>

\* systemd starts a service that has ended, or that failed to start, from what is on
\* the disk; one that was stopped and disabled stays down.
SystemdRestarts(s) ==
  /\ ~Cannot(s)
  /\ proc[s].on
  /\ Start(s)
  /\ UNCHANGED <<diskVars, env, gateway, op, tokens, Most>>

Init ==
  /\ checkout = NoRev /\ mixed = {} /\ record = NoRev /\ units = NoRev /\ plugin = NoRev
  /\ env = [api |-> 0, bridge |-> 0]
  /\ proc = [s \in Services |-> Stopped]
  /\ gateway \in [up : BOOLEAN, rev : {NoRev}]
  /\ op = NoOp
  /\ last = [kind |-> "none", scope |-> {}, outcome |-> "none", step |-> "none"]
  /\ held = 0
  /\ tokens = 0
  /\ killed = {}
  /\ kept = {}
  /\ ops = 0
  /\ troubles = 0

Next ==
  \/ \E r \in Revs : Install(r) \/ \E kind \in {"update", "rollback"} : Update(kind, r)
  \/ \E scope \in {{"api"}, {"bridge"}, {"api", "bridge"}} : Rotate(scope)
  \/ \E scope \in SUBSET {"config", "state"} : Uninstall(scope)
  \/ WriteEnvironment \/ RotateEnvironment \/ CopyCheckout \/ InstallUnits \/ InstallPlugin \/ VerifyPlugin
  \/ RestartGateway \/ WriteRecord \/ RestoreFiles \/ RestoreCheckout
  \/ StopGateway \/ RemovePlugin \/ StartGateway \/ RemoveFiles
  \/ \E s \in Services : EnableNow(s) \/ RestartService(s) \/ StopService(s) \/ SystemdRestarts(s)
  \/ Finish \/ Fail \/ CutRemoval \/ Kill

Spec == Init /\ [][Next]_vars

-----------------------------------------------------------------------------
(* Properties.                                                             *)

Environments == [api : 0 .. tokens, bridge : 0 .. tokens]
Commands ==
  [kind : Kinds, target : Revs \union {NoRev}, components : SUBSET {"api", "bridge", "plugin"},
   scope : SUBSET {"api", "bridge", "config", "state"}, todo : Seq(Steps),
   undoing : BOOLEAN, created : BOOLEAN, gateway : BOOLEAN,
   before : [rev : Revs \union {NoRev}, record : Revs \union {NoRev}, env : Environments]]

\* Every variable holds a value of its kind, and files and services come from
\* revisions that were installed.
TypeOK ==
  /\ {checkout, record, units, plugin} \subseteq Revs \union {NoRev}
  /\ env \in Environments
  /\ mixed \subseteq Revs
  /\ proc \in [Services -> [up : BOOLEAN, on : BOOLEAN, rev : Revs \union {NoRev}, token : 0 .. tokens]]
  /\ gateway \in [up : BOOLEAN, rev : Revs \union {NoRev}]
  /\ op = NoOp \/ op \in Commands
  /\ last.outcome \in {"none", "pass", "restored", "failed", "killed"}
  /\ held \in 0 .. tokens
  /\ tokens \in Nat
  /\ killed \subseteq Kinds
  /\ kept \subseteq Services
  /\ ops \in 0 .. MaxOps
  /\ troubles \in 0 .. MaxTroubles
  /\ \A s \in Services : proc[s].up => proc[s].rev # NoRev
  /\ ~Idle /\ op.target = NoRev => "copy" \notin Range(op.todo)

EndedWell(kinds) == Idle /\ last.kind \in kinds /\ last.outcome = "pass"

Runs(s, rev) == Content[proc[s].rev][s] = Content[rev][s]

\* A command that installs a revision and reports success leaves no service running
\* other code than that revision has for it, although an update restarts only what
\* it takes to have changed, and earlier commands have failed or were killed.  Only
\* three kinds of service keep other code: one that an install found running, one
\* that a command was cut off before it restarted it (an install, the undoing of an
\* update, or any when there was no record yet), and one that was started on the
\* files of a copy that was cut off.
InstalledIsRunning ==
  EndedWell({"install", "update", "rollback"}) =>
    \A s \in Services \ kept : proc[s].up => Runs(s, checkout)

\* The record names what is installed after every command that says so, and also
\* after one that says that it has restored the previous revision, unless there was
\* no record before.
RecordIsCheckout ==
  Idle /\ last.kind \in {"install", "update", "rollback"} =>
    /\ last.outcome = "pass" => record = checkout
    /\ last.outcome = "restored" => record \in {checkout, NoRev}

\* The token the operator was told is the one the API will ask for, as long as the
\* environment it was told for has not been removed or undone and whatever else has
\* failed since; only a rotation that was killed may break it.
TokenIsHeld ==
  Idle /\ held # 0 /\ env.api > 0 /\ "rotate" \notin killed => held = env.api

\* A rotation of the bridge's token that reports success leaves no service running with
\* another: both have been started since it was written, and whatever systemd has started
\* meanwhile, and whatever earlier rotations left behind that failed between the two.
RotatedIsInForce ==
  EndedWell({"rotate"}) /\ "bridge" \in last.scope =>
    \A s \in Services : proc[s].up => proc[s].token = env.bridge

\* What the operator was told, what the environment says and, after a rotation that
\* reports success, what the services run with agree.
TokensAgree == TokenIsHeld /\ RotatedIsInForce

\* No command leaves a gateway stopped that ran before, unless stopping or starting it
\* failed or the command was killed.
GatewayServes ==
  [][~Idle /\ op'.kind = "none" /\ op.gateway /\ last'.outcome # "killed"
       => gateway'.up \/ last'.step \in {"gateway", "startGateway", "stopGateway"} \/ op.undoing]_vars

=============================================================================
