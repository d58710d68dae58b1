------------------------- MODULE ManagedWorkspace -------------------------
(***************************************************************************)
(* ManagedWorkspaceStore and the recovery plan: workspaces are directories *)
(* with a manifest, projects are rows of Hermes' own store, and a request  *)
(* moves through both in several steps.  Requests run in the threads of    *)
(* the API, so that they interleave; the process may die between any two   *)
(* steps; and Hermes' store may be lost, which the recovery plan is for.   *)
(* Writing a manifest is one step (write and rename).                      *)
(***************************************************************************)
EXTENDS Naturals, FiniteSets

CONSTANTS
  Slugs,
  Workers,            \* threads that serve requests
  UniqueSlugs,        \* whether Hermes' store refuses a second row of a slug
  MaxRequests,        \* bound: requests that change something
  MaxTroubles         \* bound: how often the API process dies or Hermes' store is lost

ASSUME ManagedAssumption ==
  /\ UniqueSlugs \in BOOLEAN
  /\ MaxRequests \in Nat
  /\ MaxTroubles \in Nat

VARIABLES
  manifest,     \* of each workspace; its registration is "absent" without a workspace
  repo,         \* the directory repo of the workspace
  leaked,       \* whether a staging directory with a manifest was left behind
  native,       \* how many rows Hermes' store has for the slug in its workspace
  foreign,      \* how many it has for the slug whose folders are elsewhere
  nativeRepo,   \* whether repo is among the folders of the project
  pc,           \* where the request of a worker stands
  target,       \* the slug it is about
  copy,         \* the manifest it has in memory
  todo,         \* what a recovery has classified as ready and has not come to
  disturbed,    \* history: slugs on which requests overlapped, or a request or clone was cut off
  doubled,      \* history: slugs that a repair or a recovery registered once more
  requests,
  crashes,
  losses

diskVars == <<manifest, repo, leaked>>
nativeVars == <<native, foreign, nativeRepo>>
workVars == <<pc, target, copy, todo, disturbed, doubled, requests>>
vars == <<diskVars, nativeVars, workVars, crashes, losses>>

Manifests ==
  [registration : {"absent", "pending", "failed", "registered"},
   clone : {"none", "pending", "failed", "cloned"},
   declared : BOOLEAN]         \* whether the manifest has a repository section

NoManifest == [registration |-> "absent", clone |-> "none", declared |-> FALSE]
NewManifest == [registration |-> "pending", clone |-> "none", declared |-> FALSE]
NewCloneManifest == [registration |-> "pending", clone |-> "pending", declared |-> TRUE]

Exists(s) == manifest[s].registration # "absent"

\* The rows of the slug, of which any may be the one that a lookup finds.
Rows(s) == native[s] + foreign[s]

\* The staging directories that discovery finds beside the workspace.
Staged(s) == leaked[s] \/ \E w \in Workers : pc[w] \in {"staged", "stagedClone"} /\ target[w] = s

\* A slug and its manifest as the request has read or made it.
Entries == [slug : Slugs, manifest : Manifests]

Entry(s, m) == [slug |-> s, manifest |-> m]

\* Worker w has a request that is about slug s, or will come to it.
On(w, s) == pc[w] # "idle" /\ (target[w] = s \/ \E e \in todo[w] : e.slug = s)

OnSlug(s) == {w \in Workers : On(w, s)}

Go(w, next) == pc' = [pc EXCEPT ![w] = next]

\* Where a worker goes when it is done with a slug.
Done(w) == IF todo[w] = {} THEN "idle" ELSE "between"

\* A request of worker w begins at step next with entry e in hand and more to
\* come.  It overlaps itself on a slug that it names twice.
Begin(w, next, e, more) ==
  /\ requests < MaxRequests
  /\ requests' = requests + 1
  /\ pc[w] = "idle"
  /\ Go(w, next)
  /\ target' = [target EXCEPT ![w] = e.slug]
  /\ copy' = [copy EXCEPT ![w] = e.manifest]
  /\ todo' = [todo EXCEPT ![w] = more]
  /\ disturbed' = disturbed \union
       {s \in Slugs : \/ s = e.slug /\ \E f \in more : f.slug = s
                      \/ OnSlug(s) # {} /\ \E f \in more \union {e} : f.slug = s}

Write(w, m) ==
  /\ manifest' = [manifest EXCEPT ![target[w]] = m]
  /\ copy' = [copy EXCEPT ![w] = m]

-----------------------------------------------------------------------------
(* Creating a project.                                                     *)

\* create_workspace_project: the staging directory gets its files and manifest.
CreateWorkspace(w, s) ==
  /\ ~Exists(s)
  /\ Begin(w, "staged", Entry(s, NewManifest), {})
  /\ UNCHANGED <<diskVars, nativeVars, doubled, crashes, losses>>

\* create_clone_project, up to the same point.
CreateClone(w, s) ==
  /\ ~Exists(s)
  /\ Begin(w, "stagedClone", Entry(s, NewCloneManifest), {})
  /\ UNCHANGED <<diskVars, nativeVars, doubled, crashes, losses>>

\* Both, on a workspace whose registration has failed: it is only registered.
Repair(w, s) ==
  /\ manifest[s].registration = "failed"
  /\ Rows(s) = 0
  /\ Begin(w, "repairing", Entry(s, manifest[s]), {})
  /\ UNCHANGED <<diskVars, nativeVars, doubled, crashes, losses>>

\* Mutant: the staging directory is copied and not moved.
AlwaysLeft(s) == TRUE

\* A workspace that another request has published meanwhile cannot be replaced:
\* the request fails and leaves its staging directory behind.
LeftBehind(s) == Exists(s)

\* The staging directory becomes the workspace, and git starts to fill repo.
Publish(w) ==
  /\ pc[w] \in {"staged", "stagedClone"}
  /\ LET s == target[w]
     IN  /\ leaked' = [leaked EXCEPT ![s] = @ \/ LeftBehind(s)]
         /\ \/ Exists(s) /\ Go(w, "idle") /\ UNCHANGED <<manifest, repo>>
            \/ /\ ~Exists(s)
               /\ manifest' = [manifest EXCEPT ![s] = copy[w]]
               /\ \/ pc[w] = "staged" /\ Go(w, "registering") /\ UNCHANGED repo
                  \/ pc[w] = "stagedClone" /\ Go(w, "cloning") /\ repo' = [repo EXCEPT ![s] = "partial"]
  /\ UNCHANGED <<nativeVars, target, copy, todo, disturbed, doubled, requests, crashes, losses>>

\* git clone ends.  It removes what it cloned when it fails by itself; killed
\* at the time limit it leaves that behind, and the request has been cut off.
Clones(w, next, failed) ==
  LET s == target[w]
  IN  /\ \/ repo' = [repo EXCEPT ![s] = "whole"] /\ Go(w, next) /\ UNCHANGED disturbed
         \/ repo' = [repo EXCEPT ![s] = "absent"] /\ Go(w, failed) /\ UNCHANGED disturbed
         \/ Go(w, failed) /\ disturbed' = disturbed \union {s} /\ UNCHANGED repo
      /\ UNCHANGED <<manifest, leaked, nativeVars, target, copy, todo, doubled, requests, crashes, losses>>

CloneEnds(w) == pc[w] = "cloning" /\ Clones(w, "cloned", "cloneFailed")

\* The outcome of the clone goes into the manifest; a failed clone ends there.
RecordClone(w) ==
  /\ \/ /\ pc[w] = "cloned"
        /\ Write(w, [copy[w] EXCEPT !.clone = "cloned"])
        /\ Go(w, "registering")
     \/ /\ pc[w] = "cloneFailed"
        /\ Write(w, [copy[w] EXCEPT !.clone = "failed"])
        /\ Go(w, "idle")
  /\ UNCHANGED <<repo, leaked, nativeVars, target, todo, disturbed, doubled, requests, crashes, losses>>

\* The folders a request registers: repo is one of them if it was cloned for
\* the project or, in repair and recovery, if the directory is there.
RegistersRepo(w) ==
  LET m == copy[w]
  IN  \/ pc[w] = "registering" /\ m.clone = "cloned"
      \/ pc[w] = "repairing" /\ m.clone = "cloned" /\ repo[target[w]] # "absent"
      \/ pc[w] = "applying" /\ m.declared /\ repo[target[w]] # "absent"

\* native.create_project, which raises when the store does.  A recovery goes on
\* with its next slug if it catches what was raised; an error of sqlite ends it.
Register(w) ==
  /\ pc[w] \in {"registering", "repairing", "applying"}
  /\ LET s == target[w]
     IN  \/ /\ UniqueSlugs => Rows(s) = 0
            /\ native' = [native EXCEPT ![s] = @ + 1]
            /\ nativeRepo' = [nativeRepo EXCEPT ![s] = RegistersRepo(w)]
            /\ doubled' = IF pc[w] # "registering" /\ Rows(s) > 0 THEN doubled \union {s} ELSE doubled
            /\ Go(w, "registered")
            /\ UNCHANGED <<foreign, todo>>
         \/ /\ pc[w] = "registering" /\ Go(w, "registerFailed")
            /\ UNCHANGED <<nativeVars, doubled, todo>>
         \/ /\ pc[w] # "registering"
            /\ \/ Go(w, Done(w)) /\ UNCHANGED todo
               \/ Go(w, "idle") /\ todo' = [todo EXCEPT ![w] = {}]
            /\ UNCHANGED <<nativeVars, doubled>>
  /\ UNCHANGED <<diskVars, target, copy, disturbed, requests, crashes, losses>>

\* Mutant: the failure is recorded in the manifest as if it were a success.
AlwaysRegistered(w) == "registered"

Outcome(w) == IF pc[w] = "registered" THEN "registered" ELSE "failed"

\* The outcome of the registration goes into the manifest.
RecordRegistration(w) ==
  /\ pc[w] \in {"registered", "registerFailed"}
  /\ Write(w, [copy[w] EXCEPT !.registration = Outcome(w)])
  /\ Go(w, Done(w))
  /\ UNCHANGED <<repo, leaked, nativeVars, target, todo, disturbed, doubled, requests, crashes, losses>>

\* create_project with origin "adopt": a row for folders that are there, without
\* a look at the rows or the workspaces of the slug.  The folders are elsewhere,
\* or they are the workspace and, if it has one, its repository.
Adopt(s) ==
  /\ requests < MaxRequests
  /\ requests' = requests + 1
  /\ UniqueSlugs => Rows(s) = 0
  /\ \/ foreign' = [foreign EXCEPT ![s] = @ + 1] /\ UNCHANGED <<native, nativeRepo>>
     \/ /\ Exists(s)
        /\ native' = [native EXCEPT ![s] = @ + 1]
        /\ \E withRepo \in BOOLEAN :
             /\ withRepo => repo[s] # "absent"
             /\ nativeRepo' = [nativeRepo EXCEPT ![s] = @ \/ withRepo]
        /\ UNCHANGED foreign
  /\ disturbed' = IF OnSlug(s) = {} THEN disturbed ELSE disturbed \union {s}
  /\ UNCHANGED <<diskVars, pc, target, copy, todo, doubled, crashes, losses>>

-----------------------------------------------------------------------------
(* Attaching a repository.                                                 *)

\* attach_repository, up to the clone.
Attach(w, s) ==
  /\ native[s] > 0
  /\ Exists(s)
  /\ ~manifest[s].declared
  /\ repo[s] = "absent"
  /\ Begin(w, "attaching", Entry(s, manifest[s]), {})
  /\ repo' = [repo EXCEPT ![s] = "partial"]
  /\ UNCHANGED <<manifest, leaked, nativeVars, doubled, crashes, losses>>

AttachCloned(w) == pc[w] = "attaching" /\ Clones(w, "adding", "idle")

\* Mutant: the folder is registered while git still fills it.
WithClone(w) == pc[w] \in {"attaching", "adding"}

\* The folder is registered when git has filled it.
AfterClone(w) == pc[w] = "adding"

\* native.add_folder, which raises when the project or the store is gone, and
\* takes any row of the slug.
AddFolder(w) ==
  /\ AfterClone(w)
  /\ \/ /\ native[target[w]] > 0
        /\ nativeRepo' = [nativeRepo EXCEPT ![target[w]] = TRUE]
        /\ Go(w, "declaring")
     \/ foreign[target[w]] > 0 /\ Go(w, "declaring") /\ UNCHANGED nativeRepo
     \/ Go(w, "idle") /\ UNCHANGED nativeRepo
  /\ UNCHANGED <<diskVars, native, foreign, target, copy, todo, disturbed, doubled, requests, crashes, losses>>

\* The manifest read before the clone is written back with the repository.
Declare(w) ==
  /\ pc[w] = "declaring"
  /\ Write(w, [copy[w] EXCEPT !.declared = TRUE])
  /\ Go(w, "synchronizing")
  /\ UNCHANGED <<repo, leaked, nativeVars, target, todo, disturbed, doubled, requests, crashes, losses>>

\* A request that changes the native project, its folders or whether it is
\* archived, up to the point where the manifest follows: the repository, if it
\* is there, may become a folder or cease to be one.
Change(w, s) ==
  /\ native[s] > 0
  /\ Exists(s)
  /\ Begin(w, "synchronizing", Entry(s, manifest[s]), {})
  /\ \E listed \in BOOLEAN :
       /\ listed => nativeRepo[s] \/ repo[s] # "absent"
       /\ nativeRepo' = [nativeRepo EXCEPT ![s] = listed]
  /\ UNCHANGED <<diskVars, native, foreign, doubled, crashes, losses>>

\* synchronize_project: the manifest gets name, folders and registration of the
\* native project, unless that has a folder elsewhere.  "registered" stands for
\* "archived", too.
Synchronize(w) ==
  /\ pc[w] = "synchronizing"
  /\ \/ Write(w, [manifest[target[w]] EXCEPT !.registration = "registered"])
     \/ UNCHANGED <<manifest, copy>>
  /\ Go(w, "idle")
  /\ UNCHANGED <<repo, leaked, nativeVars, target, todo, disturbed, doubled, requests, crashes, losses>>

-----------------------------------------------------------------------------
(* The recovery plan.                                                      *)

\* Mutant: a project that is registered is restored again.
AnyRegistration(s) == TRUE

Unregistered(s) == Rows(s) = 0

\* recovery_plan_entries has status "ready" for the slug: one directory with a
\* manifest claims it, a declared repository is there, and it is unregistered.
Ready(s) ==
  /\ Exists(s)
  /\ ~Staged(s)
  /\ manifest[s].declared => repo[s] # "absent"
  /\ Unregistered(s)

\* apply_recovery_plan classifies everything once, before the first creation:
\* here the ready slugs of the request, s being the first one.
Apply(w, s, more) ==
  /\ \A t \in more \union {s} : Ready(t)
  /\ Begin(w, "applying", Entry(s, manifest[s]), {Entry(t, manifest[t]) : t \in more})
  /\ UNCHANGED <<diskVars, nativeVars, doubled, crashes, losses>>

\* The next slug is applied as it was classified.
ApplyNext(w) ==
  /\ pc[w] = "between"
  /\ \E e \in todo[w] :
       /\ target' = [target EXCEPT ![w] = e.slug]
       /\ copy' = [copy EXCEPT ![w] = e.manifest]
       /\ todo' = [todo EXCEPT ![w] = @ \ {e}]
  /\ Go(w, "applying")
  /\ UNCHANGED <<diskVars, nativeVars, disturbed, doubled, requests, crashes, losses>>

-----------------------------------------------------------------------------

\* The API process dies: requests are gone, and git with them.
Crash ==
  /\ crashes + losses < MaxTroubles
  /\ crashes' = crashes + 1
  /\ leaked' = [s \in Slugs |-> Staged(s)]
  /\ pc' = [w \in Workers |-> "idle"]
  /\ todo' = [w \in Workers |-> {}]
  /\ disturbed' = disturbed \union {s \in Slugs : OnSlug(s) # {}}
  /\ UNCHANGED <<manifest, repo, nativeVars, target, copy, doubled, requests, losses>>

\* Hermes' store is lost or replaced by a new one.
LoseNative ==
  /\ crashes + losses < MaxTroubles
  /\ losses' = losses + 1
  /\ native' = [s \in Slugs |-> 0]
  /\ foreign' = [s \in Slugs |-> 0]
  /\ nativeRepo' = [s \in Slugs |-> FALSE]
  /\ UNCHANGED <<diskVars, workVars, crashes>>

Init ==
  /\ manifest = [s \in Slugs |-> NoManifest]
  /\ repo = [s \in Slugs |-> "absent"]
  /\ leaked = [s \in Slugs |-> FALSE]
  /\ native = [s \in Slugs |-> 0]
  /\ foreign = [s \in Slugs |-> 0]
  /\ nativeRepo = [s \in Slugs |-> FALSE]
  /\ pc = [w \in Workers |-> "idle"]
  /\ target \in [Workers -> Slugs]
  /\ copy = [w \in Workers |-> NoManifest]
  /\ todo = [w \in Workers |-> {}]
  /\ disturbed = {}
  /\ doubled = {}
  /\ requests = 0
  /\ crashes = 0
  /\ losses = 0

Next ==
  \/ \E w \in Workers, s \in Slugs :
       CreateWorkspace(w, s) \/ CreateClone(w, s) \/ Repair(w, s) \/ Attach(w, s) \/ Change(w, s)
       \/ \E more \in SUBSET Slugs : Apply(w, s, more)
  \/ \E w \in Workers :
       \/ Publish(w) \/ CloneEnds(w) \/ RecordClone(w) \/ Register(w) \/ RecordRegistration(w)
       \/ AttachCloned(w) \/ AddFolder(w) \/ Declare(w) \/ Synchronize(w) \/ ApplyNext(w)
  \/ \E s \in Slugs : Adopt(s)
  \/ Crash \/ LoseNative

Spec == Init /\ [][Next]_vars

-----------------------------------------------------------------------------
(* Properties.                                                             *)

Steps == {"idle", "staged", "stagedClone", "cloning", "cloned", "cloneFailed", "registering",
          "repairing", "applying", "between", "registered", "registerFailed", "attaching", "adding",
          "declaring", "synchronizing"}

\* Every variable holds a value of its kind.
TypeOK ==
  /\ manifest \in [Slugs -> Manifests]
  /\ repo \in [Slugs -> {"absent", "partial", "whole"}]
  /\ leaked \in [Slugs -> BOOLEAN]
  /\ native \in [Slugs -> Nat]
  /\ foreign \in [Slugs -> Nat]
  /\ nativeRepo \in [Slugs -> BOOLEAN]
  /\ pc \in [Workers -> Steps]
  /\ target \in [Workers -> Slugs]
  /\ copy \in [Workers -> Manifests]
  /\ todo \in [Workers -> SUBSET Entries]
  /\ disturbed \in SUBSET Slugs
  /\ doubled \in SUBSET Slugs

\* The slugs with no request under way, and only one at a time before.
Undisturbed == {s \in Slugs : s \notin disturbed /\ OnSlug(s) = {}}

\* A manifest says that its project is registered only if it has been: whatever
\* requests overlap or are cut off, what it says was lost with Hermes' store.
ManifestIsTruthful ==
  \A s \in Slugs : manifest[s].registration = "registered" => native[s] > 0 \/ losses > 0

\* "Clone a remote before registering the native Hermes project": an unfinished
\* repository becomes the folder of a project only where another request
\* overlapped the clone, or a crash or the time limit cut it off.
OnlyOverlapsRegisterPartial ==
  \A s \in Slugs : nativeRepo[s] /\ s \notin disturbed => repo[s] = "whole"

\* "Changed, duplicate, missing, or conflicting descriptors cannot be applied":
\* a repair or a recovery, which look whether the slug is registered before they
\* register it, add to the rows it has only if requests on it overlapped, or one
\* recovery named it twice and classified it once.  Creating a workspace for an
\* adopted slug, or adopting a registered one, is not such a second look.
RegisteredOnce == doubled \subseteq disturbed

\* A workspace that Hermes' store does not know, and whose clone has not failed,
\* can be registered again by the recovery plan, whatever was cut off elsewhere.
Recoverable ==
  \A s \in Undisturbed :
    Exists(s) /\ Rows(s) = 0 /\ manifest[s].clone # "failed" => Ready(s)

=============================================================================
