---------------------- MODULE ManagedWorkspace_proofs ----------------------
(***************************************************************************)
(* Proofs about ManagedWorkspace, for any sets of slugs and workers and    *)
(* any number of requests, crashes and losses, whether or not Hermes'      *)
(* store refuses a second row.  What a manifest says follows from an       *)
(* invariant about the manifests in hand; what happens to a slug on which  *)
(* no requests overlap follows from there being one worker on it at most.  *)
(***************************************************************************)
EXTENDS ManagedWorkspace, TLAPS

\* What a part of a manifest keeps when another is written.
LEMMA Parts ==
  ASSUME NEW m \in Manifests
  PROVE  /\ \A c : [m EXCEPT !.clone = c].registration = m.registration
         /\ \A c : [m EXCEPT !.clone = c].clone = c
         /\ [m EXCEPT !.declared = TRUE].registration = m.registration
         /\ \A r : [m EXCEPT !.registration = r].registration = r
         /\ \A r : [m EXCEPT !.registration = r].declared = m.declared
         /\ \A r : [m EXCEPT !.registration = r].clone = m.clone
  BY DEF Manifests

\* A manifest with another part is a manifest.
LEMMA Altered ==
  ASSUME NEW m \in Manifests
  PROVE  /\ \A c \in {"failed", "cloned"} : [m EXCEPT !.clone = c] \in Manifests
         /\ \A r \in {"failed", "registered"} : [m EXCEPT !.registration = r] \in Manifests
         /\ [m EXCEPT !.declared = TRUE] \in Manifests
  BY DEF Manifests

\* Every variable holds a value of its kind.
THEOREM TypeCorrect == Spec => []TypeOK
<1>1. Init => TypeOK
  BY DEF Init, TypeOK, NoManifest, Manifests, Steps
<1>2. ASSUME TypeOK, [Next]_vars PROVE TypeOK'
  <2> USE <1>2 DEF TypeOK
  <2> USE DEF diskVars, nativeVars, workVars, Go
  <2>0. {NewManifest, NewCloneManifest} \subseteq Manifests
    BY DEF NewManifest, NewCloneManifest, Manifests
  <2>1. ASSUME NEW w \in Workers, NEW next \in Steps, NEW e \in Entries, NEW more \in SUBSET Entries,
               Begin(w, next, e, more)
        PROVE  /\ pc' \in [Workers -> Steps] /\ target' \in [Workers -> Slugs]
               /\ copy' \in [Workers -> Manifests] /\ todo' \in [Workers -> SUBSET Entries]
               /\ disturbed' \in SUBSET Slugs
    BY <2>1 DEF Begin, Entries
  <2>2. ASSUME NEW w \in Workers, NEW s \in Slugs, CreateWorkspace(w, s) \/ CreateClone(w, s)
        PROVE  TypeOK'
    <3>1. Entry(s, NewManifest) \in Entries /\ Entry(s, NewCloneManifest) \in Entries
      BY <2>0 DEF Entry, Entries
    <3>2. "staged" \in Steps /\ "stagedClone" \in Steps /\ {} \in SUBSET Entries
      BY DEF Steps
    <3> QED
      BY <2>1, <2>2, <3>1, <3>2 DEF CreateWorkspace, CreateClone
  <2>3. ASSUME NEW w \in Workers, NEW s \in Slugs, Repair(w, s) \/ Attach(w, s) \/ Change(w, s)
        PROVE  TypeOK'
    <3>1. Entry(s, manifest[s]) \in Entries
      BY DEF Entry, Entries
    <3>2. {"repairing", "attaching", "synchronizing"} \subseteq Steps /\ {} \in SUBSET Entries
      BY DEF Steps
    <3> QED
      BY <2>1, <2>3, <3>1, <3>2 DEF Repair, Attach, Change
  <2>4. ASSUME NEW w \in Workers, NEW s \in Slugs, NEW more \in SUBSET Slugs, Apply(w, s, more)
        PROVE  TypeOK'
    <3>1. Entry(s, manifest[s]) \in Entries /\ {Entry(t, manifest[t]) : t \in more} \in SUBSET Entries
      BY DEF Entry, Entries
    <3>2. "applying" \in Steps
      BY DEF Steps
    <3> QED
      BY <2>1, <2>4, <3>1, <3>2 DEF Apply
  <2>5. ASSUME NEW w \in Workers, NEW m \in Manifests, Write(w, m)
        PROVE  manifest' \in [Slugs -> Manifests] /\ copy' \in [Workers -> Manifests]
    BY <2>5 DEF Write
  <2>6. ASSUME NEW w \in Workers, Publish(w) PROVE TypeOK'
    BY <2>6 DEF Publish, Steps
  <2>7. ASSUME NEW w \in Workers, CloneEnds(w) \/ AttachCloned(w) PROVE TypeOK'
    BY <2>7 DEF CloneEnds, AttachCloned, Clones, Steps
  <2>8. ASSUME NEW w \in Workers, RecordClone(w) PROVE TypeOK'
    <3>1. [copy[w] EXCEPT !.clone = "cloned"] \in Manifests /\ [copy[w] EXCEPT !.clone = "failed"] \in Manifests
      BY Altered
    <3> QED
      BY <2>5, <2>8, <3>1 DEF RecordClone, Steps
  <2>9. ASSUME NEW w \in Workers, Register(w) PROVE TypeOK'
    <3>1. RegistersRepo(w) \in BOOLEAN
      BY DEF RegistersRepo, Manifests
    <3>2. native' \in [Slugs -> Nat] /\ nativeRepo' \in [Slugs -> BOOLEAN]
      BY <2>9, <3>1 DEF Register
    <3>3. pc' \in [Workers -> Steps] /\ todo' \in [Workers -> SUBSET Entries]
      BY <2>9 DEF Register, Done, Steps
    <3> QED
      BY <2>9, <3>2, <3>3 DEF Register
  <2>10. ASSUME NEW w \in Workers, RecordRegistration(w) PROVE TypeOK'
    <3>1. [copy[w] EXCEPT !.registration = Outcome(w)] \in Manifests
      BY Altered DEF Outcome
    <3> QED
      BY <2>5, <2>10, <3>1 DEF RecordRegistration, Done, Steps
  <2>11. ASSUME NEW w \in Workers, AddFolder(w) PROVE TypeOK'
    BY <2>11 DEF AddFolder, Steps
  <2>12. ASSUME NEW w \in Workers, Declare(w) PROVE TypeOK'
    <3>1. [copy[w] EXCEPT !.declared = TRUE] \in Manifests
      BY Altered
    <3> QED
      BY <2>5, <2>12, <3>1 DEF Declare, Steps
  <2>13. ASSUME NEW w \in Workers, Synchronize(w) PROVE TypeOK'
    <3> DEFINE m == manifest[target[w]]
    <3>1. m \in Manifests
      OBVIOUS
    <3> HIDE DEF m
    <3>2. [m EXCEPT !.registration = "registered"] \in Manifests
      BY <3>1 DEF Manifests
    <3> QED
      BY <2>5, <2>13, <3>2 DEF Synchronize, Steps, m
  <2>14. ASSUME NEW w \in Workers, ApplyNext(w) PROVE TypeOK'
    BY <2>14 DEF ApplyNext, Entries, Steps
  <2>15. CASE Crash
    <3>1. leaked' \in [Slugs -> BOOLEAN]
      BY <2>15 DEF Crash, Staged
    <3> QED
      BY <2>15, <3>1 DEF Crash, Steps
  <2>16. CASE LoseNative
    BY <2>16 DEF LoseNative
  <2>17. CASE UNCHANGED vars
    BY <2>17 DEF vars
  <2>18. ASSUME NEW s \in Slugs, Adopt(s) PROVE TypeOK'
    BY <2>18 DEF Adopt
  <2> QED
    BY <1>2, <2>2, <2>3, <2>4, <2>6, <2>7, <2>8, <2>9, <2>10, <2>11, <2>12, <2>13, <2>14, <2>15,
       <2>16, <2>17, <2>18 DEF Next
<1> QED
  BY <1>1, <1>2, PTL DEF Spec

-----------------------------------------------------------------------------
(* What is in hand.                                                        *)

\* The steps of a request whose project has been registered when it began, or
\* has been by it.
Sure == {"registered", "attaching", "adding", "declaring", "synchronizing"}

\* A workspace that a row or a request is about exists, a project without a
\* clone has none to register, and a worker is only
\* between two slugs, or has slugs to come to, while it applies a recovery.
InHand(w) ==
  /\ pc[w] # "idle" => copy[w].registration # "absent"
  /\ pc[w] = "staged" => copy[w].clone = "none"
  /\ pc[w] \notin {"idle", "staged", "stagedClone"} => Exists(target[w])
  /\ pc[w] \notin {"applying", "registered", "between"} => todo[w] = {}
  /\ \A e \in todo[w] : Exists(e.slug) /\ e.manifest.registration # "absent"
  /\ \A e, f \in todo[w] : e.slug = f.slug => e = f

Grounded ==
  /\ \A s \in Slugs : ~Exists(s) => native[s] = 0 /\ repo[s] = "absent"
  /\ \A w \in Workers : InHand(w)

\* While Hermes' store is not lost, "registered" is true of every manifest, on
\* the disk, in hand or still to be applied.
Truthful ==
  /\ losses \in Nat
  /\ losses = 0 =>
       /\ \A s \in Slugs : manifest[s].registration = "registered" => native[s] > 0
       /\ \A w \in Workers :
            /\ pc[w] \in Sure => native[target[w]] > 0
            /\ pc[w] # "idle" /\ copy[w].registration = "registered" => native[target[w]] > 0
            /\ \A e \in todo[w] : e.manifest.registration = "registered" => native[e.slug] > 0

\* A step of one worker, that takes no workspace away, keeps Grounded if what
\* that worker has in hand fits, and what it has done to a slug.
LEMMA StepGrounded ==
  ASSUME TypeOK, Grounded, NEW w \in Workers,
         \A v \in Workers : v # w => /\ pc'[v] = pc[v] /\ target'[v] = target[v]
                                     /\ copy'[v] = copy[v] /\ todo'[v] = todo[v],
         \A s \in Slugs : Exists(s) => Exists(s)',
         \A s \in Slugs : ~Exists(s)' => native'[s] = native[s] /\ repo'[s] = repo[s],
         InHand(w)'
  PROVE  Grounded'
<1>1. ASSUME NEW v \in Workers, v # w PROVE InHand(v)'
  <2>1. target[v] \in Slugs /\ \A e \in todo[v] : e.slug \in Slugs
    BY DEF TypeOK, Entries
  <2> QED
    BY <1>1, <2>1 DEF Grounded, InHand
<1>2. \A s \in Slugs : ~Exists(s)' => native'[s] = 0 /\ repo'[s] = "absent"
  BY DEF Grounded
<1> QED
  BY <1>1, <1>2 DEF Grounded

\* Rows and requests are about workspaces that exist, and todo has a slug once.
THEOREM GroundedInvariant == Spec => []Grounded
<1>1. Init => Grounded
  BY DEF Init, Grounded, InHand, Exists, NoManifest
<1>2. ASSUME Grounded, TypeOK, [Next]_vars PROVE Grounded'
  <2> USE DEF diskVars, nativeVars, workVars
  <2>0. ASSUME NEW w \in Workers
        PROVE  InHand(w) /\ target[w] \in Slugs /\ copy[w] \in Manifests
    BY <1>2 DEF Grounded, TypeOK
  <2>a. ASSUME NEW w \in Workers, NEW next, NEW s \in Slugs, NEW m \in Manifests,
               Begin(w, next, Entry(s, m), {}), m.registration # "absent",
               next \in {"staged", "stagedClone"} \/ Exists(s),
               next = "staged" => m.clone = "none",
               UNCHANGED <<manifest, native>>, \A t \in Slugs : t # s \/ ~Exists(s) => repo'[t] = repo[t]
        PROVE  Grounded'
    <3>1. /\ pc'[w] = next /\ target'[w] = s /\ copy'[w] = m /\ todo'[w] = {}
          /\ \A v \in Workers : v # w => /\ pc'[v] = pc[v] /\ target'[v] = target[v]
                                         /\ copy'[v] = copy[v] /\ todo'[v] = todo[v]
      BY <1>2, <2>a DEF Begin, Go, Entry, TypeOK
    <3>2. InHand(w)'
      BY <2>a, <3>1 DEF InHand, Exists
    <3>3. \A t \in Slugs : /\ Exists(t)' <=> Exists(t)
                           /\ ~Exists(t)' => native'[t] = native[t] /\ repo'[t] = repo[t]
      BY <2>a DEF Exists
    <3> QED
      BY <1>2, <3>1, <3>2, <3>3, StepGrounded
  <2>1. ASSUME NEW w \in Workers, NEW s \in Slugs, CreateWorkspace(w, s) \/ CreateClone(w, s)
        PROVE  Grounded'
    <3>1. /\ NewManifest \in Manifests /\ NewManifest.registration # "absent"
          /\ NewManifest.clone = "none"
          /\ NewCloneManifest \in Manifests /\ NewCloneManifest.registration # "absent"
      BY DEF NewManifest, NewCloneManifest, Manifests
    <3> QED
      BY <2>1, <2>a, <3>1 DEF CreateWorkspace, CreateClone
  <2>2. ASSUME NEW w \in Workers, NEW s \in Slugs, Repair(w, s) \/ Attach(w, s) \/ Change(w, s)
        PROVE  Grounded'
    <3>1. manifest[s] \in Manifests /\ manifest[s].registration # "absent" /\ Exists(s)
      BY <1>2, <2>2 DEF Repair, Attach, Change, Exists, TypeOK
    <3>2. \A t \in Slugs : t # s => repo'[t] = repo[t]
      BY <1>2, <2>2 DEF Repair, Attach, Change, TypeOK
    <3> QED
      BY <2>2, <2>a, <3>1, <3>2 DEF Repair, Attach, Change
  <2>3. ASSUME NEW w \in Workers, NEW s \in Slugs, NEW more \in SUBSET Slugs, Apply(w, s, more)
        PROVE  Grounded'
    <3> DEFINE rest == {Entry(t, manifest[t]) : t \in more}
    <3>1. /\ pc'[w] = "applying" /\ target'[w] = s /\ copy'[w] = manifest[s] /\ todo'[w] = rest
          /\ \A v \in Workers : v # w => /\ pc'[v] = pc[v] /\ target'[v] = target[v]
                                         /\ copy'[v] = copy[v] /\ todo'[v] = todo[v]
          /\ UNCHANGED <<manifest, native, repo>>
      BY <1>2, <2>3 DEF Apply, Begin, Go, Entry, TypeOK
    <3>2. \A t \in more \union {s} : t \in Slugs /\ Exists(t)
      BY <2>3 DEF Apply, Ready
    <3>3. \A e \in rest : /\ e.slug \in more /\ e.manifest = manifest[e.slug]
                          /\ e = Entry(e.slug, manifest[e.slug])
      BY DEF Entry
    <3> HIDE DEF rest
    <3>4. InHand(w)'
      BY <3>1, <3>2, <3>3 DEF InHand, Exists
    <3>5. \A t \in Slugs : Exists(t)' <=> Exists(t)
      BY <3>1 DEF Exists
    <3> QED
      BY <1>2, <3>1, <3>4, <3>5, StepGrounded
  <2>b. ASSUME NEW w \in Workers, pc[w] # "idle", target' = target,
               \A v \in Workers : v # w => pc'[v] = pc[v] /\ copy'[v] = copy[v] /\ todo'[v] = todo[v],
               \A s \in Slugs : Exists(s) => Exists(s)',
               \A s \in Slugs : s # target[w] => native'[s] = native[s] /\ repo'[s] = repo[s],
               Exists(target[w])' \/ UNCHANGED <<native, repo>>,
               todo'[w] = todo[w] \/ todo'[w] = {},
               pc'[w] \notin {"applying", "registered", "between"} => todo'[w] = {},
               pc'[w] = "idle" \/ /\ copy'[w].registration # "absent" /\ pc'[w] # "staged"
                                  /\ Exists(target[w])'
        PROVE  Grounded'
    <3>1. \A e \in todo[w] : e.slug \in Slugs
      BY <1>2 DEF TypeOK, Entries
    <3>2. InHand(w)'
      BY <2>0, <2>b, <3>1 DEF InHand, Exists
    <3>3. \A s \in Slugs : ~Exists(s)' => native'[s] = native[s] /\ repo'[s] = repo[s]
      BY <2>b DEF Exists
    <3> QED
      BY <1>2, <2>b, <3>2, <3>3, StepGrounded
  <2>4. ASSUME NEW w \in Workers, Publish(w) PROVE Grounded'
    <3>1. /\ pc[w] \in {"staged", "stagedClone"} /\ UNCHANGED <<native, target, copy, todo>>
          /\ todo[w] = {} /\ copy[w].registration # "absent"
          /\ \A v \in Workers : v # w => pc'[v] = pc[v]
      BY <1>2, <2>0, <2>4 DEF Publish, Go, InHand, TypeOK
    <3>2. CASE Exists(target[w])
      <4>1. pc'[w] = "idle" /\ UNCHANGED <<manifest, repo>>
        BY <1>2, <2>4, <3>2 DEF Publish, Go, TypeOK
      <4>2. \A s \in Slugs : Exists(s)' <=> Exists(s)
        BY <4>1 DEF Exists
      <4> QED
        BY <2>b, <3>1, <4>1, <4>2
    <3>3. CASE ~Exists(target[w])
      <4>1. pc'[w] \in {"registering", "cloning"} /\ manifest' = [manifest EXCEPT ![target[w]] = copy[w]]
        BY <1>2, <2>4, <3>3 DEF Publish, Go, TypeOK
      <4>2. \A s \in Slugs : s # target[w] => repo'[s] = repo[s]
        BY <1>2, <2>4, <3>3 DEF Publish, TypeOK
      <4>3. Exists(target[w])' /\ \A s \in Slugs : Exists(s) => Exists(s)'
        BY <1>2, <2>0, <3>1, <4>1 DEF Exists, TypeOK
      <4> QED
        BY <2>b, <3>1, <4>1, <4>2, <4>3
    <3> QED
      BY <3>2, <3>3
  <2>5. ASSUME NEW w \in Workers, CloneEnds(w) \/ AttachCloned(w) PROVE Grounded'
    <3>1. /\ pc[w] \in {"cloning", "attaching"} /\ UNCHANGED <<manifest, native, target, copy, todo>>
          /\ pc'[w] \in {"cloned", "cloneFailed", "adding", "idle"}
          /\ \A v \in Workers : v # w => pc'[v] = pc[v]
          /\ \A s \in Slugs : s # target[w] => repo'[s] = repo[s]
      BY <1>2, <2>5 DEF CloneEnds, AttachCloned, Clones, Go, TypeOK
    <3>2. Exists(target[w]) /\ todo[w] = {} /\ copy[w].registration # "absent"
      BY <2>0, <3>1 DEF InHand
    <3>3. \A s \in Slugs : Exists(s)' <=> Exists(s)
      BY <3>1 DEF Exists
    <3>4. Exists(target[w])'
      BY <3>1, <3>2 DEF Exists
    <3> QED
      BY <2>b, <3>1, <3>2, <3>3, <3>4
  <2>c. ASSUME NEW w \in Workers, NEW m, m.registration # "absent", Write(w, m) \/ UNCHANGED <<manifest, copy>>,
               Exists(target[w]), copy[w].registration # "absent", target' = target
        PROVE  /\ Exists(target[w])' /\ \A s \in Slugs : Exists(s) => Exists(s)'
               /\ copy'[w].registration # "absent" /\ \A v \in Workers : v # w => copy'[v] = copy[v]
    BY <1>2, <2>0, <2>c DEF Write, Exists, TypeOK
  <2>6. ASSUME NEW w \in Workers, RecordClone(w) PROVE Grounded'
    <3>1. /\ pc[w] \in {"cloned", "cloneFailed"} /\ UNCHANGED <<native, repo, target, todo>>
          /\ pc'[w] \in {"registering", "idle"} /\ \A v \in Workers : v # w => pc'[v] = pc[v]
      BY <1>2, <2>6 DEF RecordClone, Go, TypeOK
    <3>2. Exists(target[w]) /\ todo[w] = {} /\ copy[w].registration # "absent"
      BY <2>0, <3>1 DEF InHand
    <3>3. PICK m : m.registration = copy[w].registration /\ Write(w, m)
      BY <2>0, <2>6, Parts DEF RecordClone
    <3> QED
      BY <2>b, <2>c, <3>1, <3>2, <3>3
  <2>7. ASSUME NEW w \in Workers, Register(w) PROVE Grounded'
    <3>1. /\ pc[w] \in {"registering", "repairing", "applying"}
          /\ UNCHANGED <<manifest, repo, target, copy>>
          /\ \A v \in Workers : v # w => pc'[v] = pc[v] /\ todo'[v] = todo[v]
          /\ \A s \in Slugs : s # target[w] => native'[s] = native[s]
      BY <1>2, <2>7 DEF Register, Go, TypeOK
    <3>2. Exists(target[w]) /\ copy[w].registration # "absent" /\ (pc[w] # "applying" => todo[w] = {})
      BY <2>0, <3>1 DEF InHand
    <3>3. /\ pc'[w] \in {"registered", "registerFailed", "between", "idle"}
          /\ pc'[w] = "registerFailed" => pc[w] = "registering"
          /\ pc'[w] = "idle" => todo'[w] = {}
          /\ todo'[w] = todo[w] \/ todo'[w] = {}
      BY <1>2, <2>7 DEF Register, Go, Done, TypeOK
    <3>4. Exists(target[w])' /\ \A s \in Slugs : Exists(s)' <=> Exists(s)
      BY <3>1, <3>2 DEF Exists
    <3> QED
      BY <2>b, <3>1, <3>2, <3>3, <3>4
  <2>8. ASSUME NEW w \in Workers, RecordRegistration(w) PROVE Grounded'
    <3>1. /\ pc[w] \in {"registered", "registerFailed"} /\ UNCHANGED <<native, repo, target, todo>>
          /\ pc'[w] \in {"between", "idle"} /\ (pc'[w] = "idle" => todo[w] = {})
          /\ \A v \in Workers : v # w => pc'[v] = pc[v]
      BY <1>2, <2>8 DEF RecordRegistration, Go, Done, TypeOK
    <3>2. Exists(target[w]) /\ copy[w].registration # "absent"
      BY <2>0, <3>1 DEF InHand
    <3>3. PICK m : m.registration = Outcome(w) /\ Write(w, m)
      BY <2>0, <2>8, Parts DEF RecordRegistration
    <3>4. m.registration # "absent"
      BY <3>3 DEF Outcome
    <3> QED
      BY <2>b, <2>c, <3>1, <3>2, <3>3, <3>4
  <2>9. ASSUME NEW w \in Workers, AddFolder(w) \/ Declare(w) \/ Synchronize(w) PROVE Grounded'
    <3>1. /\ pc[w] \in {"adding", "declaring", "synchronizing"} /\ UNCHANGED <<native, repo, target, todo>>
          /\ pc'[w] \in {"declaring", "synchronizing", "idle"} /\ \A v \in Workers : v # w => pc'[v] = pc[v]
      BY <1>2, <2>9 DEF AddFolder, AfterClone, Declare, Synchronize, Go, TypeOK
    <3>2. Exists(target[w]) /\ todo[w] = {} /\ copy[w].registration # "absent"
      BY <2>0, <3>1 DEF InHand
    <3>3. manifest[target[w]] \in Manifests
      BY <1>2, <2>0 DEF TypeOK
    <3>4. \E m : m.registration # "absent" /\ (Write(w, m) \/ UNCHANGED <<manifest, copy>>)
      <4>1. CASE UNCHANGED <<manifest, copy>>
        BY <3>2, <4>1
      <4>2. CASE Write(w, [copy[w] EXCEPT !.declared = TRUE])
        BY <2>0, <3>2, <4>2, Parts
      <4>3. CASE Write(w, [manifest[target[w]] EXCEPT !.registration = "registered"])
        <5>1. [manifest[target[w]] EXCEPT !.registration = "registered"].registration = "registered"
          BY <3>3, Parts
        <5> QED
          BY <4>3, <5>1
      <4> QED
        BY <2>9, <4>1, <4>2, <4>3 DEF AddFolder, Declare, Synchronize
    <3> QED
      BY <2>b, <2>c, <3>1, <3>2, <3>4
  <2>10. ASSUME NEW w \in Workers, ApplyNext(w) PROVE Grounded'
    <3>1. PICK e \in todo[w] : /\ target' = [target EXCEPT ![w] = e.slug]
                               /\ copy' = [copy EXCEPT ![w] = e.manifest]
                               /\ todo' = [todo EXCEPT ![w] = @ \ {e}]
      BY <2>10 DEF ApplyNext
    <3>2. /\ pc' = [pc EXCEPT ![w] = "applying"] /\ UNCHANGED <<manifest, native, repo>>
      BY <2>10 DEF ApplyNext, Go
    <3>3. InHand(w)'
      BY <1>2, <2>0, <3>1, <3>2 DEF InHand, Exists, TypeOK
    <3>4. \A v \in Workers : v # w => /\ pc'[v] = pc[v] /\ target'[v] = target[v]
                                      /\ copy'[v] = copy[v] /\ todo'[v] = todo[v]
      BY <1>2, <3>1, <3>2 DEF TypeOK
    <3>5. \A s \in Slugs : Exists(s)' <=> Exists(s)
      BY <3>2 DEF Exists
    <3> QED
      BY <1>2, <3>2, <3>3, <3>4, <3>5, StepGrounded
  <2>11. CASE Crash
    BY <1>2, <2>11 DEF Crash, Grounded, InHand, Exists
  <2>12. CASE LoseNative
    BY <1>2, <2>12 DEF LoseNative, Grounded, InHand, Exists
  <2>13. CASE UNCHANGED vars
    BY <1>2, <2>13 DEF vars, Grounded, InHand, Exists
  <2>14. ASSUME NEW s \in Slugs, Adopt(s) PROVE Grounded'
    BY <1>2, <2>14 DEF Adopt, Grounded, InHand, Exists, TypeOK
  <2> QED
    BY <1>2, <2>1, <2>2, <2>3, <2>4, <2>5, <2>6, <2>7, <2>8, <2>9, <2>10, <2>11, <2>12, <2>13, <2>14 DEF Next
<1> QED
  BY <1>1, <1>2, TypeCorrect, PTL DEF Spec

\* What a manifest says of the registration, wherever it is, has been so.
THEOREM TruthInvariant == Spec => []Truthful
<1>1. Init => Truthful
  BY DEF Init, Truthful, NoManifest, Sure
<1>2. ASSUME Truthful, TypeOK, [Next]_vars PROVE Truthful'
  <2> USE <1>2 DEF TypeOK, Truthful, Sure
  <2> USE DEF diskVars, nativeVars, workVars, Go, Entry, Entries, Manifests
  <2>1. ASSUME NEW w \in Workers, NEW s \in Slugs, CreateWorkspace(w, s) \/ CreateClone(w, s)
        PROVE  Truthful'
    <3>1. CASE CreateWorkspace(w, s)
      BY <3>1 DEF CreateWorkspace, Begin, NewManifest
    <3>2. CASE CreateClone(w, s)
      BY <3>2 DEF CreateClone, Begin, NewCloneManifest
    <3> QED
      BY <2>1, <3>1, <3>2
  <2>2. ASSUME NEW w \in Workers, NEW s \in Slugs, Repair(w, s) \/ Attach(w, s) \/ Change(w, s)
        PROVE  Truthful'
    <3>1. CASE Repair(w, s)
      BY <3>1 DEF Repair, Begin
    <3>2. CASE Attach(w, s)
      BY <3>2 DEF Attach, Begin
    <3>3. CASE Change(w, s)
      BY <3>3 DEF Change, Begin
    <3> QED
      BY <2>2, <3>1, <3>2, <3>3
  <2>3. ASSUME NEW w \in Workers, NEW s \in Slugs, NEW more \in SUBSET Slugs, Apply(w, s, more)
        PROVE  Truthful'
    BY <2>3 DEF Apply, Ready, Begin
  <2>4. ASSUME NEW w \in Workers, Publish(w) PROVE Truthful'
    BY <2>4 DEF Publish
  <2>5. ASSUME NEW w \in Workers, CloneEnds(w) \/ AttachCloned(w) PROVE Truthful'
    BY <2>5 DEF CloneEnds, AttachCloned, Clones
  <2>6. ASSUME NEW w \in Workers, RecordClone(w) PROVE Truthful'
    <3>1. PICK m : m.registration = copy[w].registration /\ Write(w, m)
      BY <2>6, Parts DEF RecordClone
    <3>2. pc[w] \in {"cloned", "cloneFailed"} /\ pc'[w] \in {"registering", "idle"}
      BY <2>6 DEF RecordClone
    <3> QED
      BY <2>6, <3>1, <3>2 DEF RecordClone, Write
  <2>7. ASSUME NEW w \in Workers, Register(w) PROVE Truthful'
    <3>1. native'[target[w]] > 0 \/ native' = native
      BY <2>7 DEF Register
    <3>2. \A s \in Slugs : native[s] > 0 => native'[s] > 0
      BY <2>7, <3>1 DEF Register
    <3>3. pc'[w] \in Sure => native'[target[w]] > 0
      BY <2>7 DEF Register, Done
    <3>4. \A v \in Workers : todo'[v] \subseteq todo[v] /\ (v # w => pc'[v] = pc[v])
      BY <2>7 DEF Register
    <3>5. pc[w] # "idle" /\ UNCHANGED <<manifest, target, copy, losses>>
      BY <2>7 DEF Register
    <3> QED
      BY <3>2, <3>3, <3>4, <3>5
  <2>8. ASSUME NEW w \in Workers, RecordRegistration(w) PROVE Truthful'
    BY <2>8 DEF RecordRegistration, Write, Outcome, Done
  <2>9. ASSUME NEW w \in Workers, AddFolder(w) PROVE Truthful'
    BY <2>9 DEF AddFolder, AfterClone
  <2>10. ASSUME NEW w \in Workers, Declare(w) \/ Synchronize(w) PROVE Truthful'
    <3>0. copy[w] \in Manifests /\ manifest[target[w]] \in Manifests
      OBVIOUS
    <3>1. CASE Declare(w)
      <4>1. PICK m : m.registration = copy[w].registration /\ Write(w, m)
        BY <3>0, <3>1, Parts DEF Declare
      <4>2. pc[w] = "declaring" /\ pc'[w] = "synchronizing" /\ \A v \in Workers : v # w => pc'[v] = pc[v]
        BY <3>1 DEF Declare
      <4>3. UNCHANGED <<native, target, todo, losses>>
        BY <3>1 DEF Declare
      <4> QED
        BY <4>1, <4>2, <4>3 DEF Write
    <3>2. CASE Synchronize(w)
      <4>1. pc[w] = "synchronizing" /\ pc'[w] = "idle" /\ \A v \in Workers : v # w => pc'[v] = pc[v]
        BY <3>2 DEF Synchronize
      <4>2. UNCHANGED <<native, target, todo, losses>>
        BY <3>2 DEF Synchronize
      <4>3. CASE UNCHANGED <<manifest, copy>>
        BY <4>1, <4>2, <4>3
      <4>4. CASE Write(w, [manifest[target[w]] EXCEPT !.registration = "registered"])
        <5>1. PICK m : m.registration = "registered" /\ Write(w, m)
          BY <3>0, <4>4, Parts
        <5> QED
          BY <4>1, <4>2, <5>1 DEF Write
      <4> QED
        BY <3>2, <4>3, <4>4 DEF Synchronize
    <3> QED
      BY <2>10, <3>1, <3>2
  <2>11. ASSUME NEW w \in Workers, ApplyNext(w) PROVE Truthful'
    BY <2>11 DEF ApplyNext
  <2>12. CASE Crash
    BY <2>12 DEF Crash
  <2>13. CASE LoseNative
    BY <2>13 DEF LoseNative
  <2>14. CASE UNCHANGED vars
    BY <2>14 DEF vars
  <2>15. ASSUME NEW s \in Slugs, Adopt(s) PROVE Truthful'
    <3>1. UNCHANGED <<manifest, pc, target, copy, todo, losses>>
      BY <2>15 DEF Adopt
    <3>2. \A t \in Slugs : native[t] > 0 => native'[t] > 0
      BY <2>15 DEF Adopt
    <3> QED
      BY <3>1, <3>2
  <2> QED
    BY <1>2, <2>1, <2>2, <2>3, <2>4, <2>5, <2>6, <2>7, <2>8, <2>9, <2>10, <2>11, <2>12, <2>13, <2>15,
       <2>14, <2>15 DEF Next
<1> QED
  BY <1>1, <1>2, TypeCorrect, PTL DEF Spec

\* The steps of a request that has found no row and has not registered its slug.
Before == {"repairing", "applying"}

\* A slug without overlaps has one worker on it, that comes to it once, and there
\* is still no row if it has looked for one.
Alone(s) ==
  /\ \A v, w \in Workers : On(v, s) /\ On(w, s) => v = w
  /\ s \notin doubled
  /\ \A w \in Workers :
       /\ pc[w] # "idle" /\ target[w] = s => \A e \in todo[w] : e.slug # s
       /\ pc[w] \in Before /\ target[w] = s => Rows(s) = 0
       /\ \A e \in todo[w] : e.slug = s => Rows(s) = 0

Whole(s) ==
  /\ nativeRepo[s] => native[s] > 0 /\ repo[s] = "whole"
  /\ repo[s] = "partial" => \E w \in Workers : pc[w] \in {"cloning", "attaching"} /\ target[w] = s
  /\ \A w \in Workers :
       target[w] = s =>
         /\ pc[w] \in {"cloned", "adding"} => repo[s] = "whole"
         /\ pc[w] = "registering" /\ copy[w].clone = "cloned" => repo[s] = "whole"
         /\ pc[w] \in {"cloning", "attaching"} => repo[s] = "partial"

SlugInv == \A s \in Slugs \ disturbed : Alone(s) /\ Whole(s)

\* A request that begins finds no other worker on a slug that it leaves alone.
LEMMA BeginAlone ==
  ASSUME TypeOK, NEW w \in Workers, NEW next \in Steps, NEW e \in Entries, NEW more \in SUBSET Entries,
         Begin(w, next, e, more), UNCHANGED <<native, foreign, doubled>>,
         NEW s \in Slugs, s \notin disturbed', Alone(s),
         e.slug = s /\ next \in Before => Rows(s) = 0,
         \A f \in more : f.slug = s => Rows(s) = 0
  PROVE  Alone(s)'
<1>1. /\ pc[w] = "idle"
      /\ pc' = [pc EXCEPT ![w] = next] /\ target' = [target EXCEPT ![w] = e.slug]
      /\ todo' = [todo EXCEPT ![w] = more]
  BY DEF Begin, Go
<1>2. ~(e.slug = s /\ \E f \in more : f.slug = s)
  BY DEF Begin
<1>3. \A v \in Workers : v # w => (On(v, s)' <=> On(v, s))
  BY <1>1 DEF On, TypeOK
<1>4. On(w, s)' => e.slug = s \/ \E f \in more : f.slug = s
  BY <1>1 DEF On, TypeOK
<1>5. (e.slug = s \/ \E f \in more : f.slug = s) => \A v \in Workers : ~On(v, s)
  BY DEF Begin, OnSlug
<1>6. \A u, v \in Workers : On(u, s)' /\ On(v, s)' => u = v
  BY <1>3, <1>4, <1>5 DEF Alone
<1>7. ASSUME NEW v \in Workers
      PROVE  /\ pc'[v] # "idle" /\ target'[v] = s => \A f \in todo'[v] : f.slug # s
             /\ pc'[v] \in Before /\ target'[v] = s => Rows(s)' = 0
             /\ \A f \in todo'[v] : f.slug = s => Rows(s)' = 0
  BY <1>1, <1>2 DEF Alone, TypeOK, Rows
<1> QED
  BY <1>6, <1>7 DEF Alone

\* A step of a worker on a slug it has in hand, that does not register it and
\* keeps its turn, leaves every slug as alone as it was.
LEMMA StepAlone ==
  ASSUME TypeOK, NEW w \in Workers, pc[w] # "idle",
         \A v \in Workers : v # w => pc'[v] = pc[v],
         pc'[w] \in Before => pc[w] \in Before,
         target' = target,
         \A v \in Workers : todo'[v] \subseteq todo[v],
         NEW s \in Slugs, Alone(s), Rows(s)' = Rows(s), doubled' = doubled \/ s \notin doubled'
  PROVE  Alone(s)'
<1>1. \A v \in Workers : On(v, s)' => On(v, s)
  BY DEF On
<1>2. ASSUME NEW v \in Workers
      PROVE  /\ pc'[v] # "idle" /\ target'[v] = s => \A f \in todo'[v] : f.slug # s
             /\ pc'[v] \in Before /\ target'[v] = s => Rows(s)' = 0
             /\ \A f \in todo'[v] : f.slug = s => Rows(s)' = 0
  BY DEF Alone
<1> QED
  BY <1>1, <1>2 DEF Alone

\* A step of a worker leaves the repositories of other slugs as whole as they were.
LEMMA OtherWhole ==
  ASSUME NEW w \in Workers, NEW s \in Slugs, Whole(s),
         \A v \in Workers : v # w => pc'[v] = pc[v] /\ target'[v] = target[v] /\ copy'[v] = copy[v],
         pc[w] # "idle" => target[w] # s,
         target'[w] # s,
         repo'[s] = repo[s], nativeRepo'[s] = nativeRepo[s],
         native[s] > 0 => native'[s] > 0
  PROVE  Whole(s)'
<1>1. repo'[s] = "partial" => \E v \in Workers : pc'[v] \in {"cloning", "attaching"} /\ target'[v] = s
  BY DEF Whole
<1> QED
  BY <1>1 DEF Whole

\* The repository of a slug is what the one worker on it makes of it.
LEMMA OwnWhole ==
  ASSUME TypeOK, NEW w \in Workers, pc[w] # "idle", NEW s \in Slugs, target[w] = s, Alone(s),
         \A v \in Workers : v # w => pc'[v] = pc[v],
         target' = target,
         nativeRepo'[s] => native'[s] > 0 /\ repo'[s] = "whole",
         repo'[s] = "partial" => pc'[w] \in {"cloning", "attaching"},
         pc'[w] \in {"cloned", "adding"} => repo'[s] = "whole",
         pc'[w] = "registering" /\ copy'[w].clone = "cloned" => repo'[s] = "whole",
         pc'[w] \in {"cloning", "attaching"} => repo'[s] = "partial"
  PROVE  Whole(s)'
<1>1. \A v \in Workers : v # w /\ target[v] = s => pc'[v] = "idle"
  BY DEF Alone, On
<1> QED
  BY <1>1 DEF Whole

\* No step forgets an overlap.
LEMMA DisturbedGrows ==
  ASSUME [Next]_vars
  PROVE  disturbed \subseteq disturbed'
<1> USE DEF diskVars, nativeVars, workVars
<1>1. ASSUME NEW w \in Workers, NEW next, NEW e, NEW more, Begin(w, next, e, more)
      PROVE  disturbed \subseteq disturbed'
  BY <1>1 DEF Begin
<1>2. ASSUME NEW w \in Workers, NEW t \in Slugs,
             \/ CreateWorkspace(w, t) \/ CreateClone(w, t) \/ Repair(w, t) \/ Attach(w, t)
             \/ Change(w, t) \/ \E more \in SUBSET Slugs : Apply(w, t, more)
      PROVE  disturbed \subseteq disturbed'
  BY <1>1, <1>2 DEF CreateWorkspace, CreateClone, Repair, Attach, Change, Apply
<1>3. ASSUME NEW w \in Workers, CloneEnds(w) \/ AttachCloned(w)
      PROVE  disturbed \subseteq disturbed'
  BY <1>3 DEF CloneEnds, AttachCloned, Clones
<1>4. ASSUME NEW w \in Workers,
             \/ Publish(w) \/ RecordClone(w) \/ Register(w) \/ RecordRegistration(w)
             \/ AddFolder(w) \/ Declare(w) \/ Synchronize(w) \/ ApplyNext(w)
      PROVE  disturbed \subseteq disturbed'
  BY <1>4 DEF Publish, RecordClone, Register, RecordRegistration, AddFolder, Declare,
     Synchronize, ApplyNext
<1>5. CASE Crash \/ LoseNative \/ UNCHANGED vars
  BY <1>5 DEF Crash, LoseNative, vars
<1>6. ASSUME NEW s \in Slugs, Adopt(s) PROVE disturbed \subseteq disturbed'
  BY <1>6 DEF Adopt
<1> QED
  BY <1>2, <1>3, <1>4, <1>5, <1>6 DEF Next

\* On a slug without overlaps one worker at a time makes what registrations there
\* are, of a whole repository, and none that looked for a row finds one too late.
THEOREM SlugInvariant == Spec => []SlugInv
<1>1. Init => SlugInv
  BY DEF Init, SlugInv, Alone, Whole, On, Before
<1>2. ASSUME SlugInv, Grounded, TypeOK, [Next]_vars PROVE SlugInv'
  <2> SUFFICES ASSUME NEW s \in Slugs, s \notin disturbed' PROVE Alone(s)' /\ Whole(s)'
    BY DEF SlugInv
  <2> USE DEF diskVars, nativeVars, workVars
  <2>0. s \notin disturbed
    BY <1>2, DisturbedGrows
  <2>a. Alone(s) /\ Whole(s)
    BY <1>2, <2>0 DEF SlugInv
  <2>b. ASSUME NEW w \in Workers, NEW next \in Steps, NEW e \in Entries, NEW more \in SUBSET Entries,
               Begin(w, next, e, more), UNCHANGED <<repo, nativeVars>>,
               next \notin {"cloned", "adding", "registering", "cloning", "attaching"}
        PROVE  Whole(s)'
    <3>1. /\ pc[w] = "idle" /\ pc'[w] = next
          /\ \A v \in Workers : v # w => pc'[v] = pc[v] /\ target'[v] = target[v] /\ copy'[v] = copy[v]
      BY <1>2, <2>b DEF Begin, Go, TypeOK
    <3>2. repo'[s] = "partial" => \E v \in Workers : pc'[v] \in {"cloning", "attaching"} /\ target'[v] = s
      BY <2>a, <2>b, <3>1 DEF Whole
    <3> QED
      BY <2>a, <2>b, <3>1, <3>2 DEF Whole
  <2>c. {"staged", "stagedClone", "repairing", "attaching", "synchronizing", "applying"} \subseteq Steps
    BY DEF Steps
  <2>1. ASSUME NEW w \in Workers, NEW t \in Slugs, CreateWorkspace(w, t) \/ CreateClone(w, t)
        PROVE  Alone(s)' /\ Whole(s)'
    <3>1. PICK next \in {"staged", "stagedClone"}, m \in Manifests : Begin(w, next, Entry(t, m), {})
      BY <2>1 DEF CreateWorkspace, CreateClone, NewManifest, NewCloneManifest, Manifests
    <3>2. Entry(t, m) \in Entries /\ Entry(t, m).slug = t /\ {} \in SUBSET Entries
      BY DEF Entry, Entries
    <3>3. UNCHANGED <<repo, nativeVars, doubled>> /\ next \notin Before
      BY <1>2, <2>1 DEF CreateWorkspace, CreateClone, Before
    <3>4. Alone(s)'
      BY <1>2, <2>a, <2>c, <3>1, <3>2, <3>3, BeginAlone
    <3> QED
      BY <2>b, <2>c, <3>1, <3>2, <3>3, <3>4
  <2>2. ASSUME NEW w \in Workers, NEW t \in Slugs, Repair(w, t) PROVE Alone(s)' /\ Whole(s)'
    <3>1. Begin(w, "repairing", Entry(t, manifest[t]), {}) /\ UNCHANGED <<repo, nativeVars, doubled>> /\ Rows(t) = 0
      BY <2>2 DEF Repair
    <3>2. /\ Entry(t, manifest[t]) \in Entries /\ Entry(t, manifest[t]).slug = t
          /\ {} \in SUBSET Entries
      BY <1>2 DEF Entry, Entries, TypeOK
    <3>3. Alone(s)'
      BY <1>2, <2>a, <2>c, <3>1, <3>2, BeginAlone
    <3> QED
      BY <2>b, <2>c, <3>1, <3>2, <3>3
  <2>15. ASSUME NEW w \in Workers, NEW t \in Slugs, Change(w, t) PROVE Alone(s)' /\ Whole(s)'
    <3> DEFINE e == Entry(t, manifest[t])
    <3>1. e \in Entries /\ e.slug = t /\ {} \in SUBSET Entries
      BY <1>2 DEF Entry, Entries, TypeOK
    <3>2. /\ Begin(w, "synchronizing", e, {}) /\ UNCHANGED <<repo, native, foreign, doubled>> /\ native[t] > 0
          /\ nativeRepo'[t] => nativeRepo[t] \/ repo[t] # "absent"
          /\ s # t => nativeRepo'[s] = nativeRepo[s]
      BY <1>2, <2>15 DEF Change, TypeOK
    <3> HIDE DEF e
    <3>3. "synchronizing" \notin Before
      BY DEF Before
    <3>4. Alone(s)'
      BY <1>2, <2>a, <2>c, <3>1, <3>2, <3>3, BeginAlone
    <3>5. /\ pc[w] = "idle" /\ pc'[w] = "synchronizing"
          /\ \A v \in Workers : v # w => pc'[v] = pc[v] /\ target'[v] = target[v] /\ copy'[v] = copy[v]
      BY <1>2, <3>1, <3>2 DEF Begin, Go, TypeOK
    <3>6. s = t => \A v \in Workers : ~On(v, s)
      BY <1>2, <3>1, <3>2 DEF Begin, OnSlug
    <3>7. nativeRepo'[s] => native[s] > 0 /\ repo[s] = "whole"
      BY <1>2, <2>a, <3>2, <3>6 DEF Whole, On, TypeOK
    <3>8. repo'[s] = "partial" => \E v \in Workers : pc'[v] \in {"cloning", "attaching"} /\ target'[v] = s
      BY <2>a, <3>2, <3>5 DEF Whole
    <3> QED
      BY <2>a, <3>2, <3>4, <3>5, <3>7, <3>8 DEF Whole
  <2>3. ASSUME NEW w \in Workers, NEW t \in Slugs, NEW more \in SUBSET Slugs, Apply(w, t, more)
        PROVE  Alone(s)' /\ Whole(s)'
    <3> DEFINE e == Entry(t, manifest[t])
               rest == {Entry(u, manifest[u]) : u \in more}
    <3>1. e \in Entries /\ e.slug = t /\ rest \in SUBSET Entries
      BY <1>2 DEF Entry, Entries, TypeOK
    <3>2. Begin(w, "applying", e, rest) /\ UNCHANGED <<repo, nativeVars, doubled>>
      BY <2>3 DEF Apply
    <3>3. Rows(t) = 0 /\ \A f \in rest : f.slug = s => Rows(s) = 0
      BY <2>3 DEF Apply, Ready, Unregistered, Entry
    <3> HIDE DEF e, rest
    <3>4. Alone(s)'
      BY <1>2, <2>a, <2>c, <3>1, <3>2, <3>3, BeginAlone
    <3> QED
      BY <2>b, <2>c, <3>1, <3>2, <3>4
  <2>4. ASSUME NEW w \in Workers, NEW t \in Slugs, Attach(w, t) PROVE Alone(s)' /\ Whole(s)'
    <3> DEFINE e == Entry(t, manifest[t])
    <3>1. e \in Entries /\ e.slug = t /\ {} \in SUBSET Entries
      BY <1>2 DEF Entry, Entries, TypeOK
    <3>2. Begin(w, "attaching", e, {}) /\ UNCHANGED <<nativeVars, doubled>>
      BY <2>4 DEF Attach
    <3> HIDE DEF e
    <3>3. "attaching" \notin Before
      BY DEF Before
    <3>4. Alone(s)'
      BY <1>2, <2>a, <2>c, <3>1, <3>2, <3>3, BeginAlone
    <3>5. /\ pc[w] = "idle" /\ pc'[w] = "attaching" /\ target'[w] = t
          /\ \A v \in Workers : v # w => pc'[v] = pc[v] /\ target'[v] = target[v] /\ copy'[v] = copy[v]
      BY <1>2, <3>1, <3>2 DEF Begin, Go, TypeOK
    <3>6. repo[t] = "absent" /\ repo' = [repo EXCEPT ![t] = "partial"]
      BY <2>4 DEF Attach
    <3>7. CASE s # t
      <4>1. repo'[s] = repo[s] /\ nativeRepo'[s] = nativeRepo[s] /\ native' = native
        BY <1>2, <3>2, <3>6, <3>7 DEF TypeOK
      <4> QED
        BY <2>a, <3>4, <3>5, <3>7, <4>1, OtherWhole
    <3>8. CASE s = t
      <4>1. \A v \in Workers : v # w => ~On(v, s)
        BY <1>2, <3>1, <3>2, <3>8 DEF Begin, OnSlug
      <4>2. \A v \in Workers : v # w /\ target[v] = s => pc[v] = "idle"
        BY <4>1 DEF On
      <4>3. ~nativeRepo[s] /\ repo'[s] = "partial"
        BY <1>2, <2>a, <3>6, <3>8 DEF Whole, TypeOK
      <4> QED
        BY <3>2, <3>4, <3>5, <3>8, <4>2, <4>3 DEF Whole
    <3> QED
      BY <3>4, <3>7, <3>8
  <2>d. ASSUME NEW w \in Workers, pc[w] # "idle", UNCHANGED <<target, native, foreign, doubled>>,
               \A v \in Workers : v # w => pc'[v] = pc[v] /\ copy'[v] = copy[v],
               \A v \in Workers : todo'[v] \subseteq todo[v],
               pc'[w] \in Before => pc[w] \in Before,
               \A t \in Slugs : t # target[w] => repo'[t] = repo[t] /\ nativeRepo'[t] = nativeRepo[t],
               target[w] = s =>
                 /\ nativeRepo'[s] => native[s] > 0 /\ repo'[s] = "whole"
                 /\ repo'[s] = "partial" => pc'[w] \in {"cloning", "attaching"}
                 /\ pc'[w] \in {"cloned", "adding"} => repo'[s] = "whole"
                 /\ pc'[w] = "registering" /\ copy'[w].clone = "cloned" => repo'[s] = "whole"
                 /\ pc'[w] \in {"cloning", "attaching"} => repo'[s] = "partial"
        PROVE  Alone(s)' /\ Whole(s)'
    <3>1. Alone(s)'
      <4>1. Rows(s)' = Rows(s)
        BY <2>d DEF Rows
      <4> QED
        BY <1>2, <2>a, <2>d, <4>1, StepAlone
    <3>2. CASE target[w] # s
      <4>1. repo'[s] = repo[s] /\ nativeRepo'[s] = nativeRepo[s] /\ target'[w] # s
        BY <2>d, <3>2
      <4>2. \A v \in Workers : v # w => pc'[v] = pc[v] /\ target'[v] = target[v] /\ copy'[v] = copy[v]
        BY <2>d
      <4>3. native[s] > 0 => native'[s] > 0
        BY <2>d
      <4> QED
        BY <2>a, <3>1, <3>2, <4>1, <4>2, <4>3, OtherWhole
    <3>3. CASE target[w] = s
      <4>1. nativeRepo'[s] => native'[s] > 0 /\ repo'[s] = "whole"
        BY <2>d, <3>3
      <4>2. /\ repo'[s] = "partial" => pc'[w] \in {"cloning", "attaching"}
            /\ pc'[w] \in {"cloned", "adding"} => repo'[s] = "whole"
            /\ pc'[w] = "registering" /\ copy'[w].clone = "cloned" => repo'[s] = "whole"
            /\ pc'[w] \in {"cloning", "attaching"} => repo'[s] = "partial"
        BY <2>d, <3>3
      <4> QED
        BY <1>2, <2>a, <2>d, <3>1, <3>3, <4>1, <4>2, OwnWhole
    <3> QED
      BY <3>1, <3>2, <3>3
  <2>e. ASSUME NEW w \in Workers, pc[w] # "idle", target[w] = s
        PROVE  /\ nativeRepo[s] => native[s] > 0 /\ repo[s] = "whole"
               /\ repo[s] = "partial" => pc[w] \in {"cloning", "attaching"}
               /\ pc[w] \in Before => Rows(s) = 0
               /\ pc[w] \in {"cloned", "adding"} => repo[s] = "whole"
               /\ pc[w] = "registering" /\ copy[w].clone = "cloned" => repo[s] = "whole"
               /\ pc[w] \in {"cloning", "attaching"} => repo[s] = "partial"
    BY <1>2, <2>a, <2>e DEF Alone, Whole, On, TypeOK
  <2>5. ASSUME NEW w \in Workers, Publish(w) PROVE Alone(s)' /\ Whole(s)'
    <3>1. pc[w] \in {"staged", "stagedClone"} /\ UNCHANGED <<nativeVars, target, copy, todo, doubled>>
      BY <2>5 DEF Publish
    <3>2. \A v \in Workers : v # w => pc'[v] = pc[v]
      BY <1>2, <2>5 DEF Publish, Go, TypeOK
    <3>3. pc'[w] \notin Before
      BY <1>2, <2>5 DEF Publish, Go, TypeOK, Before
    <3>4. CASE Exists(target[w])
      <4>1. pc'[w] = "idle" /\ repo' = repo
        BY <1>2, <2>5, <3>4 DEF Publish, Go, TypeOK
      <4> QED
        BY <2>d, <2>e, <3>1, <3>2, <3>3, <4>1
    <3>5. CASE ~Exists(target[w])
      <4>1. repo[target[w]] = "absent"
        BY <1>2, <3>5 DEF Grounded, TypeOK
      <4>2. CASE pc[w] = "staged"
        <5>1. pc'[w] = "registering" /\ repo' = repo /\ copy[w].clone = "none"
          BY <1>2, <2>5, <3>5, <4>2 DEF Publish, Go, TypeOK, Grounded, InHand
        <5> QED
          BY <2>d, <2>e, <3>1, <3>2, <3>3, <4>1, <5>1
      <4>3. CASE pc[w] = "stagedClone"
        <5>1. pc'[w] = "cloning" /\ repo' = [repo EXCEPT ![target[w]] = "partial"]
          BY <1>2, <2>5, <3>5, <4>3 DEF Publish, Go, TypeOK
        <5>2. \A t \in Slugs : t # target[w] => repo'[t] = repo[t]
          BY <5>1
        <5>3. repo'[target[w]] = "partial"
          BY <1>2, <5>1 DEF TypeOK
        <5> QED
          BY <2>d, <2>e, <3>1, <3>2, <3>3, <4>1, <5>1, <5>2, <5>3
      <4> QED
        BY <3>1, <4>2, <4>3
    <3> QED
      BY <3>4, <3>5
  <2>6. ASSUME NEW w \in Workers, CloneEnds(w) \/ AttachCloned(w) PROVE Alone(s)' /\ Whole(s)'
    <3>1. /\ pc[w] \in {"cloning", "attaching"} /\ UNCHANGED <<nativeVars, target, copy, todo, doubled>>
          /\ pc'[w] \in {"cloned", "cloneFailed", "adding", "idle"}
          /\ pc'[w] \notin Before
          /\ \A v \in Workers : v # w => pc'[v] = pc[v]
          /\ \A t \in Slugs : t # target[w] => repo'[t] = repo[t]
      BY <1>2, <2>6 DEF CloneEnds, AttachCloned, Clones, Go, TypeOK, Before
    <3>2. /\ target[w] = s => repo'[s] \in {"whole", "absent"}
          /\ pc'[w] \in {"cloned", "adding"} => repo'[target[w]] = "whole"
      <4>1. \/ disturbed' = disturbed \union {target[w]} /\ pc'[w] \in {"cloneFailed", "idle"}
            \/ repo' = [repo EXCEPT ![target[w]] = "whole"]
            \/ repo' = [repo EXCEPT ![target[w]] = "absent"] /\ pc'[w] \in {"cloneFailed", "idle"}
        BY <1>2, <2>6 DEF CloneEnds, AttachCloned, Clones, Go, TypeOK
      <4> QED
        BY <1>2, <4>1 DEF TypeOK
    <3>3. target[w] = s => ~nativeRepo[s]
      BY <2>e, <3>1
    <3> QED
      BY <2>d, <3>1, <3>2, <3>3
  <2>7. ASSUME NEW w \in Workers, RecordClone(w) PROVE Alone(s)' /\ Whole(s)'
    <3>1. /\ pc[w] \in {"cloned", "cloneFailed"} /\ UNCHANGED <<repo, nativeVars, target, todo, doubled>>
          /\ pc'[w] \in {"registering", "idle"} /\ (pc'[w] = "registering" => pc[w] = "cloned")
          /\ \A v \in Workers : v # w => pc'[v] = pc[v] /\ copy'[v] = copy[v]
      BY <1>2, <2>7 DEF RecordClone, Write, Go, TypeOK
    <3>2. pc'[w] \notin Before
      BY <3>1 DEF Before
    <3> QED
      BY <2>d, <2>e, <3>1, <3>2
  <2>8. ASSUME NEW w \in Workers, Register(w) PROVE Alone(s)' /\ Whole(s)'
    <3>1. /\ pc[w] \in {"registering", "repairing", "applying"} /\ UNCHANGED <<repo, target, copy>>
          /\ \A v \in Workers : v # w => pc'[v] = pc[v]
          /\ \A v \in Workers : todo'[v] \subseteq todo[v]
      BY <1>2, <2>8 DEF Register, Go, TypeOK
    <3>2. pc'[w] \in {"registered", "registerFailed", "between", "idle"} /\ pc'[w] \notin Before
      BY <1>2, <2>8 DEF Register, Go, Done, TypeOK, Before
    <3>3. CASE UNCHANGED <<nativeVars, doubled>>
      <4>2. target[w] = s => repo[s] # "partial"
        BY <2>e, <3>1
      <4> QED
        BY <2>d, <2>e, <3>1, <3>2, <3>3, <4>2
    <3>4. CASE /\ pc' = [pc EXCEPT ![w] = "registered"]
               /\ native' = [native EXCEPT ![target[w]] = @ + 1] /\ foreign' = foreign
               /\ doubled' = doubled \/ doubled' = doubled \union {target[w]}
               /\ pc[w] \in Before /\ Rows(target[w]) = 0 => doubled' = doubled
               /\ pc[w] = "registering" => doubled' = doubled
               /\ nativeRepo' = [nativeRepo EXCEPT ![target[w]] = RegistersRepo(w)]
      <4>1. pc'[w] = "registered" /\ pc'[w] \notin Before
        BY <1>2, <3>2, <3>4 DEF TypeOK
      <4>2. CASE target[w] # s
        <5>1. native'[s] = native[s] /\ nativeRepo'[s] = nativeRepo[s] /\ target'[w] # s
          BY <1>2, <3>1, <3>4, <4>2 DEF TypeOK
        <5>2. Alone(s)'
          <6>1. Rows(s)' = Rows(s) /\ s \notin doubled'
            BY <2>a, <3>4, <4>2, <5>1 DEF Rows, Alone
          <6> QED
            BY <1>2, <2>a, <3>1, <4>1, <6>1, StepAlone
        <5>3. Whole(s)'
          BY <2>a, <3>1, <4>2, <5>1, OtherWhole
        <5> QED
          BY <5>2, <5>3
      <4>3. CASE target[w] = s
        <5>1. native'[s] > 0 /\ nativeRepo'[s] = RegistersRepo(w)
          BY <1>2, <3>4, <4>3 DEF TypeOK
        <5>0. s \notin doubled'
          BY <2>a, <2>e, <3>1, <3>4, <4>3 DEF Alone, Before
        <5>2. RegistersRepo(w) => repo[s] = "whole"
          BY <1>2, <2>e, <3>1, <4>3 DEF RegistersRepo, TypeOK
        <5>3. On(w, s)
          BY <3>1, <4>3 DEF On
        <5>4. \A v \in Workers : v # w => ~On(v, s)
          BY <2>a, <5>3 DEF Alone
        <5>5. \A v \in Workers : On(v, s)' => On(v, s)
          BY <3>1 DEF On
        <5>6. ASSUME NEW v \in Workers
              PROVE  /\ pc'[v] # "idle" /\ target'[v] = s => \A f \in todo'[v] : f.slug # s
                     /\ pc'[v] \notin Before \/ target'[v] # s
                     /\ \A f \in todo'[v] : f.slug # s
          <6>1. CASE v = w
            BY <2>a, <3>1, <4>1, <4>3, <6>1 DEF Alone
          <6>2. CASE v # w
            <7>1. pc[v] = "idle" => todo[v] = {}
              BY <1>2 DEF Grounded, InHand
            <7> QED
              BY <3>1, <5>4, <6>2, <7>1 DEF On, Before
          <6> QED
            BY <6>1, <6>2
        <5>7. Alone(s)'
          BY <2>a, <5>0, <5>5, <5>6 DEF Alone
        <5>8. repo'[s] # "partial"
          BY <2>e, <3>1, <4>3
        <5>9. Whole(s)'
          BY <1>2, <2>a, <3>1, <4>1, <4>3, <5>1, <5>2, <5>8, OwnWhole
        <5> QED
          BY <5>7, <5>9
      <4> QED
        BY <4>2, <4>3
    <3>5. pc[w] \in Before <=> pc[w] # "registering"
      BY <3>1 DEF Before
    <3>6. Rows(target[w]) = 0 => ~(Rows(target[w]) > 0)
      OBVIOUS
    <3> QED
      BY <2>8, <3>3, <3>4, <3>5, <3>6 DEF Register, Go
  <2>9. ASSUME NEW w \in Workers, RecordRegistration(w) \/ Declare(w) \/ Synchronize(w)
        PROVE  Alone(s)' /\ Whole(s)'
    <3>1. /\ pc[w] \in {"registered", "registerFailed", "declaring", "synchronizing"}
          /\ UNCHANGED <<repo, nativeVars, target, todo, doubled>>
          /\ pc'[w] \in {"between", "idle", "synchronizing"}
          /\ \A v \in Workers : v # w => pc'[v] = pc[v] /\ copy'[v] = copy[v]
      BY <1>2, <2>9 DEF RecordRegistration, Declare, Synchronize, Write, Go, Done, TypeOK
    <3>2. pc'[w] \notin Before
      BY <3>1 DEF Before
    <3> QED
      BY <2>d, <2>e, <3>1, <3>2
  <2>10. ASSUME NEW w \in Workers, AddFolder(w) PROVE Alone(s)' /\ Whole(s)'
    <3>1. /\ pc[w] = "adding" /\ UNCHANGED <<repo, native, foreign, target, copy, todo, doubled>>
          /\ pc'[w] \in {"declaring", "idle"}
          /\ \A v \in Workers : v # w => pc'[v] = pc[v]
      BY <1>2, <2>10 DEF AddFolder, AfterClone, Go, TypeOK
    <3>2. \/ nativeRepo' = nativeRepo
          \/ native[target[w]] > 0 /\ nativeRepo' = [nativeRepo EXCEPT ![target[w]] = TRUE]
      BY <2>10 DEF AddFolder
    <3>3. \A t \in Slugs : t # target[w] => nativeRepo'[t] = nativeRepo[t]
      BY <1>2, <3>2 DEF TypeOK
    <3>4. pc'[w] \notin Before
      BY <3>1 DEF Before
    <3>5. target[w] = s => (nativeRepo'[s] => native[s] > 0) /\ repo[s] = "whole"
      BY <2>e, <3>1, <3>2
    <3> QED
      BY <2>d, <3>1, <3>3, <3>4, <3>5
  <2>11. ASSUME NEW w \in Workers, ApplyNext(w) PROVE Alone(s)' /\ Whole(s)'
    <3>1. PICK e \in todo[w] : /\ target' = [target EXCEPT ![w] = e.slug]
                               /\ copy' = [copy EXCEPT ![w] = e.manifest]
                               /\ todo' = [todo EXCEPT ![w] = @ \ {e}]
      BY <2>11 DEF ApplyNext
    <3>2. /\ pc[w] = "between" /\ pc' = [pc EXCEPT ![w] = "applying"] /\ UNCHANGED <<repo, nativeVars, doubled>>
      BY <2>11 DEF ApplyNext, Go
    <3>3. /\ pc'[w] = "applying" /\ target'[w] = e.slug /\ todo'[w] = todo[w] \ {e}
          /\ \A v \in Workers : v # w => /\ pc'[v] = pc[v] /\ target'[v] = target[v]
                                         /\ copy'[v] = copy[v] /\ todo'[v] = todo[v]
      BY <1>2, <3>1, <3>2 DEF TypeOK
    <3>4. \A f \in todo[w] : f.slug = e.slug => f = e
      BY <1>2, <3>1 DEF Grounded, InHand
    <3>5. \A v \in Workers : On(v, s)' => On(v, s)
      BY <3>1, <3>2, <3>3 DEF On
    <3>6. ASSUME NEW v \in Workers
          PROVE  /\ pc'[v] # "idle" /\ target'[v] = s => \A f \in todo'[v] : f.slug # s
                 /\ pc'[v] \in Before /\ target'[v] = s => Rows(s)' = 0
                 /\ \A f \in todo'[v] : f.slug = s => Rows(s)' = 0
      BY <2>a, <3>1, <3>2, <3>3, <3>4 DEF Alone, Rows
    <3>7. Alone(s)'
      BY <2>a, <3>2, <3>5, <3>6 DEF Alone
    <3>8. repo[s] = "partial" => \E v \in Workers : pc'[v] \in {"cloning", "attaching"} /\ target'[v] = s
      BY <2>a, <3>2, <3>3 DEF Whole
    <3>9. Whole(s)'
      BY <2>a, <3>2, <3>3, <3>8 DEF Whole
    <3> QED
      BY <3>7, <3>9
  <2>12. CASE Crash
    <3>1. UNCHANGED <<repo, nativeVars, doubled>> /\ \A v \in Workers : pc'[v] = "idle" /\ todo'[v] = {}
      BY <2>12 DEF Crash
    <3>2. \A v \in Workers : ~On(v, s)
      BY <2>12 DEF Crash, OnSlug
    <3>3. Alone(s)'
      BY <2>a, <3>1 DEF Alone, On, Before
    <3>4. repo[s] # "partial"
      BY <2>a, <3>2 DEF Whole, On
    <3>5. Whole(s)'
      BY <2>a, <3>1, <3>4 DEF Whole
    <3> QED
      BY <3>3, <3>5
  <2>13. CASE LoseNative
    <3>1. UNCHANGED <<repo, workVars>> /\ native'[s] = 0 /\ foreign'[s] = 0 /\ nativeRepo'[s] = FALSE
      BY <2>13 DEF LoseNative
    <3>2. \A v \in Workers : On(v, s)' <=> On(v, s)
      BY <3>1 DEF On
    <3> QED
      BY <2>a, <3>1, <3>2 DEF Alone, Whole, Rows
  <2>14. CASE UNCHANGED vars
    BY <2>a, <2>14 DEF vars, Alone, Whole, On, Rows
  <2>16. ASSUME NEW t \in Slugs, Adopt(t) PROVE Alone(s)' /\ Whole(s)'
    <3>1. UNCHANGED <<repo, pc, target, copy, todo, doubled>> /\ \A v \in Workers : On(v, s)' <=> On(v, s)
      BY <2>16 DEF Adopt, On
    <3>2. s = t => \A v \in Workers : ~On(v, s)
      BY <2>16 DEF Adopt, OnSlug
    <3>3. s # t => nativeRepo'[s] = nativeRepo[s] /\ native'[s] = native[s] /\ Rows(s)' = Rows(s)
      BY <1>2, <2>16 DEF Adopt, Rows, TypeOK
    <3>4. nativeRepo'[s] => native'[s] > 0 /\ repo[s] = "whole"
      <4>1. CASE s # t
        BY <2>a, <3>3, <4>1 DEF Whole
      <4>2. CASE s = t
        <5>1. repo[s] # "partial"
          BY <2>a, <3>2, <4>2 DEF Whole, On
        <5> QED
          BY <1>2, <2>a, <2>16, <4>2, <5>1 DEF Adopt, Whole, TypeOK
      <4> QED
        BY <4>1, <4>2
    <3>5. \A v \in Workers : pc[v] = "idle" => todo[v] = {}
      BY <1>2 DEF Grounded, InHand
    <3>6. Alone(s)'
      <4>1. CASE s # t
        BY <2>a, <3>1, <3>3, <4>1 DEF Alone
      <4>2. CASE s = t
        BY <2>a, <3>1, <3>2, <3>5, <4>2 DEF Alone, On, Before
      <4> QED
        BY <4>1, <4>2
    <3>7. Whole(s)'
      BY <2>a, <3>1, <3>4 DEF Whole
    <3> QED
      BY <3>6, <3>7
  <2> QED
    BY <1>2, <2>1, <2>2, <2>3, <2>4, <2>5, <2>6, <2>7, <2>8, <2>9, <2>10, <2>11, <2>12, <2>13,
       <2>14, <2>15, <2>16 DEF Next
<1> QED
  BY <1>1, <1>2, TypeCorrect, GroundedInvariant, PTL DEF Spec

-----------------------------------------------------------------------------
(* Recovery.                                                               *)

\* On a slug without overlaps nothing is left behind, the one request has the
\* manifest in hand that is on the disk, and a repository that a manifest names
\* is there unless it is being cloned or its clone has failed.
Kept(s) ==
  /\ ~leaked[s]
  /\ \A w \in Workers :
       target[w] = s =>
         /\ pc[w] \in {"staged", "stagedClone"} => ~Exists(s)
         /\ pc[w] = "staged" => ~copy[w].declared
         /\ pc[w] \notin {"idle", "staged", "stagedClone"} => copy[w] = manifest[s]
         /\ pc[w] = "attaching" => ~manifest[s].declared
         /\ pc[w] = "declaring" => repo[s] = "whole"
  /\ \A w \in Workers : \A e \in todo[w] : e.slug = s => e.manifest = manifest[s]
  /\ Exists(s) /\ manifest[s].declared /\ manifest[s].clone # "failed" =>
       \/ repo[s] = "whole"
       \/ \E w \in Workers : pc[w] \in {"cloning", "cloneFailed"} /\ target[w] = s

KeptInv == \A s \in Slugs \ disturbed : Kept(s)

\* A request that begins has in hand what is on the disk.
LEMMA BeginKept ==
  ASSUME TypeOK, NEW w \in Workers, NEW next \in Steps, NEW e \in Entries, NEW more \in SUBSET Entries,
         Begin(w, next, e, more), UNCHANGED <<manifest, leaked>>,
         NEW s \in Slugs, s \notin disturbed', Kept(s),
         e.slug # s => repo'[s] = repo[s],
         next \notin {"idle", "declaring"},
         e.slug = s =>
           /\ next \in {"staged", "stagedClone"} => ~Exists(s)
           /\ next = "staged" => ~e.manifest.declared
           /\ next \notin {"staged", "stagedClone"} => e.manifest = manifest[s]
           /\ next = "attaching" => ~manifest[s].declared
           /\ repo'[s] = repo[s] \/ ~manifest[s].declared,
         \A f \in more : f.slug = s => f.manifest = manifest[s]
  PROVE  Kept(s)'
<1>1. /\ pc[w] = "idle"
      /\ pc' = [pc EXCEPT ![w] = next] /\ target' = [target EXCEPT ![w] = e.slug]
      /\ copy' = [copy EXCEPT ![w] = e.manifest] /\ todo' = [todo EXCEPT ![w] = more]
  BY DEF Begin, Go
<1>2. /\ pc'[w] = next /\ target'[w] = e.slug /\ copy'[w] = e.manifest /\ todo'[w] = more
      /\ \A v \in Workers : v # w => /\ pc'[v] = pc[v] /\ target'[v] = target[v]
                                     /\ copy'[v] = copy[v] /\ todo'[v] = todo[v]
  BY <1>1 DEF TypeOK
<1>3. Exists(s)' <=> Exists(s)
  BY DEF Exists
<1>4. e.slug = s => \A v \in Workers : v # w => ~(pc[v] # "idle" /\ target[v] = s)
  BY DEF Begin, OnSlug, On
<1>5. ASSUME NEW v \in Workers, target'[v] = s
      PROVE  /\ pc'[v] \in {"staged", "stagedClone"} => ~Exists(s)'
             /\ pc'[v] = "staged" => ~copy'[v].declared
             /\ pc'[v] \notin {"idle", "staged", "stagedClone"} => copy'[v] = manifest'[s]
             /\ pc'[v] = "attaching" => ~manifest'[s].declared
             /\ pc'[v] = "declaring" => repo'[s] = "whole"
  <2>1. CASE v = w
    BY <1>2, <1>3, <1>5, <2>1
  <2>2. CASE v # w /\ e.slug = s
    BY <1>2, <1>4, <1>5, <2>2
  <2>3. CASE v # w /\ e.slug # s
    BY <1>2, <1>3, <1>5, <2>3 DEF Kept
  <2> QED
    BY <2>1, <2>2, <2>3
<1>6. \A v \in Workers : \A f \in todo'[v] : f.slug = s => f.manifest = manifest'[s]
  BY <1>2 DEF Kept
<1>7. Exists(s)' /\ manifest'[s].declared /\ manifest'[s].clone # "failed" =>
        \/ repo'[s] = "whole"
        \/ \E v \in Workers : pc'[v] \in {"cloning", "cloneFailed"} /\ target'[v] = s
  BY <1>1, <1>2, <1>3 DEF Kept
<1> QED
  BY <1>5, <1>6, <1>7 DEF Kept

\* A step of the worker on a slug decides what it keeps, and leaves the others alone.
LEMMA StepKept ==
  ASSUME TypeOK, Grounded, NEW w \in Workers, pc[w] # "idle", NEW s \in Slugs, Alone(s), Kept(s),
         \A v \in Workers : v # w => pc'[v] = pc[v] /\ copy'[v] = copy[v],
         target' = target, \A v \in Workers : todo'[v] \subseteq todo[v],
         \A t \in Slugs : t # target[w] =>
           manifest'[t] = manifest[t] /\ repo'[t] = repo[t] /\ leaked'[t] = leaked[t],
         target[w] = s =>
           /\ ~leaked'[s]
           /\ pc'[w] \notin {"staged", "stagedClone", "attaching"}
           /\ pc'[w] # "idle" => copy'[w] = manifest'[s]
           /\ pc'[w] = "declaring" => repo'[s] = "whole"
           /\ manifest'[s].declared /\ manifest'[s].clone # "failed" =>
                repo'[s] = "whole" \/ pc'[w] \in {"cloning", "cloneFailed"}
  PROVE  Kept(s)'
<1>1. CASE target[w] = s
  <2>1. \A v \in Workers : v # w /\ target[v] = s => pc'[v] = "idle"
    BY <1>1 DEF Alone, On
  <2>2. ASSUME NEW v \in Workers, NEW e \in todo[v] PROVE e.slug # s
    <3>1. pc[v] # "idle"
      BY <2>2 DEF Grounded, InHand
    <3> QED
      BY <1>1, <2>2, <3>1 DEF Alone, On
  <2> QED
    BY <1>1, <2>1, <2>2 DEF Kept
<1>2. CASE target[w] # s
  <2>1. manifest'[s] = manifest[s] /\ repo'[s] = repo[s] /\ leaked'[s] = leaked[s] /\ (Exists(s)' <=> Exists(s))
    BY <1>2 DEF Exists
  <2>2. \A v \in Workers : target'[v] = s => v # w
    BY <1>2
  <2>3. (\E v \in Workers : pc[v] \in {"cloning", "cloneFailed"} /\ target[v] = s) =>
          \E v \in Workers : pc'[v] \in {"cloning", "cloneFailed"} /\ target'[v] = s
    BY <1>2
  <2> QED
    BY <2>1, <2>2, <2>3 DEF Kept
<1> QED
  BY <1>1, <1>2

\* What a slug without overlaps keeps.
THEOREM KeptInvariant == Spec => []KeptInv
<1>1. Init => KeptInv
  BY DEF Init, KeptInv, Kept, Exists, NoManifest
<1>2. ASSUME KeptInv, SlugInv, Grounded, TypeOK, [Next]_vars PROVE KeptInv'
  <2> SUFFICES ASSUME NEW s \in Slugs, s \notin disturbed' PROVE Kept(s)'
    BY DEF KeptInv
  <2> USE DEF diskVars, nativeVars, workVars
  <2>0. Kept(s) /\ Alone(s) /\ Whole(s)
    BY <1>2, DisturbedGrows DEF KeptInv, SlugInv
  <2>c. /\ {"staged", "stagedClone", "repairing", "attaching", "synchronizing", "applying"} \subseteq Steps
        /\ {} \in SUBSET Entries
    BY DEF Steps
  <2>1. ASSUME NEW w \in Workers, NEW t \in Slugs, CreateWorkspace(w, t) \/ CreateClone(w, t) PROVE Kept(s)'
    <3>1. PICK next \in {"staged", "stagedClone"}, m \in Manifests :
            Begin(w, next, Entry(t, m), {}) /\ (next = "staged" => ~m.declared)
      <4>1. {NewManifest, NewCloneManifest} \subseteq Manifests /\ ~NewManifest.declared
        BY DEF NewManifest, NewCloneManifest, Manifests
      <4> QED
        BY <2>1, <4>1 DEF CreateWorkspace, CreateClone
    <3>2. Entry(t, m) \in Entries /\ Entry(t, m).slug = t /\ Entry(t, m).manifest = m
      BY DEF Entry, Entries
    <3>3. ~Exists(t) /\ UNCHANGED diskVars
      BY <2>1 DEF CreateWorkspace, CreateClone
    <3> QED
      BY <1>2, <2>0, <2>c, <3>1, <3>2, <3>3, BeginKept
  <2>2. ASSUME NEW w \in Workers, NEW t \in Slugs, Repair(w, t) \/ Change(w, t) \/ Attach(w, t) PROVE Kept(s)'
    <3>1. PICK next \in {"repairing", "synchronizing", "attaching"} :
            Begin(w, next, Entry(t, manifest[t]), {}) /\ (next = "attaching" => ~manifest[t].declared)
      BY <2>2 DEF Repair, Change, Attach
    <3>2. /\ Entry(t, manifest[t]) \in Entries /\ Entry(t, manifest[t]).slug = t
          /\ Entry(t, manifest[t]).manifest = manifest[t]
      BY <1>2 DEF Entry, Entries, TypeOK
    <3>3. /\ UNCHANGED <<manifest, leaked>>
          /\ \A u \in Slugs : repo'[u] = repo[u] \/ (u = t /\ ~manifest[t].declared)
      BY <1>2, <2>2 DEF Repair, Change, Attach, TypeOK
    <3> QED
      BY <1>2, <2>0, <2>c, <3>1, <3>2, <3>3, BeginKept
  <2>3. ASSUME NEW w \in Workers, NEW t \in Slugs, NEW more \in SUBSET Slugs, Apply(w, t, more) PROVE Kept(s)'
    <3> DEFINE e == Entry(t, manifest[t])
               rest == {Entry(u, manifest[u]) : u \in more}
    <3>1. /\ e \in Entries /\ e.slug = t /\ e.manifest = manifest[t]
          /\ rest \in SUBSET Entries /\ \A f \in rest : f.manifest = manifest[f.slug]
      BY <1>2 DEF Entry, Entries, TypeOK
    <3>2. Begin(w, "applying", e, rest) /\ UNCHANGED diskVars
      BY <2>3 DEF Apply
    <3> HIDE DEF e, rest
    <3> QED
      BY <1>2, <2>0, <2>c, <3>1, <3>2, BeginKept
  <2>e. ASSUME NEW w \in Workers, pc[w] # "idle", target[w] = s
        PROVE  /\ ~leaked[s]
               /\ pc[w] \notin {"staged", "stagedClone"} => Exists(s) /\ copy[w] = manifest[s]
               /\ pc[w] \notin {"staged", "stagedClone", "cloning", "cloneFailed"} /\ manifest[s].declared
                    /\ manifest[s].clone # "failed" => repo[s] = "whole"
    BY <1>2, <2>0, <2>e DEF Kept, Alone, On, Grounded, InHand
  <2>4. ASSUME NEW w \in Workers, Publish(w) PROVE Kept(s)'
    <3>1. /\ pc[w] \in {"staged", "stagedClone"} /\ UNCHANGED <<target, copy, todo>>
          /\ \A v \in Workers : v # w => pc'[v] = pc[v]
          /\ \A t \in Slugs : t # target[w] =>
               manifest'[t] = manifest[t] /\ repo'[t] = repo[t] /\ leaked'[t] = leaked[t]
      BY <1>2, <2>4 DEF Publish, Go, TypeOK
    <3>2. CASE target[w] # s
      BY <1>2, <2>0, <3>1, <3>2, StepKept
    <3>3. CASE target[w] = s
      <4>1. ~Exists(s) /\ ~leaked[s]
        BY <2>0, <3>1, <3>3 DEF Kept
      <4>2. ~leaked'[s] /\ manifest'[s] = copy[w]
        BY <1>2, <2>4, <3>3, <4>1 DEF Publish, LeftBehind, TypeOK
      <4>3. pc'[w] = "cloning" \/ (pc'[w] = "registering" /\ pc[w] = "staged")
        BY <1>2, <2>4, <3>3, <4>1 DEF Publish, Go, TypeOK
      <4>4. pc[w] = "staged" => ~manifest'[s].declared
        BY <2>0, <3>3, <4>2 DEF Kept
      <4> QED
        BY <1>2, <2>0, <3>1, <3>3, <4>2, <4>3, <4>4, StepKept
    <3> QED
      BY <3>2, <3>3
  <2>5. ASSUME NEW w \in Workers, CloneEnds(w) \/ AttachCloned(w) PROVE Kept(s)'
    <3>1. /\ pc[w] \in {"cloning", "attaching"} /\ UNCHANGED <<manifest, leaked, target, copy, todo>>
          /\ \A v \in Workers : v # w => pc'[v] = pc[v]
          /\ \A t \in Slugs : t # target[w] => repo'[t] = repo[t]
          /\ pc[w] = "cloning" => pc'[w] = "cloneFailed" \/ (pc'[w] = "cloned" /\ repo'[target[w]] = "whole")
          /\ pc[w] = "attaching" => pc'[w] \in {"adding", "idle"}
      BY <1>2, <2>5 DEF CloneEnds, AttachCloned, Clones, Go, TypeOK
    <3>2. target[w] = s /\ pc[w] = "attaching" => ~manifest[s].declared
      BY <2>0 DEF Kept
    <3> QED
      BY <1>2, <2>0, <2>e, <3>1, <3>2, StepKept
  <2>6. ASSUME NEW w \in Workers, RecordClone(w) PROVE Kept(s)'
    <3>1. /\ pc[w] \in {"cloned", "cloneFailed"} /\ UNCHANGED <<repo, leaked, target, todo>>
          /\ \A v \in Workers : v # w => pc'[v] = pc[v] /\ copy'[v] = copy[v]
          /\ \A t \in Slugs : t # target[w] => manifest'[t] = manifest[t]
          /\ pc'[w] \in {"registering", "idle"}
          /\ copy'[w] = manifest'[target[w]]
          /\ pc[w] = "cloneFailed" => manifest'[target[w]].clone = "failed"
      <4>1. \A c \in {"failed", "cloned"} :
              [copy[w] EXCEPT !.clone = c] \in Manifests /\ [copy[w] EXCEPT !.clone = c].clone = c
        BY <1>2, Parts, Altered DEF TypeOK
      <4>2. PICK m \in Manifests :
              Write(w, m) /\ pc[w] \in {"cloned", "cloneFailed"} /\ (pc[w] = "cloneFailed" => m.clone = "failed")
        BY <2>6, <4>1 DEF RecordClone
      <4>3. /\ UNCHANGED <<repo, leaked, target, todo>> /\ \A v \in Workers : v # w => pc'[v] = pc[v]
            /\ pc'[w] \in {"registering", "idle"}
        BY <1>2, <2>6 DEF RecordClone, Go, TypeOK
      <4> QED
        BY <1>2, <4>2, <4>3 DEF Write, TypeOK
    <3>2. target[w] = s /\ pc[w] = "cloned" => repo[s] = "whole"
      BY <2>0 DEF Whole
    <3> QED
      BY <1>2, <2>0, <2>e, <3>1, <3>2, StepKept
  <2>7. ASSUME NEW w \in Workers, Register(w) PROVE Kept(s)'
    <3>1. /\ pc[w] \in {"registering", "repairing", "applying"} /\ UNCHANGED <<diskVars, target, copy>>
          /\ \A v \in Workers : v # w => pc'[v] = pc[v]
          /\ \A v \in Workers : todo'[v] \subseteq todo[v]
          /\ pc'[w] \in {"registered", "registerFailed", "between", "idle"}
      BY <1>2, <2>7 DEF Register, Go, Done, TypeOK
    <3> QED
      BY <1>2, <2>0, <2>e, <3>1, StepKept
  <2>8. ASSUME NEW w \in Workers, RecordRegistration(w) \/ Declare(w) \/ Synchronize(w) PROVE Kept(s)'
    <3>1. /\ pc[w] \in {"registered", "registerFailed", "declaring", "synchronizing"}
          /\ UNCHANGED <<repo, leaked, target, todo>>
          /\ \A v \in Workers : v # w => pc'[v] = pc[v] /\ copy'[v] = copy[v]
          /\ \A t \in Slugs : t # target[w] => manifest'[t] = manifest[t]
          /\ pc'[w] \in {"between", "idle", "synchronizing"}
          /\ pc'[w] # "idle" => copy'[w] = manifest'[target[w]]
      BY <1>2, <2>8 DEF RecordRegistration, Declare, Synchronize, Write, Go, Done, TypeOK
    <3>2. ASSUME target[w] = s, manifest'[s].declared, manifest'[s].clone # "failed" PROVE repo[s] = "whole"
      <4>1. CASE Declare(w)
        BY <2>0, <3>2, <4>1 DEF Declare, Kept
      <4>2. CASE RecordRegistration(w) \/ Synchronize(w)
        <5>1. manifest[s] \in Manifests /\ copy[w] = manifest[s]
          BY <1>2, <2>e, <3>1, <3>2 DEF TypeOK
        <5>2. \/ manifest'[s] = [manifest[s] EXCEPT !.registration = Outcome(w)]
              \/ manifest'[s] = [manifest[s] EXCEPT !.registration = "registered"]
              \/ manifest'[s] = manifest[s]
          <6>1. CASE RecordRegistration(w)
            BY <1>2, <3>2, <5>1, <6>1 DEF RecordRegistration, Write, TypeOK
          <6>2. CASE Synchronize(w)
            BY <1>2, <3>2, <5>1, <6>2 DEF Synchronize, Write, TypeOK
          <6> QED
            BY <4>2, <6>1, <6>2
        <5>3. manifest'[s].declared = manifest[s].declared /\ manifest'[s].clone = manifest[s].clone
          <6>1. \A r : /\ [manifest[s] EXCEPT !.registration = r].declared = manifest[s].declared
                      /\ [manifest[s] EXCEPT !.registration = r].clone = manifest[s].clone
            BY <5>1, Parts
          <6> QED
            BY <5>2, <6>1
        <5> QED
          BY <2>e, <3>1, <3>2, <5>3
      <4> QED
        BY <2>8, <4>1, <4>2
    <3> QED
      BY <1>2, <2>0, <2>e, <3>1, <3>2, StepKept
  <2>9. ASSUME NEW w \in Workers, AddFolder(w) PROVE Kept(s)'
    <3>1. /\ pc[w] = "adding" /\ UNCHANGED <<diskVars, target, copy, todo>>
          /\ \A v \in Workers : v # w => pc'[v] = pc[v]
          /\ pc'[w] \in {"declaring", "idle"}
      BY <1>2, <2>9 DEF AddFolder, AfterClone, Go, TypeOK
    <3>2. target[w] = s => repo[s] = "whole"
      BY <2>0, <3>1 DEF Whole
    <3> QED
      BY <1>2, <2>0, <2>e, <3>1, <3>2, StepKept
  <2>10. ASSUME NEW w \in Workers, ApplyNext(w) PROVE Kept(s)'
    <3>1. PICK e \in todo[w] : /\ target' = [target EXCEPT ![w] = e.slug]
                               /\ copy' = [copy EXCEPT ![w] = e.manifest]
                               /\ todo' = [todo EXCEPT ![w] = @ \ {e}]
      BY <2>10 DEF ApplyNext
    <3>2. pc[w] = "between" /\ pc' = [pc EXCEPT ![w] = "applying"] /\ UNCHANGED diskVars
      BY <2>10 DEF ApplyNext, Go
    <3>3. /\ pc'[w] = "applying" /\ target'[w] = e.slug /\ copy'[w] = e.manifest /\ todo'[w] = todo[w] \ {e}
          /\ \A v \in Workers : v # w => /\ pc'[v] = pc[v] /\ target'[v] = target[v]
                                         /\ copy'[v] = copy[v] /\ todo'[v] = todo[v]
      BY <1>2, <3>1, <3>2 DEF TypeOK
    <3>4. e.slug = s => e.manifest = manifest[s]
      BY <2>0, <3>1 DEF Kept
    <3>5. (\E v \in Workers : pc[v] \in {"cloning", "cloneFailed"} /\ target[v] = s) =>
            \E v \in Workers : pc'[v] \in {"cloning", "cloneFailed"} /\ target'[v] = s
      BY <3>2, <3>3
    <3>6. Exists(s)' <=> Exists(s)
      BY <3>2 DEF Exists
    <3> QED
      BY <2>0, <3>2, <3>3, <3>4, <3>5, <3>6 DEF Kept
  <2>11. CASE Crash
    <3>1. UNCHANGED <<manifest, repo>> /\ \A v \in Workers : pc'[v] = "idle" /\ todo'[v] = {}
      BY <2>11 DEF Crash
    <3>2. \A v \in Workers : ~On(v, s)
      BY <2>11 DEF Crash, OnSlug
    <3>3. ~leaked'[s] /\ \A v \in Workers : target[v] = s => pc[v] = "idle"
      BY <2>0, <2>11, <3>2 DEF Crash, Staged, On, Kept
    <3>4. Exists(s)' <=> Exists(s)
      BY <3>1 DEF Exists
    <3> QED
      BY <2>0, <3>1, <3>3, <3>4 DEF Kept
  <2>12. CASE LoseNative \/ UNCHANGED vars
    <3>1. UNCHANGED <<diskVars, pc, target, copy, todo>>
      BY <2>12 DEF LoseNative, vars
    <3> QED
      BY <2>0, <3>1 DEF Kept, Exists
  <2>13. ASSUME NEW t \in Slugs, Adopt(t) PROVE Kept(s)'
    <3>1. UNCHANGED <<diskVars, pc, target, copy, todo>>
      BY <2>13 DEF Adopt
    <3> QED
      BY <2>0, <3>1 DEF Kept, Exists
  <2> QED
    BY <1>2, <2>1, <2>2, <2>3, <2>4, <2>5, <2>6, <2>7, <2>8, <2>9, <2>10, <2>11, <2>12, <2>13 DEF Next
<1> QED
  BY <1>1, <1>2, TypeCorrect, GroundedInvariant, SlugInvariant, PTL DEF Spec

-----------------------------------------------------------------------------
(* The properties.                                                         *)

\* A manifest that says "registered" was telling the truth, for any overlaps
\* and crashes.
THEOREM ManifestsAreTruthful == Spec => []ManifestIsTruthful
<1>1. Truthful /\ TypeOK => ManifestIsTruthful
  BY DEF Truthful, TypeOK, ManifestIsTruthful
<1> QED
  BY <1>1, TruthInvariant, TypeCorrect, PTL

\* Only where requests overlap, or a recovery names a slug twice, does a repair or
\* a recovery add a row to those that a slug has, whatever is adopted in between.
THEOREM OneRegistration == Spec => []RegisteredOnce
<1>1. SlugInv /\ TypeOK => RegisteredOnce
  BY DEF SlugInv, Alone, TypeOK, RegisteredOnce
<1> QED
  BY <1>1, SlugInvariant, TypeCorrect, PTL

\* Only overlaps and clones that were cut off register an unfinished repository.
THEOREM WholeRepositories == Spec => []OnlyOverlapsRegisterPartial
<1>1. SlugInv => OnlyOverlapsRegisterPartial
  BY DEF SlugInv, Whole, OnlyOverlapsRegisterPartial
<1> QED
  BY <1>1, SlugInvariant, PTL

\* After overlaps, crashes and losses elsewhere, and a loss of Hermes' store here,
\* a workspace can be registered again.
THEOREM RecoverableTheorem == Spec => []Recoverable
<1>1. KeptInv /\ TypeOK => Recoverable
  <2> SUFFICES ASSUME KeptInv, TypeOK, NEW s \in Undisturbed, Exists(s), Rows(s) = 0,
                      manifest[s].clone # "failed"
               PROVE  Ready(s)
    BY DEF Recoverable
  <2>1. s \in Slugs /\ Kept(s) /\ \A w \in Workers : ~On(w, s)
    BY DEF KeptInv, Undisturbed, OnSlug
  <2>2. \A w \in Workers : target[w] = s => pc[w] = "idle"
    BY <2>1 DEF On
  <2> QED
    BY <2>1, <2>2 DEF Kept, Ready, Staged, Unregistered
<1> QED
  BY <1>1, KeptInvariant, TypeCorrect, PTL

=============================================================================
