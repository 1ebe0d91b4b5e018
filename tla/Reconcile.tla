------------------------------ MODULE Reconcile ------------------------------
(***************************************************************************)
(* The apply-if-changed Reconcile of a helm release (helm/v3/reconcile.go) *)
(* called in a loop by a controller, beside a cluster that drifts, a chart *)
(* that is bumped, API versions that are pruned, API calls that fail and a *)
(* controller that crashes.                                                *)
(*                                                                         *)
(* A child is one group/kind/namespace/name.  Its live object is stored    *)
(* once and read at any served version, so only manifest entries carry a   *)
(* version.  An object keeps the fields that the reconcile treats          *)
(* differently from one another.                                           *)
(***************************************************************************)
EXTENDS Integers

CONSTANTS
  Children,         \* what a manifest may render
  KrateoChildren,   \* the children in a krateo.io group
  Versions,         \* API versions of a child's kind
  Values,           \* what a chart or a user writes in a field
  None,             \* an absent field, entry, object or manifest
  HelmOwner,        \* helm's ownership labels and annotations
  ServerValue,      \* the value the API server gives the label it owns
  Stamps,           \* what a render stamps as krateo.io/traceparent
  Charts,           \* the manifests the chart reference may render
  TakeOwnership,    \* UpgradeConfig.TakeOwnership
  MaxDisturbances,  \* bound on out-of-band changes
  MaxFaults         \* bound on failed calls and crashes

Encoded(v) == <<v>>   \* base64

Optional(S) == S \cup {None}

Object == [data        : Optional(Values \cup {Encoded(v) : v \in Values}),
           stringData  : Optional(Values),
           label       : Optional(Values \cup {ServerValue}),
           traceparent : Optional(Stamps),
           owner       : Optional({HelmOwner})]

Entry == [version : Versions, object : Object]

Manifest == [Children -> Optional(Entry)]

\* Charts do not declare helm's ownership metadata (reconcile.go:224-226).
ASSUME ConstantsAssumption ==
  /\ None \notin Values \cup {Encoded(v) : v \in Values} \cup {HelmOwner, ServerValue}
  /\ None \notin Object /\ None \notin Entry /\ None \notin Manifest
  /\ KrateoChildren \subseteq Children
  /\ Charts \subseteq Manifest
  /\ \A m \in Charts : \A c \in Children : m[c] # None => m[c].object.owner = None
  /\ TakeOwnership \in BOOLEAN
  /\ MaxDisturbances \in Nat /\ MaxFaults \in Nat

VARIABLES
  \* the cluster and the chart
  chart, served, live,
  \* the release store: the manifest of the last revision, whether that revision
  \* is deployed, and the manifest of the deployed revision
  last, lastDeployed, deployed,
  \* the locals of Reconcile
  pc, stamp, current, target, before, after, todo, created, removed, outcome,
  \* what is counted
  disturbances, faults,
  \* history: the children whose content this cycle's merge changed, those it
  \* wrote to, whether the cycle ran undisturbed, whether the release already
  \* was in its steady state when it began, and whether an undisturbed merge
  \* changed the cluster without a revision having been deployed since
  mutated, written, clean, steady, unrecorded

cluster == <<chart, served, live>>
store   == <<last, lastDeployed, deployed>>
locals  == <<stamp, current, target, before, after, todo, created, removed>>
history == <<mutated, written, clean, steady, unrecorded>>
vars    == <<cluster, store, pc, locals, outcome, disturbances, faults, history>>

-----------------------------------------------------------------------------
(* Objects *)

\* Secret stringData is folded into data; data is base64 and stringData wins.
normalizeSecretStringData(o) ==
  IF o.stringData = None
    THEN o
    ELSE [o EXCEPT !.data = Encoded(o.stringData), !.stringData = None]

\* What the API server stores for a written object.
Admit(o) == [normalizeSecretStringData(o) EXCEPT !.label = ServerValue]

MergeField(original, tgt, liveField) ==
  IF tgt # None THEN tgt ELSE IF original # None THEN None ELSE liveField

\* helm's three-way merge: declared fields win, fields that were declared and
\* no longer are go, the others stay as they are live.
ThreeWayMerge(original, tgt, obj) ==
  [data        |-> MergeField(original.data, tgt.data, obj.data),
   stringData  |-> MergeField(original.stringData, tgt.stringData, obj.stringData),
   label       |-> MergeField(original.label, tgt.label, obj.label),
   traceparent |-> MergeField(original.traceparent, tgt.traceparent, obj.traceparent),
   owner       |-> MergeField(original.owner, tgt.owner, obj.owner)]

strippedJSON(o) == [o EXCEPT !.owner = None]

semanticallyChanged(x, y) == strippedJSON(x) # strippedJSON(y)

\* The traceparent stamp of LabelsPostRender.Run, on krateo.io children only.
Stamp(c, e, s) ==
  IF c \in KrateoChildren /\ s # None /\ e # None
    THEN [e EXCEPT !.object.traceparent = s]
    ELSE e

Render(s) == [c \in Children |-> Stamp(c, chart[c], s)]

-----------------------------------------------------------------------------
(* Manifests and the release store *)

Mapped(c, e) == e # None => e.version \in served[c]

\* KubeClient.Build succeeds: every entry maps to a served version.
Builds(m) == \A c \in Children : Mapped(c, m[c])

Dropped(m) == {c \in Children : ~Mapped(c, m[c])}

filterUnmappableManifestDocs(m) ==
  [c \in Children |-> IF Mapped(c, m[c]) THEN m[c] ELSE None]

\* Mutant: the stored release is taken to be its last revision.
selectLast == "last"

\* The revision that is repaired: the one helm's Upgrade builds from.
selectCurrentForBuild ==
  IF lastDeployed \/ deployed = None THEN "last" ELSE "deployed"

ManifestOf(revision) == IF revision = "last" THEN last ELSE deployed

EmptyManifest == [c \in Children |-> None]

\* The manifest helm's Upgrade builds its current state from.
UpgradeCurrent ==
  IF last = None THEN EmptyManifest
  ELSE IF lastDeployed \/ deployed = None THEN last ELSE deployed

\* helm's import gate on live objects the current revision does not list.
OwnershipGate(cur, tgt) ==
  TakeOwnership \/ \A c \in Children :
    tgt[c] # None /\ cur[c] = None /\ live[c] # None => live[c].owner = HelmOwner

UpgradeAllowed(tgt) ==
  Builds(UpgradeCurrent) /\ Builds(tgt) /\ OwnershipGate(UpgradeCurrent, tgt)

\* What helm's Upgrade leaves live: it adds its ownership metadata to each
\* child, and an existing object its current revision does not list is adopted.
Upgraded(cur, tgt) ==
  [c \in Children |->
    LET owned    == [tgt[c].object EXCEPT !.owner = HelmOwner]
        original == IF cur[c] = None THEN tgt[c].object ELSE cur[c].object
    IN  IF tgt[c] = None
          THEN IF cur[c] = None THEN live[c] ELSE None
          ELSE IF live[c] = None
                 THEN Admit(owned)
                 ELSE Admit(ThreeWayMerge(original, owned, live[c]))]

-----------------------------------------------------------------------------
(* Properties of a state that the history and the invariants refer to *)

\* The declared content of a child is live.
Declared(c) ==
  LET want == normalizeSecretStringData(chart[c].object).data
  IN  live[c] # None /\ (want # None => live[c].data = want)

\* Entries compared as the charts write them, traceparent aside.
SameEntry(x, y) ==
  \/ x = None /\ y = None
  \/ /\ x # None /\ y # None
     /\ x.version = y.version
     /\ [x.object EXCEPT !.traceparent = None] = [y.object EXCEPT !.traceparent = None]

\* The release records the chart and the cluster holds it; a child that is
\* rendered with a traceparent has one.
SteadyState ==
  /\ last # None /\ lastDeployed
  /\ \A c \in Children :
       /\ SameEntry(last[c], chart[c])
       /\ chart[c] # None =>
            /\ chart[c].version \in served[c]
            /\ Declared(c)
            /\ c \in KrateoChildren \/ chart[c].object.traceparent # None
                 => live[c].traceparent # None

-----------------------------------------------------------------------------
TypeOK ==
  /\ chart \in Charts
  /\ served \in [Children -> SUBSET Versions]
  /\ live \in [Children -> Optional(Object)]
  /\ last \in Optional(Manifest) /\ deployed \in Optional(Manifest)
  /\ lastDeployed \in BOOLEAN
  /\ pc \in {"idle", "install", "repair", "render", "build", "get",
             "merge", "prune", "upgrade"}
  /\ stamp \in Stamps
  /\ current \in Manifest /\ target \in Manifest
  /\ before \in [Children -> Optional(Object)]
  /\ after \in [Children -> Optional(Object)]
  /\ todo \subseteq Children /\ created \subseteq Children /\ removed \subseteq Children
  /\ outcome \in {"none", "unchanged", "upgraded", "error"}
  /\ disturbances \in 0..MaxDisturbances /\ faults \in 0..MaxFaults
  /\ mutated \subseteq Children /\ written \subseteq Children
  /\ clean \in BOOLEAN /\ steady \in BOOLEAN /\ unrecorded \in BOOLEAN

\* A cluster in which the release was never installed.
Init ==
  /\ chart \in Charts
  /\ served = [c \in Children |-> Versions]
  /\ last = None /\ lastDeployed = FALSE /\ deployed = None
  /\ live = [c \in Children |-> None]
  /\ pc = "idle" /\ stamp \in Stamps /\ outcome = "none"
  /\ current = EmptyManifest /\ target = EmptyManifest
  /\ before = [c \in Children |-> None] /\ after = [c \in Children |-> None]
  /\ todo = {} /\ created = {} /\ removed = {}
  /\ disturbances = 0 /\ faults = 0
  /\ mutated = {} /\ written = {} /\ clean = TRUE /\ steady = FALSE /\ unrecorded = FALSE

-----------------------------------------------------------------------------
(* One cycle of Reconcile *)

Return(result) == pc' = "idle" /\ outcome' = result

\* Step 1, GetRelease: no stored release means a real Upgrade with Install.
Begin ==
  /\ pc = "idle"
  /\ \E s \in Stamps : stamp' = s
  /\ pc' = IF last = None THEN "install" ELSE "repair"
  /\ current' = IF last = None THEN EmptyManifest ELSE last
  /\ outcome' = "none"
  /\ todo' = {} /\ created' = {} /\ removed' = {}
  /\ mutated' = {} /\ written' = {} /\ clean' = TRUE /\ steady' = SteadyState
  /\ UNCHANGED <<cluster, store, target, before, after, disturbances, faults, unrecorded>>

RecordDeployed(m) ==
  last' = m /\ lastDeployed' = TRUE /\ deployed' = m

\* The initial Upgrade of a release that is not stored.
Install ==
  /\ pc = "install"
  /\ UpgradeAllowed(Render(stamp))
  /\ live' = Upgraded(UpgradeCurrent, Render(stamp))
  /\ RecordDeployed(Render(stamp))
  /\ Return("upgraded")
  /\ unrecorded' = FALSE
  /\ UNCHANGED <<chart, served, locals, disturbances, faults, mutated, written, clean, steady>>

InstallRejected ==
  /\ pc = "install"
  /\ ~UpgradeAllowed(Render(stamp))
  /\ Return("error")
  /\ UNCHANGED <<cluster, store, locals, disturbances, faults, history>>

\* Step 1.5, dropUnservedFromStoredManifest: the revision helm builds from is
\* repaired in the store, and Reconcile goes on with the repaired manifest.
Repair ==
  /\ pc = "repair"
  /\ LET rel == ManifestOf(selectCurrentForBuild)
         fix == filterUnmappableManifestDocs(rel)
     IN  IF Dropped(rel) = {}
           THEN UNCHANGED <<store, current>>
           ELSE /\ current' = fix
                /\ last' = IF selectCurrentForBuild = "last" THEN fix ELSE last
                /\ deployed' = IF selectCurrentForBuild = "deployed" \/ lastDeployed
                                 THEN fix ELSE deployed
                /\ UNCHANGED lastDeployed
  /\ pc' = "render"
  /\ UNCHANGED <<cluster, stamp, target, before, after, todo, created, removed,
                 outcome, disturbances, faults, history>>

\* Step 2, the server-side dry-run Upgrade.
RenderTarget ==
  /\ pc = "render"
  /\ IF UpgradeAllowed(Render(stamp))
       THEN target' = Render(stamp) /\ pc' = "build" /\ UNCHANGED outcome
       ELSE Return("error") /\ UNCHANGED target
  /\ UNCHANGED <<cluster, store, stamp, current, before, after, todo, created, removed,
                 disturbances, faults, history>>

\* Step 3, both resource lists are built.
Build ==
  /\ pc = "build"
  /\ IF Builds(current) /\ Builds(target)
       THEN /\ pc' = "get" /\ todo' = {c \in Children : target[c] # None}
            /\ UNCHANGED outcome
       ELSE Return("error") /\ UNCHANGED todo
  /\ before' = [c \in Children |-> None]
  /\ UNCHANGED <<cluster, store, stamp, current, target, after, created, removed,
                 disturbances, faults, history>>

\* Step 4, the live state of one target; a failed GET reads as absent.
GetLive(c) ==
  /\ pc = "get" /\ c \in todo
  /\ todo' = todo \ {c}
  /\ \/ before' = [before EXCEPT ![c] = live[c]] /\ UNCHANGED <<faults, clean>>
     \/ /\ live[c] # None /\ faults < MaxFaults
        /\ faults' = faults + 1 /\ clean' = FALSE
        /\ UNCHANGED before
  /\ UNCHANGED <<cluster, store, pc, stamp, current, target, after, created, removed,
                 outcome, disturbances, mutated, written, steady, unrecorded>>

\* Mutant: the render's own traceparent is kept.
NeutralizedStamped(o, l) == normalizeSecretStringData(o)

\* Steps 4.5 and 4.6 on a rendered object that was found live as l.
Neutralized(o, l) ==
  normalizeSecretStringData(
    IF l # None /\ l.traceparent # None THEN [o EXCEPT !.traceparent = l.traceparent] ELSE o)

\* Step 4.7: the original of a live target that current does not list is its
\* rendered object, without the metadata helm adds.
Adopted(o, l) == o

\* Mutant: only the children that helm does not yet own are adopted.
AdoptableForeign(c) ==
  target[c] # None /\ before[c] # None /\ current[c] = None /\ before[c].owner = None

Adoptable(c) == target[c] # None /\ before[c] # None /\ current[c] = None

Prepared(c) ==
  IF target[c] = None
    THEN None
    ELSE [target[c] EXCEPT !.object = Neutralized(target[c].object, before[c])]

Prepare ==
  /\ pc = "get" /\ todo = {}
  /\ target' = [c \in Children |-> Prepared(c)]
  /\ current' = [c \in Children |->
                   IF Adoptable(c)
                     THEN [Prepared(c) EXCEPT !.object = Adopted(@, before[c])]
                     ELSE current[c]]
  /\ after' = before
  /\ todo' = {c \in Children : target[c] # None}
  /\ pc' = "merge"
  /\ UNCHANGED <<cluster, store, stamp, before, created, removed, outcome,
                 disturbances, faults, history>>

\* Mutant: the two resource lists are passed in the wrong order.
MergedObjectSwapped(c) ==
  IF live[c] = None
    THEN target[c].object
    ELSE ThreeWayMerge(target[c].object, current[c].object, live[c])

\* What the merge sends for a target, what is stored after it, and whether
\* that is a change of content.
MergedObject(c) ==
  IF live[c] = None
    THEN target[c].object
    ELSE ThreeWayMerge(current[c].object, target[c].object, live[c])

StoredObject(c) ==
  IF MergedObject(c) = live[c] THEN live[c] ELSE Admit(MergedObject(c))

MergeChanges(c) == live[c] = None \/ semanticallyChanged(live[c], StoredObject(c))

\* Step 5 for one target: created when it is not live, else patched against
\* its original; the target Info is refreshed with what the server stored.
Merge(c) ==
  /\ pc = "merge" /\ c \in todo
  /\ live[c] # None => current[c] # None
  /\ live' = [live EXCEPT ![c] = StoredObject(c)]
  /\ after' = [after EXCEPT ![c] = StoredObject(c)]
  /\ created' = IF live[c] = None THEN created \cup {c} ELSE created
  /\ written' = IF MergedObject(c) = live[c] THEN written ELSE written \cup {c}
  /\ mutated' = IF MergeChanges(c) THEN mutated \cup {c} ELSE mutated
  /\ unrecorded' = (unrecorded \/ (MergeChanges(c) /\ clean))
  /\ todo' = todo \ {c}
  /\ UNCHANGED <<chart, served, store, pc, stamp, current, target, before, removed,
                 outcome, disturbances, faults, clean, steady>>

\* "no <kind> with the name <name> found": live, but without an original.
MergeUnmatched(c) ==
  /\ pc = "merge" /\ c \in todo
  /\ live[c] # None /\ current[c] = None
  /\ Return("error")
  /\ UNCHANGED <<cluster, store, locals, disturbances, faults, history>>

\* Mutant: nothing is pruned.
ObsoleteIgnored(c) == FALSE

Obsolete(c) == current[c] # None /\ target[c] = None

MergeDone ==
  /\ pc = "merge" /\ todo = {}
  /\ pc' = "prune"
  /\ todo' = {c \in Children : Obsolete(c)}
  /\ UNCHANGED <<cluster, store, stamp, current, target, before, after, created, removed,
                 outcome, disturbances, faults, history>>

\* Step 5, the children of current that are no longer rendered.
Prune(c) ==
  /\ pc = "prune" /\ c \in todo
  /\ todo' = todo \ {c}
  /\ live' = [live EXCEPT ![c] = None]
  /\ IF live[c] = None
       THEN UNCHANGED <<removed, mutated, written, unrecorded>>
       ELSE /\ removed' = removed \cup {c}
            /\ mutated' = mutated \cup {c} /\ written' = written \cup {c}
            /\ unrecorded' = (unrecorded \/ clean)
  /\ UNCHANGED <<chart, served, store, pc, stamp, current, target, before, after, created,
                 outcome, disturbances, faults, clean, steady>>

\* Mutant: every child the merge sent a patch for counts, as a change of its
\* resourceVersion would show.
PatchedIfWritten == {c \in Children : before[c] # None /\ c \in written}

\* Step 6: the children counted as patched.
Patched ==
  {c \in Children : /\ target[c] # None /\ before[c] # None
                    /\ semanticallyChanged(before[c], after[c])}

\* Mutant: the created and the removed children are forgotten.
ChangedIfPatched == Patched # {}

Changed == created # {} \/ removed # {} \/ Patched # {}

Decide ==
  /\ pc = "prune" /\ todo = {}
  /\ IF Changed THEN pc' = "upgrade" /\ UNCHANGED outcome ELSE Return("unchanged")
  /\ UNCHANGED <<cluster, store, locals, disturbances, faults, history>>

\* Step 7, the one real Upgrade.
RealUpgrade ==
  /\ pc = "upgrade"
  /\ UpgradeAllowed(Render(stamp))
  /\ live' = Upgraded(UpgradeCurrent, Render(stamp))
  /\ RecordDeployed(Render(stamp))
  /\ Return("upgraded")
  /\ unrecorded' = FALSE
  /\ UNCHANGED <<chart, served, locals, disturbances, faults, mutated, written, clean, steady>>

UpgradeRejected ==
  /\ pc = "upgrade"
  /\ ~UpgradeAllowed(Render(stamp))
  /\ Return("error")
  /\ UNCHANGED <<cluster, store, locals, disturbances, faults, history>>

\* A real Upgrade that fails after helm has stored the new revision: the
\* revision is marked failed, its objects may or may not have been applied.
UpgradeFails ==
  /\ pc \in {"install", "upgrade"}
  /\ faults < MaxFaults /\ faults' = faults + 1
  /\ UpgradeAllowed(Render(stamp))
  /\ \/ live' = Upgraded(UpgradeCurrent, Render(stamp))
     \/ UNCHANGED live
  /\ last' = Render(stamp) /\ lastDeployed' = FALSE /\ UNCHANGED deployed
  /\ Return("error")
  /\ UNCHANGED <<chart, served, locals, disturbances, history>>

\* Any call of the cycle fails and Reconcile returns the error, or the
\* controller crashes: the locals are gone, what was applied stays.
Interrupted ==
  /\ pc # "idle"
  /\ faults < MaxFaults /\ faults' = faults + 1
  /\ Return("error")
  /\ UNCHANGED <<cluster, store, locals, disturbances, history>>

-----------------------------------------------------------------------------
(* What happens beside the controller *)

Disturb ==
  /\ disturbances < MaxDisturbances /\ disturbances' = disturbances + 1
  /\ clean' = FALSE
  /\ UNCHANGED <<store, pc, locals, outcome, faults, mutated, written, steady, unrecorded>>

ChartChanges ==
  /\ Disturb
  /\ \E m \in Charts \ {chart} : chart' = m
  /\ UNCHANGED <<served, live>>

LiveDeleted(c) ==
  /\ Disturb
  /\ live[c] # None
  /\ live' = [live EXCEPT ![c] = None]
  /\ UNCHANGED <<chart, served>>

LiveDrifts(c) ==
  /\ Disturb
  /\ live[c] # None
  /\ \E v \in Values \ {live[c].data} : live' = [live EXCEPT ![c].data = v]
  /\ UNCHANGED <<chart, served>>

\* A CompositionDefinition bump prunes an old version of the child's CRD.
VersionPruned(c) ==
  /\ Disturb
  /\ \E v \in served[c] : served[c] # {v} /\ served' = [served EXCEPT ![c] = @ \ {v}]
  /\ UNCHANGED <<chart, live>>

Cycle ==
  \/ Begin \/ Install \/ InstallRejected \/ Repair \/ RenderTarget \/ Build
  \/ \E c \in Children : GetLive(c)
  \/ Prepare
  \/ \E c \in Children : Merge(c) \/ MergeUnmatched(c)
  \/ MergeDone
  \/ \E c \in Children : Prune(c)
  \/ Decide \/ RealUpgrade \/ UpgradeRejected

Environment ==
  \/ ChartChanges
  \/ \E c \in Children : LiveDeleted(c) \/ LiveDrifts(c) \/ VersionPruned(c)

Next == Cycle \/ UpgradeFails \/ Interrupted \/ Environment

\* The controller requeues the release for ever, and a cycle does not stop halfway
\* except by a fault.
Spec == Init /\ [][Next]_vars /\ WF_vars(Cycle)

-----------------------------------------------------------------------------
(* Properties *)

\* ReconcileResult.Changed: in a cycle that nothing disturbed, Reconcile goes
\* on to write a revision exactly when its merge changed the cluster.
ChangedIffMutated ==
  clean =>
    /\ pc = "upgrade" => mutated # {}
    /\ pc = "idle" /\ outcome = "unchanged" => mutated = {}

\* The no-churn guarantee: in the steady state a cycle changes no child, so it
\* writes no revision and runs no hook, whatever traceparent the render stamps.
\* helm skips the write, too: the merge does not even send a patch to a child
\* whose chart leaves the server's own label alone.
SteadyStateIsQuiet ==
  clean /\ steady =>
    /\ mutated = {} /\ pc # "upgrade"
    /\ \A c \in written : chart[c].object.label # None


\* An undisturbed cycle that returns without error has healed every child.
ConvergedOnReturn ==
  clean /\ pc = "idle" /\ outcome \in {"unchanged", "upgraded"} =>
    \A c \in Children : chart[c] # None => Declared(c)

\* As long as no call fails, an undisturbed cycle that returns without error
\* leaves no child of the release behind that the chart no longer renders. The
\* exception is the repair's: an entry whose version was pruned is dropped from
\* the stored manifest, and unless it is still rendered nothing deletes it.
NothingLeftBehind ==
  faults = 0 /\ clean /\ pc = "idle" /\ outcome \in {"unchanged", "upgraded"} =>
    \A c \in Children :
      live[c] # None /\ live[c].owner = HelmOwner => chart[c] # None \/ served[c] # Versions

\* Adoption and merge never strip helm's ownership metadata from a live child.
OwnershipKept ==
  [][\A c \in Children :
       live[c] # None /\ live'[c] # None /\ live[c].owner = HelmOwner
         => live'[c].owner = HelmOwner]_vars

\* The repair of the stored release unblocks helm: unless a version is pruned
\* meanwhile, the current state that the dry-run Upgrade builds is served.
RepairUnblocksRender ==
  clean /\ pc = "render" => Builds(UpgradeCurrent)

\* The same for the current list that Reconcile itself builds in step 3.
RepairUnblocksBuild ==
  clean /\ pc = "build" => Builds(current)

\* The adoption of step 4.7: in an undisturbed cycle the merge never meets a
\* live target without an original, the error that wedged the release.
AdoptionAvoidsWedge ==
  clean /\ pc = "merge" => \A c \in todo : live[c] # None => current[c] # None

\* As long as no call fails and the controller does not crash, a change that an
\* undisturbed merge made is followed by a deployed revision and its hooks.
RealChangeIsRecorded ==
  (unrecorded /\ faults = 0) ~> (~unrecorded \/ faults > 0)

\* The same as step 7 is documented, whatever fails on the way.
EveryChangeIsRecorded == unrecorded ~> ~unrecorded

\* Self-healing: when the disturbances are over, a cluster that serves what the
\* chart renders comes to hold it, and keeps it.
EventuallyConverged ==
  <>[](Builds(chart) => \A c \in Children : chart[c] # None => Declared(c))
=============================================================================
