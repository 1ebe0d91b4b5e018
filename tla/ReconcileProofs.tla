--------------------------- MODULE ReconcileProofs ---------------------------
(* What Reconcile guarantees for every set of children, charts and bounds. *)
EXTENDS Reconcile, TLAPS

(* More time for the provers: a long module keeps their results waiting.       *)
USE SMTT(20), ZenonT(20)

-----------------------------------------------------------------------------
(* Types of the operators on objects and manifests *)

\* Folding a Secret's stringData yields an object (normalizeSecretStringData).
LEMMA NormalizeType ==
  ASSUME NEW o \in Object
  PROVE  normalizeSecretStringData(o) \in Object
BY Zenon, ConstantsAssumption DEF normalizeSecretStringData, Object, Optional

\* What the API server stores for a written object is an object.
LEMMA AdmitType ==
  ASSUME NEW o \in Object
  PROVE  Admit(o) \in Object
<1>1. normalizeSecretStringData(o) \in Object
  BY NormalizeType
<1> QED
  BY <1>1 DEF Admit, Object, Optional

\* A three-way merge of objects is an object.
LEMMA MergeType ==
  ASSUME NEW x \in Object, NEW y \in Object, NEW z \in Object
  PROVE  ThreeWayMerge(x, y, z) \in Object
BY DEF ThreeWayMerge, MergeField, Object, Optional

\* The three-way merge, field by field.
LEMMA MergeFields ==
  ASSUME NEW x, NEW y, NEW z
  PROVE  /\ ThreeWayMerge(x, y, z).data = MergeField(x.data, y.data, z.data)
         /\ ThreeWayMerge(x, y, z).stringData = MergeField(x.stringData, y.stringData, z.stringData)
         /\ ThreeWayMerge(x, y, z).label = MergeField(x.label, y.label, z.label)
         /\ ThreeWayMerge(x, y, z).traceparent = MergeField(x.traceparent, y.traceparent, z.traceparent)
         /\ ThreeWayMerge(x, y, z).owner = MergeField(x.owner, y.owner, z.owner)
BY DEF ThreeWayMerge

\* What ApplyManifest sends for a live child is the three-way merge, field by field.
LEMMA MergedFields ==
  ASSUME NEW c \in Children, live[c] # None
  PROVE  /\ MergedObject(c).data
              = MergeField(current[c].object.data, target[c].object.data, live[c].data)
         /\ MergedObject(c).stringData
              = MergeField(current[c].object.stringData, target[c].object.stringData, live[c].stringData)
         /\ MergedObject(c).label
              = MergeField(current[c].object.label, target[c].object.label, live[c].label)
         /\ MergedObject(c).traceparent
              = MergeField(current[c].object.traceparent, target[c].object.traceparent, live[c].traceparent)
         /\ MergedObject(c).owner
              = MergeField(current[c].object.owner, target[c].object.owner, live[c].owner)
BY MergeFields DEF MergedObject

\* ... and an object.
LEMMA MergedType ==
  ASSUME NEW c \in Children, live[c] # None, live[c] \in Object,
         current[c].object \in Object, target[c].object \in Object
  PROVE  MergedObject(c) \in Object
BY MergeType DEF MergedObject

\* What the API server stores of an object with nothing to fold: only the label is the server's.
LEMMA AdmitFolded ==
  ASSUME NEW o \in Object, o.stringData = None
  PROVE  /\ Admit(o).data = o.data /\ Admit(o).stringData = o.stringData
         /\ Admit(o).label = ServerValue /\ Admit(o).traceparent = o.traceparent
         /\ Admit(o).owner = o.owner
BY DEF Admit, normalizeSecretStringData, Object

\* Stamping a traceparent on an entry yields an entry.
LEMMA StampType ==
  ASSUME NEW c \in Children, NEW e \in Optional(Entry), NEW s \in Stamps
  PROVE  Stamp(c, e, s) \in Optional(Entry)
BY DEF Stamp, Entry, Object, Optional

\* A render of the chart is a manifest.
LEMMA RenderType ==
  ASSUME TypeOK, NEW s \in Stamps
  PROVE  Render(s) \in Manifest
<1>1. chart \in Manifest
  BY ConstantsAssumption DEF TypeOK
<1>2. \A c \in Children : chart[c] \in Optional(Entry)
  BY <1>1 DEF Manifest
<1>3. \A c \in Children : Stamp(c, chart[c], s) \in Optional(Entry)
  BY Zenon, <1>2, StampType
<1> QED
  BY <1>3 DEF Render, Manifest

\* The repair of a manifest is a manifest (filterUnmappableManifestDocs).
LEMMA FilterType ==
  ASSUME NEW m \in Manifest
  PROVE  filterUnmappableManifestDocs(m) \in Manifest
BY DEF filterUnmappableManifestDocs, Manifest, Optional

\* The release of no chart is a manifest.
LEMMA EmptyManifestType == EmptyManifest \in Manifest
BY DEF EmptyManifest, Manifest, Optional

\* The manifest helm builds as the current one is a manifest (selectCurrentForBuild).
LEMMA CurrentType ==
  ASSUME TypeOK
  PROVE  /\ UpgradeCurrent \in Manifest
         /\ last # None => ManifestOf(selectCurrentForBuild) \in Manifest
BY EmptyManifestType DEF TypeOK, UpgradeCurrent, selectCurrentForBuild, ManifestOf, Optional

\* helm's Upgrade leaves objects behind.
LEMMA UpgradedType ==
  ASSUME TypeOK, NEW cur \in Manifest, NEW tgt \in Manifest
  PROVE  Upgraded(cur, tgt) \in [Children -> Optional(Object)]
<1> SUFFICES ASSUME NEW c \in Children
             PROVE  Upgraded(cur, tgt)[c] \in Optional(Object)
  BY DEF Upgraded
<1> DEFINE owned == [tgt[c].object EXCEPT !.owner = HelmOwner]
           original == IF cur[c] = None THEN tgt[c].object ELSE cur[c].object
<1>1. cur[c] \in Optional(Entry) /\ tgt[c] \in Optional(Entry) /\ live[c] \in Optional(Object)
  BY DEF TypeOK, Manifest
<1>2. CASE tgt[c] = None
  BY <1>1, <1>2 DEF Upgraded, Optional
<1>3. CASE tgt[c] # None
  <2>1. tgt[c].object \in Object
    BY <1>1, <1>3 DEF Entry, Optional
  <2>2. owned \in Object
    BY <2>1 DEF Object, Optional
  <2>3. original \in Object
    BY <1>1, <2>1 DEF Entry, Optional
  <2>4. live[c] # None => Admit(ThreeWayMerge(original, owned, live[c])) \in Object
    <3> HIDE DEF owned, original
    <3> QED BY <1>1, <2>2, <2>3, MergeType, AdmitType DEF Optional
  <2>5. Admit(owned) \in Object
    <3> HIDE DEF owned
    <3> QED BY <2>2, AdmitType
  <2>6. Upgraded(cur, tgt)[c] = IF live[c] = None THEN Admit(owned)
                                ELSE Admit(ThreeWayMerge(original, owned, live[c]))
    BY <1>3 DEF Upgraded
  <2> HIDE DEF owned, original
  <2> QED BY <2>4, <2>5, <2>6 DEF Optional
<1> QED BY <1>2, <1>3

-----------------------------------------------------------------------------
(* Type correctness *)

\* Steps 4.5 to 4.7 turn a rendered entry into an entry.
LEMMA PreparedType ==
  ASSUME TypeOK, NEW c \in Children
  PROVE  /\ Prepared(c) \in Optional(Entry)
         /\ target[c] # None =>
              /\ Prepared(c) \in Entry
              /\ [Prepared(c) EXCEPT !.object = Adopted(@, before[c])] \in Entry
<1>1. target[c] \in Optional(Entry) /\ before[c] \in Optional(Object)
  BY DEF TypeOK, Manifest
<1>2. CASE target[c] = None
  BY <1>2 DEF Adoptable, Prepared, Optional
<1>3. CASE target[c] # None
  <2> DEFINE o == target[c].object
             o1 == IF before[c] # None /\ before[c].traceparent # None
                     THEN [o EXCEPT !.traceparent = before[c].traceparent] ELSE o
             n == Neutralized(o, before[c])
  <2>1. target[c] \in Entry /\ o \in Object
    BY <1>1, <1>3 DEF Entry, Optional
  <2>2. o1 \in Object
    <3>1. before[c] # None => before[c].traceparent \in Optional(Stamps)
      BY <1>1 DEF Object, Optional
    <3> QED BY <2>1, <3>1 DEF Object, Optional
  <2>3. n \in Object
    <3>1. n = normalizeSecretStringData(o1)
      BY DEF Neutralized
    <3> HIDE DEF o1, n
    <3> QED BY <2>2, <3>1, NormalizeType
  <2>4. Prepared(c) = [target[c] EXCEPT !.object = n]
    BY <1>3 DEF Adoptable, Prepared
  <2>5. [target[c] EXCEPT !.object = n] \in Entry
    <3> HIDE DEF n
    <3> QED BY <2>1, <2>3 DEF Entry
  <2>6. [Prepared(c) EXCEPT !.object = Adopted(@, before[c])] \in Entry
    <3> HIDE DEF n
    <3> QED BY Zenon, <2>4, <2>5 DEF Entry, Adopted
  <2> QED BY <2>4, <2>5, <2>6 DEF Optional
<1> QED BY <1>2, <1>3

\* What the merge stores for a target is an object.
LEMMA StoredType ==
  ASSUME TypeOK, NEW c \in Children, target[c] \in Entry,
         live[c] # None => current[c] # None
  PROVE  StoredObject(c) \in Object
<1>1. live[c] \in Optional(Object) /\ current[c] \in Optional(Entry)
  BY DEF TypeOK, Manifest
<1>2. target[c].object \in Object
  BY DEF Entry
<1>3. MergedObject(c) \in Object
  <2>1. CASE live[c] = None
    BY <1>2, <2>1 DEF MergedObject
  <2>2. CASE live[c] # None
    <3>1. current[c].object \in Object /\ live[c] \in Object
      BY <1>1, <2>2 DEF Entry, Optional
    <3> QED BY <1>2, <2>2, <3>1, MergeType DEF MergedObject
  <2> QED BY <2>1, <2>2
<1>4. Admit(MergedObject(c)) \in Object
  BY <1>3, AdmitType
<1> QED BY <1>3, <1>4 DEF StoredObject

\* A cycle that has read the release works on a stored one.
Stored == pc \notin {"idle", "install"} => last # None

\* The merge works through rendered children.
Targeted == pc \in {"get", "merge"} => \A c \in todo : target[c] # None

Shape == TypeOK /\ Stored /\ Targeted

\* The controller starts in well-typed states.
LEMMA InitType == Init => Shape
<1> SUFFICES ASSUME Init PROVE Shape
  OBVIOUS
<1>1. current \in Manifest /\ target \in Manifest
  BY EmptyManifestType DEF Init
<1>2. served \in [Children -> SUBSET Versions]
  BY DEF Init
<1>3. /\ live \in [Children -> Optional(Object)]
      /\ before \in [Children -> Optional(Object)]
      /\ after \in [Children -> Optional(Object)]
  <2>1. None \in Optional(Object)
    BY DEF Optional
  <2> QED BY <2>1 DEF Init
<1>4. disturbances \in 0..MaxDisturbances /\ faults \in 0..MaxFaults
  BY ConstantsAssumption DEF Init
<1>5. last \in Optional(Manifest) /\ deployed \in Optional(Manifest)
  BY DEF Init, Optional
<1> QED
  BY Zenon, <1>1, <1>2, <1>3, <1>4, <1>5 DEF Init, TypeOK, Shape, Stored, Targeted

\* A real Upgrade, recorded as deployed or as failed, keeps the types.
LEMMA RenderedStoreType ==
  ASSUME TypeOK
  PROVE  /\ Render(stamp) \in Manifest
         /\ Upgraded(UpgradeCurrent, Render(stamp)) \in [Children -> Optional(Object)]
BY RenderType, CurrentType, UpgradedType DEF TypeOK

\* One step of a cycle keeps the types.
LEMMA CycleType == Shape /\ Cycle => TypeOK'
<1> SUFFICES ASSUME TypeOK, Stored, Targeted, Cycle PROVE TypeOK'
  BY DEF Shape
<1> USE DEF cluster, store, locals, history, Return, Optional
<1>1. CASE Begin
  <2>1. current' \in Manifest
    BY <1>1, EmptyManifestType DEF Begin, TypeOK
  <2>2. SteadyState \in BOOLEAN
    BY DEF SteadyState
  <2> QED BY <1>1, <2>1, <2>2 DEF Begin, TypeOK
<1>2. CASE Install \/ RealUpgrade
  BY Zenon, <1>2, RenderedStoreType DEF Install, RealUpgrade, RecordDeployed, TypeOK
<1>3. CASE InstallRejected \/ UpgradeRejected
  BY <1>3 DEF InstallRejected, UpgradeRejected, TypeOK
<1>4. CASE Repair
  <2>1. CASE Dropped(ManifestOf(selectCurrentForBuild)) = {}
    BY <1>4, <2>1 DEF Repair, TypeOK
  <2>2. CASE Dropped(ManifestOf(selectCurrentForBuild)) # {} /\ last # None
    <3>1. filterUnmappableManifestDocs(ManifestOf(selectCurrentForBuild)) \in Manifest
      BY <2>2, CurrentType, FilterType
    <3> QED BY <1>4, <2>2, <3>1 DEF Repair, TypeOK
  <2> QED BY <1>4, <2>1, <2>2 DEF Repair, Stored
<1>5. CASE RenderTarget
  BY <1>5, RenderedStoreType DEF RenderTarget, TypeOK
<1>6. CASE Build
  BY <1>6 DEF Build, TypeOK
<1>7. CASE \E c \in Children : GetLive(c)
  <2>1. PICK c \in Children : GetLive(c)
    BY <1>7
  <2>2. before' = before \/ before' = [before EXCEPT ![c] = live[c]]
    BY <2>1 DEF GetLive
  <2>3. faults' \in 0..MaxFaults /\ clean' \in BOOLEAN
    <3>1. \/ faults' = faults /\ clean' = clean
          \/ faults < MaxFaults /\ faults' = faults + 1 /\ clean' = FALSE
      BY <2>1 DEF GetLive
    <3>2. faults \in 0..MaxFaults /\ MaxFaults \in Nat
      BY ConstantsAssumption DEF TypeOK
    <3>3. faults' \in 0..MaxFaults
      BY <3>1, <3>2
    <3>4. clean' \in BOOLEAN
      BY ZenonT(60), <3>1 DEF TypeOK
    <3> QED BY <3>3, <3>4
  <2>4. before' \in [Children -> Optional(Object)]
    BY <2>2 DEF TypeOK
  <2> QED BY <2>1, <2>3, <2>4 DEF GetLive, TypeOK
<1>8. CASE Prepare
  <2>1. \A c \in Children : Prepared(c) \in Optional(Entry)
    BY Zenon, PreparedType
  <2>2. target' \in Manifest
    BY <1>8, <2>1 DEF Adoptable, Prepare, Manifest
  <2>3. current' \in Manifest
    BY SMTT(60), <1>8, PreparedType DEF Adoptable, Prepare, Manifest, TypeOK
  <2> QED BY <1>8, <2>2, <2>3 DEF Adoptable, Prepare, TypeOK
<1>9. CASE \E c \in Children : Merge(c)
  <2>1. PICK c \in Children : Merge(c)
    BY <1>9
  <2>2. target[c] \in Entry
    BY SMTT(60), <2>1 DEF Merge, Targeted, TypeOK, Manifest
  <2>3. StoredObject(c) \in Object
    BY <2>1, <2>2, StoredType DEF Merge
  <2>4. /\ live' \in [Children -> Optional(Object)]
        /\ after' \in [Children -> Optional(Object)]
    BY <2>1, <2>3 DEF Merge, TypeOK
  <2>5. /\ created' \subseteq Children /\ written' \subseteq Children
        /\ mutated' \subseteq Children /\ unrecorded' \in BOOLEAN
        /\ todo' \subseteq Children
    BY <2>1 DEF Merge, TypeOK
  <2> QED BY SMTT(60), <2>1, <2>4, <2>5 DEF Merge, TypeOK
<1>10. CASE \E c \in Children : MergeUnmatched(c)
  BY <1>10 DEF MergeUnmatched, TypeOK
<1>11. CASE MergeDone
  BY <1>11 DEF Obsolete, MergeDone, TypeOK
<1>12. CASE \E c \in Children : Prune(c)
  BY <1>12 DEF Prune, TypeOK
<1>13. CASE Decide
  BY <1>13 DEF Decide, TypeOK
<1> QED
  BY <1>1, <1>2, <1>3, <1>4, <1>5, <1>6, <1>7, <1>8, <1>9, <1>10, <1>11, <1>12, <1>13
  DEF Cycle

\* A failed or interrupted Upgrade keeps the types.
LEMMA FaultType == TypeOK /\ (UpgradeFails \/ Interrupted) => TypeOK'
<1> SUFFICES ASSUME TypeOK, UpgradeFails \/ Interrupted PROVE TypeOK'
  BY SMTT(60)
<1> USE DEF cluster, store, locals, history, Return, Optional
<1>1. faults' \in 0..MaxFaults
  BY SMTT(60), ConstantsAssumption DEF UpgradeFails, Interrupted, TypeOK
<1>2. CASE UpgradeFails
  BY Zenon, <1>1, <1>2, RenderedStoreType DEF UpgradeFails, TypeOK
<1>3. CASE Interrupted
  BY <1>1, <1>3 DEF Interrupted, TypeOK
<1> QED BY <1>2, <1>3

\* What happens beside the controller keeps the types.
LEMMA EnvironmentType == TypeOK /\ Environment => TypeOK'
<1> SUFFICES ASSUME TypeOK, Environment PROVE TypeOK'
  OBVIOUS
<1> USE DEF store, locals, Disturb
<1>1. disturbances' \in 0..MaxDisturbances
  BY ConstantsAssumption
  DEF Environment, ChartChanges, LiveDeleted, LiveDrifts, VersionPruned, TypeOK
<1>2. CASE ChartChanges
  BY ZenonT(60), <1>1, <1>2 DEF ChartChanges, TypeOK
<1>3. CASE \E c \in Children : LiveDeleted(c)
  BY ZenonT(60), <1>1, <1>3 DEF LiveDeleted, TypeOK, Optional
<1>4. CASE \E c \in Children : LiveDrifts(c)
  <2>1. PICK c \in Children : LiveDrifts(c)
    BY <1>4
  <2>2. PICK v \in Values : live' = [live EXCEPT ![c].data = v]
    BY Zenon, <2>1 DEF LiveDrifts
  <2>3. live[c] \in Object
    BY <2>1 DEF LiveDrifts, TypeOK, Optional
  <2>4. [live[c] EXCEPT !.data = v] \in Object
    BY <2>3 DEF Object, Optional
  <2>5. live' = [live EXCEPT ![c] = [live[c] EXCEPT !.data = v]]
    BY <2>2
  <2>6. live' \in [Children -> Optional(Object)]
    BY <2>4, <2>5 DEF TypeOK, Optional
  <2> QED BY ZenonT(60), <1>1, <2>1, <2>6 DEF LiveDrifts, TypeOK
<1>5. CASE \E c \in Children : VersionPruned(c)
  <2>1. PICK c \in Children : VersionPruned(c)
    BY <1>5
  <2>2. PICK v \in served[c] : served' = [served EXCEPT ![c] = served[c] \ {v}]
    BY Zenon, <2>1 DEF VersionPruned
  <2>3. served' \in [Children -> SUBSET Versions]
    BY <2>2 DEF TypeOK
  <2> QED BY ZenonT(60), <1>1, <2>1, <2>3 DEF VersionPruned, TypeOK
<1> QED BY <1>2, <1>3, <1>4, <1>5 DEF Environment

\* Types, and the facts about the locals of a cycle, are kept by every step.
LEMMA ShapeStep == Shape /\ [Next]_vars => Shape'
<1> SUFFICES ASSUME Shape, [Next]_vars PROVE Shape'
  OBVIOUS
<1>1. TypeOK'
  <2>1. CASE Next
    BY SMTT(60), <2>1, CycleType, FaultType, EnvironmentType DEF Next, Shape
  <2>2. CASE UNCHANGED vars
    BY SMTT(60), <2>2 DEF Shape, TypeOK, vars, cluster, store, locals, history
  <2> QED BY <2>1, <2>2
<1>2. (Stored /\ Targeted)'
  <2> USE DEF Shape, Stored, Targeted, cluster, store, locals, history, Return
  <2>1. CASE Cycle
    <3>1. CASE Begin
      BY SMTT(60), <3>1 DEF Begin
    <3>2. CASE Install \/ RealUpgrade \/ InstallRejected \/ UpgradeRejected
      BY <3>2 DEF Install, RealUpgrade, InstallRejected, UpgradeRejected
    <3>3. CASE Repair
      <4>1. last' # None
        <5>1. ManifestOf(selectCurrentForBuild) \in Manifest
          BY <3>3, CurrentType DEF Repair
        <5>2. filterUnmappableManifestDocs(ManifestOf(selectCurrentForBuild)) # None
          BY SMTT(60), <5>1, FilterType, ConstantsAssumption
        <5> QED BY <3>3, <5>2 DEF Repair
      <4> QED BY <3>3, <4>1 DEF Repair
    <3>4. CASE RenderTarget \/ Build \/ MergeDone \/ Decide
      BY Zenon, <3>4 DEF RenderTarget, Build, MergeDone, Decide
    <3>5. CASE \E c \in Children : GetLive(c)
      BY <3>5 DEF GetLive
    <3>6. CASE Prepare
      <4>1. \A c \in Children : target[c] # None => target'[c] # None
        <5> SUFFICES ASSUME NEW c \in Children, target[c] # None PROVE Prepared(c) # None
          BY <3>6 DEF Adoptable, Prepare
        <5> QED BY Zenon, PreparedType, ConstantsAssumption
      <4> QED BY <3>6, <4>1 DEF Adoptable, Prepare
    <3>7. CASE \E c \in Children : Merge(c) \/ MergeUnmatched(c)
      BY Zenon, <3>7 DEF Merge, MergeUnmatched
    <3>8. CASE \E c \in Children : Prune(c)
      BY <3>8 DEF Prune
    <3> QED
      BY <2>1, <3>1, <3>2, <3>3, <3>4, <3>5, <3>6, <3>7, <3>8 DEF Cycle
  <2>2. CASE UpgradeFails \/ Interrupted
    BY <2>2 DEF UpgradeFails, Interrupted
  <2>3. CASE Environment
    BY <2>3 DEF Environment, Disturb, ChartChanges, LiveDeleted, LiveDrifts, VersionPruned
  <2>4. CASE UNCHANGED vars
    BY <2>4 DEF vars
  <2> QED BY SMTT(60), <2>1, <2>2, <2>3, <2>4 DEF Next
<1> QED BY <1>1, <1>2 DEF Shape

\* Type correctness of the reconcile, its release store and the live objects.
THEOREM TypeCorrect == Spec => []TypeOK
<1>1. Init => Shape
  BY InitType
<1>2. Shape /\ [Next]_vars => Shape'
  BY ShapeStep
<1>3. Shape => TypeOK
  BY DEF Shape
<1> QED BY <1>1, <1>2, <1>3, PTL DEF Spec

-----------------------------------------------------------------------------
(* Changed is right about the cluster *)

\* In an undisturbed cycle the snapshot of step 4 is what the merge meets, so
\* that the children counted in step 6 are the children the merge has changed.
Counted ==
  clean =>
    /\ pc \in {"install", "repair", "render", "build", "get"} =>
         mutated = {} /\ created = {} /\ removed = {}
    /\ pc = "get" =>
         \A c \in Children : target[c] # None /\ c \notin todo => before[c] = live[c]
    /\ pc = "merge" => \A c \in todo : before[c] = live[c] /\ after[c] = before[c]
    /\ pc \in {"merge", "prune"} => mutated = created \cup removed \cup Patched
    /\ pc = "upgrade" => mutated # {}
    /\ pc = "idle" /\ outcome = "unchanged" => mutated = {}

\* What counts as patched depends on the targets and on the two snapshots only.
LEMMA PatchedSame ==
  ASSUME UNCHANGED <<target, before, after>>
  PROVE  Patched' = Patched
BY DEF Patched, semanticallyChanged, strippedJSON

\* A removed child joins both sides of the account.
LEMMA PruneCounted ==
  ASSUME Counted, NEW c \in Children, Prune(c)
  PROVE  Counted'
<1>1. /\ pc = "prune" /\ UNCHANGED <<pc, target, before, after, created, clean>>
      /\ \/ UNCHANGED <<removed, mutated>>
         \/ removed' = removed \cup {c} /\ mutated' = mutated \cup {c}
  BY DEF Prune
<1>2. Patched' = Patched
  BY <1>1, PatchedSame
<1>3. clean => mutated = created \cup removed \cup Patched
  BY <1>1 DEF Counted
<1>4. clean => mutated' = created' \cup removed' \cup Patched'
  BY <1>1, <1>2, <1>3
<1> QED BY <1>1, <1>4 DEF Counted

\* The merge of one target counts it exactly when it changes it.
LEMMA MergeCounted ==
  ASSUME Shape, Counted, NEW c \in Children, Merge(c)
  PROVE  Counted'
<1> SUFFICES ASSUME clean'
             PROVE  /\ \A d \in todo' : before'[d] = live'[d] /\ after'[d] = before'[d]
                    /\ mutated' = created' \cup removed' \cup Patched'
  BY SMTT(60) DEF Merge, Counted
<1>1. clean /\ pc = "merge" /\ c \in todo
  BY DEF Merge
<1>2. before[c] = live[c] /\ after[c] = before[c]
  BY <1>1 DEF Counted
<1>3. mutated = created \cup removed \cup Patched
  BY SMTT(60), <1>1 DEF Counted
<1>4. target' = target /\ before' = before /\ removed' = removed /\ todo' = todo \ {c}
  BY DEF Merge
<1>5. /\ live' = [live EXCEPT ![c] = StoredObject(c)]
      /\ after' = [after EXCEPT ![c] = StoredObject(c)]
  BY DEF Merge
<1>6. \A d \in Children \ {c} : live'[d] = live[d] /\ after'[d] = after[d]
  BY <1>5 DEF Shape, TypeOK
<1>7. after'[c] = StoredObject(c)
  BY SMTT(60), <1>5 DEF Shape, TypeOK
<1>8. \A d \in todo' : before'[d] = live'[d] /\ after'[d] = before'[d]
  BY <1>1, <1>4, <1>6 DEF Counted, Shape, TypeOK
<1>9. target[c] # None
  BY SMTT(60), <1>1 DEF Shape, Targeted
<1>10. c \notin Patched
  BY <1>2 DEF Patched, semanticallyChanged
<1>11. Patched' = IF live[c] # None /\ MergeChanges(c) THEN Patched \cup {c} ELSE Patched
  <2>1. c \in Patched' <=> live[c] # None /\ MergeChanges(c)
    BY <1>2, <1>4, <1>7, <1>9 DEF Patched, MergeChanges, semanticallyChanged, strippedJSON
  <2>2. \A d \in Children \ {c} : d \in Patched' <=> d \in Patched
    BY <1>4, <1>6 DEF Patched, semanticallyChanged, strippedJSON
  <2>3. Patched \subseteq Children /\ Patched' \subseteq Children
    BY DEF Patched
  <2> QED BY <1>10, <2>1, <2>2, <2>3
<1>12. mutated' = created' \cup removed' \cup Patched'
  <2>1. created' = IF live[c] = None THEN created \cup {c} ELSE created
    BY SMTT(60) DEF Merge
  <2>2. mutated' = IF MergeChanges(c) THEN mutated \cup {c} ELSE mutated
    BY DEF Merge
  <2>3. live[c] = None => MergeChanges(c)
    BY DEF MergeChanges
  <2> QED BY SMTT(60), <1>3, <1>4, <1>11, <2>1, <2>2, <2>3
<1> QED BY SMTT(60), <1>8, <1>12

\* Before the first merge nothing is counted.
LEMMA PrepareCounted ==
  ASSUME Shape, Counted, Prepare
  PROVE  Counted'
<1> SUFFICES ASSUME clean'
             PROVE  /\ \A d \in todo' : before'[d] = live'[d] /\ after'[d] = before'[d]
                    /\ mutated' = created' \cup removed' \cup Patched'
  BY DEF Adoptable, Prepare, Counted
<1> USE DEF cluster, history
<1>1. clean /\ pc = "get" /\ todo = {}
  BY DEF Adoptable, Prepare
<1>2. after' = before /\ before' = before /\ live' = live
  BY DEF Adoptable, Prepare
<1>3. \A d \in todo' : d \in Children /\ target[d] # None
  BY DEF Adoptable, Prepare
<1>4. Patched' = {}
  BY <1>2 DEF Patched, semanticallyChanged
<1> QED BY <1>1, <1>2, <1>3, <1>4 DEF Counted, Prepare

\* Every step keeps the account of what the cycle mutated.
LEMMA CountedStep == Shape /\ Counted /\ [Next]_vars => Counted'
<1> SUFFICES ASSUME Shape, Counted, [Next]_vars PROVE Counted'
  BY SMTT(60)
<1> USE DEF cluster, store, locals, history, Return
<1>1. CASE Begin
  BY SMTT(60), <1>1 DEF Begin, Counted
<1>2. CASE Install \/ RealUpgrade \/ InstallRejected \/ UpgradeRejected
  BY ZenonT(60), <1>2 DEF Install, RealUpgrade, InstallRejected, UpgradeRejected, Counted
<1>3. CASE Repair \/ RenderTarget
  BY Zenon, <1>3 DEF Repair, RenderTarget, Counted
<1>4. CASE Build
  BY Zenon, <1>4 DEF Build, Counted
<1>5. CASE \E c \in Children : GetLive(c)
  <2>1. PICK c \in Children : GetLive(c)
    BY <1>5, Zenon
  <2>2. CASE clean' = FALSE
    BY SMTT(60), <2>2 DEF Counted
  <2>3. CASE clean' # FALSE
    <3>1. before' = [before EXCEPT ![c] = live[c]] /\ clean' = clean
      BY Zenon, <2>1, <2>3 DEF GetLive
    <3> QED BY <2>1, <3>1 DEF GetLive, Counted, Shape, TypeOK
  <2> QED BY Zenon, <2>2, <2>3
<1>6. CASE Prepare
  BY <1>6, PrepareCounted
<1>7. CASE \E c \in Children : Merge(c)
  BY SMTT(60), <1>7, MergeCounted
<1>8. CASE \E c \in Children : MergeUnmatched(c)
  BY ZenonT(60), <1>8 DEF MergeUnmatched, Counted
<1>9. CASE MergeDone
  <2>1. Patched' = Patched
    BY <1>9, PatchedSame, Zenon DEF MergeDone
  <2> QED BY Zenon, <1>9, <2>1 DEF Obsolete, MergeDone, Counted
<1>10. CASE \E c \in Children : Prune(c)
  BY <1>10, PruneCounted, Zenon
<1>11. CASE Decide
  BY ZenonT(60), <1>11 DEF Decide, Changed, Counted
<1>12. CASE UpgradeFails \/ Interrupted
  BY Zenon, <1>12 DEF UpgradeFails, Interrupted, Counted
<1>13. CASE Environment
  BY <1>13
  DEF Environment, Disturb, ChartChanges, LiveDeleted, LiveDrifts, VersionPruned, Counted
<1>14. CASE UNCHANGED vars
  BY <1>14 DEF vars, Counted, Patched, semanticallyChanged, strippedJSON
<1> QED
  BY <1>1, <1>2, <1>3, <1>4, <1>5, <1>6, <1>7, <1>8, <1>9, <1>10, <1>11, <1>12, <1>13, <1>14
  DEF Next, Cycle

\* ReconcileResult.Changed is right: in an undisturbed cycle Reconcile writes a
\* revision only if its merge changed a child, and reports "unchanged" only if
\* it changed none.
THEOREM ChangedIsRight == Spec => []ChangedIffMutated
<1>1. Init => Shape /\ Counted
  BY InitType DEF Init, Counted
<1>2. Shape /\ Counted /\ [Next]_vars => (Shape /\ Counted)'
  BY Zenon, ShapeStep, CountedStep
<1>3. Counted => ChangedIffMutated
  BY DEF Counted, ChangedIffMutated
<1> QED BY <1>1, <1>2, <1>3, PTL DEF Spec

-----------------------------------------------------------------------------
(* Ownership metadata survives *)

UnownedManifest(m) == \A c \in Children : m[c] # None => m[c].object.owner = None

\* No manifest declares helm's ownership metadata, so that no merge deletes it.
Unowned ==
  /\ last # None => UnownedManifest(last)
  /\ deployed # None => UnownedManifest(deployed)
  /\ UnownedManifest(current) /\ UnownedManifest(target)

\* A rendered entry carries no ownership metadata: charts declare none.
LEMMA RenderUnowned ==
  ASSUME Shape, NEW s \in Stamps
  PROVE  UnownedManifest(Render(s))
<1> SUFFICES ASSUME NEW c \in Children, Render(s)[c] # None
             PROVE  Render(s)[c].object.owner = None
  BY SMTT(60) DEF UnownedManifest
<1>1. chart[c] \in Optional(Entry) /\ (chart[c] # None => chart[c].object.owner = None)
  BY ConstantsAssumption DEF Shape, TypeOK, Manifest
<1>2. Render(s)[c] = Stamp(c, chart[c], s)
  BY SMTT(60) DEF Render
<1> QED BY <1>1, <1>2 DEF Stamp, Entry, Object, Optional

\* The repair of a release drops entries and adds no metadata to the others.
LEMMA FilterUnowned ==
  ASSUME NEW m \in Manifest, UnownedManifest(m)
  PROVE  UnownedManifest(filterUnmappableManifestDocs(m))
BY DEF UnownedManifest, filterUnmappableManifestDocs

\* Folding a Secret's stringData leaves the owner alone.
LEMMA NormalizeOwner ==
  ASSUME NEW o \in Object
  PROVE  normalizeSecretStringData(o).owner = o.owner
BY DEF normalizeSecretStringData, Object

\* What the API server stores has the owner that was written.
LEMMA AdmitOwner ==
  ASSUME NEW o \in Object
  PROVE  Admit(o).owner = o.owner
BY SMTT(60), NormalizeType, NormalizeOwner DEF Admit, Object

\* Steps 4.5 to 4.7 add no ownership metadata to the lists they prepare.
LEMMA PreparedUnowned ==
  ASSUME Shape, Unowned, NEW c \in Children, target[c] # None
  PROVE  /\ Prepared(c).object.owner = None
         /\ [Prepared(c) EXCEPT !.object = Adopted(@, before[c])].object.owner = None
<1> DEFINE o == target[c].object
           o1 == IF before[c] # None /\ before[c].traceparent # None
                   THEN [o EXCEPT !.traceparent = before[c].traceparent] ELSE o
<1>1. target[c] \in Entry /\ o \in Object
  BY SMTT(60) DEF Shape, TypeOK, Manifest, Entry, Optional
<1>2. before[c] \in Optional(Object)
  BY SMTT(60) DEF Shape, TypeOK
<1>3. before[c] # None => before[c].traceparent \in Optional(Stamps)
  BY Zenon, <1>2 DEF Object, Optional
<1>4. o.owner = None
  BY DEF Unowned, UnownedManifest
<1>5. o1 \in Object /\ o1.owner = None
  BY <1>1, <1>3, <1>4 DEF Object, Optional
<1>6. Prepared(c) = [target[c] EXCEPT !.object = normalizeSecretStringData(o1)]
  BY DEF Adoptable, Prepared, Neutralized
<1> HIDE DEF o1
<1>7. Prepared(c).object = normalizeSecretStringData(o1)
  BY SMTT(60), <1>1, <1>6 DEF Entry
<1>8. normalizeSecretStringData(o1).owner = None
  BY <1>5, NormalizeOwner
<1>9. Prepared(c) \in Entry
  BY ZenonT(60), PreparedType DEF Shape
<1> QED BY <1>7, <1>8, <1>9 DEF Adopted, Entry

\* No step puts ownership metadata in a stored or rendered manifest.
LEMMA UnownedStep == Shape /\ Unowned /\ [Next]_vars => Unowned'
<1> SUFFICES ASSUME Shape, Unowned, [Next]_vars PROVE Unowned'
  OBVIOUS
<1> USE DEF cluster, store, locals, Return
<1>1. UnownedManifest(Render(stamp))
  BY SMTT(60), RenderUnowned DEF Shape, TypeOK
<1>2. CASE Begin
  BY Zenon, <1>2 DEF Begin, Unowned, UnownedManifest, EmptyManifest
<1>3. CASE Install \/ RealUpgrade
  BY <1>1, <1>3 DEF Install, RealUpgrade, RecordDeployed, Unowned, UnownedManifest
<1>4. CASE Repair
  <2> DEFINE rel == ManifestOf(selectCurrentForBuild)
  <2>1. rel \in Manifest /\ UnownedManifest(rel)
    BY <1>4, CurrentType DEF Repair, Shape, Stored, selectCurrentForBuild, ManifestOf, Unowned
  <2>2. UnownedManifest(filterUnmappableManifestDocs(rel))
    BY <2>1, FilterUnowned
  <2> QED BY ZenonT(60), <1>4, <2>2 DEF Repair, Unowned, UnownedManifest
<1>5. CASE RenderTarget
  BY <1>1, <1>5 DEF RenderTarget, Unowned, UnownedManifest
<1>6. CASE Prepare
  <2>1. \A c \in Children : target[c] = None => target'[c] = None
    BY Zenon, <1>6 DEF Adoptable, Prepare, Prepared
  <2>2. UnownedManifest(target')
    BY <1>6, <2>1, PreparedUnowned DEF Adoptable, Prepare, UnownedManifest
  <2>3. UnownedManifest(current')
    BY Zenon, <1>6, PreparedUnowned DEF Adoptable, Prepare, UnownedManifest, Unowned
  <2> QED BY SMTT(60), <1>6, <2>2, <2>3 DEF Adoptable, Prepare, Unowned, UnownedManifest
<1>7. CASE UpgradeFails
  BY SMTT(60), <1>1, <1>7 DEF UpgradeFails, Unowned, UnownedManifest
<1>8. CASE UNCHANGED <<store, current, target>>
  BY SMTT(60), <1>8 DEF Unowned, UnownedManifest
<1>9. CASE \/ InstallRejected \/ UpgradeRejected \/ Build \/ MergeDone \/ Decide
           \/ Interrupted \/ Environment
           \/ \E c \in Children : GetLive(c) \/ Merge(c) \/ MergeUnmatched(c) \/ Prune(c)
  BY ZenonT(60), <1>8, <1>9 DEF InstallRejected, UpgradeRejected, Build, MergeDone, Decide, Interrupted,
    Environment, Disturb, ChartChanges, LiveDeleted, LiveDrifts, VersionPruned,
    GetLive, Merge, MergeUnmatched, Prune
<1>10. CASE UNCHANGED vars
  BY <1>8, <1>10 DEF vars
<1> QED BY SMTT(60), <1>2, <1>3, <1>4, <1>5, <1>6, <1>7, <1>9, <1>10 DEF Next, Cycle

Owned(o) == o # None /\ o.owner = HelmOwner

\* helm's Upgrade takes ownership of what it applies and leaves the rest alone.
LEMMA UpgradedKeepsOwner ==
  ASSUME Shape, NEW cur \in Manifest, NEW tgt \in Manifest, NEW c \in Children,
         Owned(live[c]), Upgraded(cur, tgt)[c] # None
  PROVE  Upgraded(cur, tgt)[c].owner = HelmOwner
<1> DEFINE owned == [tgt[c].object EXCEPT !.owner = HelmOwner]
           original == IF cur[c] = None THEN tgt[c].object ELSE cur[c].object
<1>1. cur[c] \in Optional(Entry) /\ tgt[c] \in Optional(Entry) /\ live[c] \in Object
  BY DEF Shape, TypeOK, Manifest, Owned, Optional
<1>2. CASE tgt[c] = None
  BY SMTT(60), <1>2 DEF Upgraded, Owned
<1>3. CASE tgt[c] # None
  <2>1. tgt[c].object \in Object
    BY <1>1, <1>3 DEF Entry, Optional
  <2>2. owned \in Object /\ owned.owner = HelmOwner
    BY SMTT(60), <2>1 DEF Object, Optional
  <2>3. original \in Object
    BY <1>1, <2>1 DEF Entry, Optional
  <2>4. Upgraded(cur, tgt)[c] = Admit(ThreeWayMerge(original, owned, live[c]))
    BY SMTT(60), <1>3 DEF Upgraded, Owned
  <2> HIDE DEF owned, original
  <2>5. ThreeWayMerge(original, owned, live[c]).owner = HelmOwner
    BY <2>2, ConstantsAssumption DEF ThreeWayMerge, MergeField
  <2> QED BY SMTT(60), <1>1, <2>2, <2>3, <2>4, <2>5, MergeType, AdmitOwner
<1> QED BY <1>2, <1>3

\* The merge of step 5 leaves the owner of a live child as it is.
LEMMA MergeKeepsOwner ==
  ASSUME Shape, Unowned, NEW c \in Children, Merge(c), live[c] # None
  PROVE  StoredObject(c).owner = live[c].owner
<1>1. current[c] # None /\ target[c] # None
  BY Zenon, SMTT(60) DEF Merge, Shape, Targeted
<1>2. /\ current[c].object \in Object /\ target[c].object \in Object /\ live[c] \in Object
      /\ current[c].object.owner = None /\ target[c].object.owner = None
  BY Zenon, <1>1 DEF Shape, TypeOK, Manifest, Entry, Optional, Unowned, UnownedManifest
<1>3. MergedObject(c) \in Object /\ MergedObject(c).owner = live[c].owner
  BY <1>2, MergeType DEF MergedObject, ThreeWayMerge, MergeField
<1> QED BY SMTT(60), <1>3, AdmitOwner DEF StoredObject

KeepsOwner ==
  \A c \in Children :
    live[c] # None /\ live'[c] # None /\ live[c].owner = HelmOwner
      => live'[c].owner = HelmOwner

\* No step takes the ownership metadata from a live child.
LEMMA OwnerStep == Shape /\ Unowned /\ [Next]_vars => KeepsOwner
<1> SUFFICES ASSUME Shape, Unowned, [Next]_vars PROVE KeepsOwner
  OBVIOUS
<1> USE DEF cluster
<1>1. CASE UNCHANGED live
  BY <1>1 DEF KeepsOwner
<1>2. CASE live' = Upgraded(UpgradeCurrent, Render(stamp))
  BY SMTT(60), <1>2, UpgradedKeepsOwner, CurrentType, RenderedStoreType DEF KeepsOwner, Owned, Shape
<1>3. CASE \E c \in Children : Merge(c)
  <2>1. PICK c \in Children : Merge(c)
    BY <1>3
  <2>2. \A d \in Children : live'[d] = IF d = c THEN StoredObject(c) ELSE live[d]
    BY SMTT(60), <2>1 DEF Merge, Shape, TypeOK
  <2> QED BY SMTT(60), <2>1, <2>2, MergeKeepsOwner DEF KeepsOwner
<1>4. CASE \E c \in Children : live' = [live EXCEPT ![c] = None]
  BY <1>4 DEF KeepsOwner, Shape, TypeOK
<1>5. CASE \E c \in Children : LiveDrifts(c)
  <2>1. PICK c \in Children : LiveDrifts(c)
    BY <1>5
  <2>2. PICK v \in Values : live' = [live EXCEPT ![c].data = v]
    BY Zenon, <2>1 DEF LiveDrifts
  <2>3. live[c] \in Object
    BY <2>1 DEF LiveDrifts, Shape, TypeOK, Optional
  <2>4. [live[c] EXCEPT !.data = v].owner = live[c].owner
    BY <2>3 DEF Object
  <2>5. \A d \in Children : live'[d] = IF d = c THEN [live[c] EXCEPT !.data = v] ELSE live[d]
    BY SMTT(60), <2>2 DEF Shape, TypeOK
  <2> QED BY Zenon, <2>4, <2>5 DEF KeepsOwner
<1>6. CASE Cycle
  BY ZenonT(60), <1>1, <1>2, <1>3, <1>4, <1>6
  DEF Cycle, Begin, Install, InstallRejected, Repair, RenderTarget, Build, GetLive, Prepare,
      MergeUnmatched, MergeDone, Prune, Decide, RealUpgrade, UpgradeRejected
<1>7. CASE UpgradeFails \/ Interrupted
  BY <1>1, <1>2, <1>7 DEF UpgradeFails, Interrupted
<1>8. CASE Environment
  BY <1>1, <1>4, <1>5, <1>8 DEF Environment, ChartChanges, LiveDeleted, VersionPruned
<1>9. CASE UNCHANGED vars
  BY <1>1, <1>9 DEF vars
<1> QED BY <1>6, <1>7, <1>8, <1>9 DEF Next

\* No step strips helm's ownership metadata from a live child: neither the
\* adoption of step 4.7 nor the merge of step 5 nor the real Upgrade.
THEOREM OwnershipIsKept == Spec => OwnershipKept
<1>1. Init => Shape /\ Unowned
  BY InitType DEF Init, Unowned, UnownedManifest, EmptyManifest
<1>2. Shape /\ Unowned /\ [Next]_vars => (Shape /\ Unowned)'
  BY ShapeStep, UnownedStep
<1>3. Shape /\ Unowned /\ [Next]_vars => [KeepsOwner]_vars
  BY OwnerStep
<1> QED BY <1>1, <1>2, <1>3, PTL DEF Spec, OwnershipKept, KeepsOwner

-----------------------------------------------------------------------------
(* The repair and the adoption *)

\* What the repair keeps is served (filterUnmappableManifestDocs).
LEMMA FilterBuilds ==
  ASSUME NEW m
  PROVE  Builds(filterUnmappableManifestDocs(m))
BY DEF Builds, Mapped, filterUnmappableManifestDocs

\* A manifest from which nothing is dropped is served.
LEMMA NothingDropped ==
  ASSUME NEW m, Dropped(m) = {}
  PROVE  Builds(m)
BY DEF Builds, Dropped

\* The repaired revision is the one helm's Upgrade builds from.
LEMMA RepairedIsCurrent ==
  ASSUME Shape, Repair
  PROVE  Builds(UpgradeCurrent)'
<1> DEFINE rel == ManifestOf(selectCurrentForBuild)
           fix == filterUnmappableManifestDocs(rel)
<1>1. last # None /\ served' = served
  BY DEF Repair, Shape, Stored, cluster
<1>2. rel = UpgradeCurrent
  BY <1>1 DEF selectCurrentForBuild, ManifestOf, UpgradeCurrent
<1>3. \A m : Builds(m)' <=> Builds(m)
  BY <1>1 DEF Builds, Mapped
<1>4. CASE Dropped(rel) = {}
  <2>1. UpgradeCurrent' = UpgradeCurrent
    BY <1>4 DEF Repair, UpgradeCurrent, EmptyManifest, store
  <2> QED BY <1>1, <1>2, <1>4, <2>1, NothingDropped DEF Builds, Mapped
<1>5. CASE Dropped(rel) # {}
  <2>1. fix # None
    BY <1>1, CurrentType, FilterType, ConstantsAssumption DEF Shape
  <2>2. /\ last' = IF selectCurrentForBuild = "last" THEN fix ELSE last
        /\ deployed' = IF selectCurrentForBuild = "deployed" \/ lastDeployed
                         THEN fix ELSE deployed
        /\ lastDeployed' = lastDeployed
    BY <1>5 DEF Repair
  <2> HIDE DEF fix
  <2>3. UpgradeCurrent' = fix
    BY <1>1, <2>1, <2>2 DEF UpgradeCurrent, selectCurrentForBuild
  <2>4. Builds(fix)
    BY FilterBuilds DEF fix
  <2> QED BY <1>1, <2>3, <2>4 DEF Builds, Mapped
<1> QED BY <1>4, <1>5

\* Every step keeps what the repair has achieved.
LEMMA RepairStep == Shape /\ RepairUnblocksRender /\ [Next]_vars => RepairUnblocksRender'
<1> SUFFICES ASSUME Shape, RepairUnblocksRender, [Next]_vars, clean', pc' = "render"
             PROVE  Builds(UpgradeCurrent)'
  BY DEF RepairUnblocksRender
<1> USE DEF cluster, store, locals, history, Return
<1>1. CASE Repair
  BY <1>1, RepairedIsCurrent
<1>2. CASE UNCHANGED <<served, store, clean, pc>>
  BY <1>2 DEF RepairUnblocksRender, Builds, Mapped, UpgradeCurrent, EmptyManifest
<1>3. CASE Next
  BY ZenonT(60), <1>1, <1>3 DEF Next, Cycle, Environment, Disturb, Begin, Install, InstallRejected, RenderTarget,
    Build, GetLive, Prepare, Merge, MergeUnmatched, MergeDone, Prune, Decide, RealUpgrade,
    UpgradeRejected, UpgradeFails, Interrupted, ChartChanges, LiveDeleted, LiveDrifts,
    VersionPruned
<1> QED BY <1>2, <1>3, Zenon DEF vars

\* The repair of step 1.5 unblocks helm: whatever revisions are stored and
\* whatever versions were pruned before the cycle, the current state that the
\* dry-run Upgrade builds is served.
THEOREM RepairUnblocks == Spec => []RepairUnblocksRender
<1>1. Init => Shape /\ RepairUnblocksRender
  BY InitType DEF Init, RepairUnblocksRender
<1>2. Shape /\ RepairUnblocksRender /\ [Next]_vars => (Shape /\ RepairUnblocksRender)'
  BY ShapeStep, RepairStep
<1> QED BY <1>1, <1>2, PTL DEF Spec

\* Every step of an undisturbed cycle keeps the originals of the live targets.
LEMMA AdoptionStep ==
  Shape /\ Counted /\ AdoptionAvoidsWedge /\ [Next]_vars => AdoptionAvoidsWedge'
<1> SUFFICES ASSUME Shape, Counted, AdoptionAvoidsWedge, [Next]_vars, clean', pc' = "merge",
                    NEW c \in todo', live'[c] # None
             PROVE  current'[c] # None
  BY Zenon DEF AdoptionAvoidsWedge
<1> USE DEF cluster, store, locals, history, Return
<1>1. CASE Prepare
  <2>1. clean /\ pc = "get" /\ todo = {} /\ live' = live
    BY <1>1 DEF Prepare
  <2>2. c \in Children /\ target[c] # None
    BY <1>1 DEF Prepare
  <2>3. before[c] = live[c]
    BY <2>1, <2>2 DEF Counted
  <2>4. CASE current[c] # None
    BY <1>1, <2>2, <2>4 DEF Prepare, Adoptable
  <2>5. CASE current[c] = None
    <3>1. Adoptable(c)
      BY <2>1, <2>2, <2>3, <2>5 DEF Adoptable
    <3>2. current'[c] = [Prepared(c) EXCEPT !.object = Adopted(@, before[c])]
      BY <1>1, <2>2, <3>1 DEF Prepare
    <3> QED BY Zenon, <2>2, <3>2, PreparedType, ConstantsAssumption DEF Shape
  <2> QED BY <2>4, <2>5
<1>2. CASE \E d \in Children : Merge(d)
  <2>1. PICK d \in Children : Merge(d)
    BY <1>2
  <2>2. /\ c # d /\ c \in todo /\ c \in Children
        /\ clean /\ pc = "merge" /\ current' = current
    BY Zenon, <2>1 DEF Merge, Shape, TypeOK
  <2>3. live'[c] = live[c]
    BY <2>1, <2>2 DEF Merge, Shape, TypeOK
  <2> QED BY <2>2, <2>3 DEF AdoptionAvoidsWedge
<1>3. CASE UNCHANGED <<live, current, todo, clean, pc>>
  BY <1>3 DEF AdoptionAvoidsWedge
<1>4. CASE Next
  BY ZenonT(60), <1>1, <1>2, <1>4 DEF Next, Cycle, Environment, Disturb, Begin, Install, InstallRejected,
    Repair, RenderTarget, Build, GetLive, MergeUnmatched, MergeDone, Prune, Decide,
    RealUpgrade, UpgradeRejected, UpgradeFails, Interrupted, ChartChanges, LiveDeleted,
    LiveDrifts, VersionPruned
<1> QED BY <1>3, <1>4, Zenon DEF vars

\* The adoption of step 4.7 keeps the merge from getting stuck: in an undisturbed
\* cycle it meets no live target without an original, whatever the repair has
\* dropped from the stored manifest.
THEOREM AdoptionUnwedges == Spec => []AdoptionAvoidsWedge
<1>1. Init => Shape /\ Counted /\ AdoptionAvoidsWedge
  BY InitType DEF Init, Counted, AdoptionAvoidsWedge
<1>2. Shape /\ Counted /\ AdoptionAvoidsWedge /\ [Next]_vars
        => (Shape /\ Counted /\ AdoptionAvoidsWedge)'
  BY ShapeStep, CountedStep, AdoptionStep
<1> QED BY <1>1, <1>2, PTL DEF Spec

-----------------------------------------------------------------------------
(* Declared content is live *)

\* The API server has folded a live Secret's stringData and owns its own label.
Admitted ==
  \A c \in Children :
    live[c] # None => live[c].stringData = None /\ live[c].label = ServerValue

\* What the API server stores is folded, has the server's label and the fields
\* that were written.
LEMMA AdmitFields ==
  ASSUME NEW o \in Object
  PROVE  /\ Admit(o).stringData = None /\ Admit(o).label = ServerValue
         /\ Admit(o).data = normalizeSecretStringData(o).data
         /\ Admit(o).traceparent = o.traceparent
<1> DEFINE n == normalizeSecretStringData(o)
<1>1. n \in Object
  BY NormalizeType
<1>2. n.stringData = None /\ n.traceparent = o.traceparent
  BY DEF normalizeSecretStringData, Object
<1>3. Admit(o) = [n EXCEPT !.label = ServerValue]
  BY DEF Admit
<1> HIDE DEF n
<1>4. /\ Admit(o).label = ServerValue /\ Admit(o).stringData = n.stringData
      /\ Admit(o).data = n.data /\ Admit(o).traceparent = n.traceparent
  BY Zenon, <1>1, <1>3 DEF Object
<1> QED BY <1>2, <1>4, Zenon DEF n

\* helm's Upgrade writes through the API server.
LEMMA UpgradedAdmitted ==
  ASSUME Shape, Admitted, NEW cur \in Manifest, NEW tgt \in Manifest, NEW c \in Children,
         Upgraded(cur, tgt)[c] # None
  PROVE  /\ Upgraded(cur, tgt)[c].stringData = None
         /\ Upgraded(cur, tgt)[c].label = ServerValue
<1> DEFINE owned == [tgt[c].object EXCEPT !.owner = HelmOwner]
           original == IF cur[c] = None THEN tgt[c].object ELSE cur[c].object
<1>1. cur[c] \in Optional(Entry) /\ tgt[c] \in Optional(Entry) /\ live[c] \in Optional(Object)
  BY DEF Shape, TypeOK, Manifest
<1>2. CASE tgt[c] = None
  BY <1>2 DEF Upgraded, Admitted
<1>3. CASE tgt[c] # None
  <2>1. tgt[c].object \in Object
    BY <1>1, <1>3 DEF Entry, Optional
  <2>2. owned \in Object
    BY <2>1 DEF Object, Optional
  <2>3. original \in Object
    BY <1>1, <2>1 DEF Entry, Optional
  <2>4. Upgraded(cur, tgt)[c] = IF live[c] = None THEN Admit(owned)
                                ELSE Admit(ThreeWayMerge(original, owned, live[c]))
    BY <1>3 DEF Upgraded
  <2> HIDE DEF owned, original
  <2> QED BY <1>1, <2>2, <2>3, <2>4, MergeType, AdmitFields, Zenon DEF Optional
<1> QED BY Zenon, <1>2, <1>3

\* So does the merge of step 5.
LEMMA StoredAdmitted ==
  ASSUME Shape, Admitted, NEW c \in Children, Merge(c)
  PROVE  StoredObject(c).stringData = None /\ StoredObject(c).label = ServerValue
<1>1. target[c] \in Entry /\ (live[c] # None => current[c] \in Entry)
  BY DEF Merge, Shape, Targeted, TypeOK, Manifest, Optional
<1>2. MergedObject(c) \in Object
  <2>1. target[c].object \in Object /\ (live[c] # None => current[c].object \in Object)
    BY <1>1 DEF Entry
  <2>2. live[c] \in Optional(Object)
    BY Zenon DEF Shape, TypeOK
  <2> QED BY <2>1, <2>2, MergeType DEF MergedObject, Optional
<1>3. CASE MergedObject(c) = live[c]
  BY <1>2, <1>3, ConstantsAssumption, Zenon DEF StoredObject, Admitted
<1>4. CASE MergedObject(c) # live[c]
  BY <1>2, <1>4, AdmitFields DEF StoredObject
<1> QED BY Zenon, <1>3, <1>4

\* No step leaves an object behind that the API server has not admitted.
LEMMA AdmittedStep == Shape /\ Admitted /\ [Next]_vars => Admitted'
<1> SUFFICES ASSUME Shape, Admitted, [Next]_vars PROVE Admitted'
  OBVIOUS
<1> USE DEF cluster
<1>1. CASE UNCHANGED live
  BY Zenon, <1>1 DEF Admitted
<1>2. CASE live' = Upgraded(UpgradeCurrent, Render(stamp))
  BY <1>2, UpgradedAdmitted, CurrentType, RenderedStoreType DEF Admitted, Shape
<1>3. CASE \E c \in Children : Merge(c)
  <2>1. PICK c \in Children : Merge(c)
    BY <1>3
  <2>2. \A d \in Children : live'[d] = IF d = c THEN StoredObject(c) ELSE live[d]
    BY SMTT(60), <2>1 DEF Merge, Shape, TypeOK
  <2> QED BY Zenon, <2>1, <2>2, StoredAdmitted DEF Admitted
<1>4. CASE \E c \in Children : live' = [live EXCEPT ![c] = None]
  BY <1>4 DEF Admitted, Shape, TypeOK
<1>5. CASE \E c \in Children : LiveDrifts(c)
  <2>1. PICK c \in Children : LiveDrifts(c)
    BY <1>5
  <2>2. PICK v \in Values : live' = [live EXCEPT ![c].data = v]
    BY Zenon, <2>1 DEF LiveDrifts
  <2>3. live[c] \in Object /\ live[c] # None
    BY <2>1 DEF LiveDrifts, Shape, TypeOK, Optional
  <2>4. /\ [live[c] EXCEPT !.data = v].stringData = live[c].stringData
        /\ [live[c] EXCEPT !.data = v].label = live[c].label
    BY <2>3 DEF Object
  <2>5. \A d \in Children : live'[d] = IF d = c THEN [live[c] EXCEPT !.data = v] ELSE live[d]
    BY SMTT(60), <2>2 DEF Shape, TypeOK
  <2> QED BY Zenon, <2>3, <2>4, <2>5 DEF Admitted
<1>6. CASE Cycle
  BY ZenonT(60), <1>1, <1>2, <1>3, <1>4, <1>6
  DEF Cycle, Begin, Install, InstallRejected, Repair, RenderTarget, Build, GetLive, Prepare,
      MergeUnmatched, MergeDone, Prune, Decide, RealUpgrade, UpgradeRejected
<1>7. CASE UpgradeFails \/ Interrupted
  BY <1>1, <1>2, <1>7 DEF UpgradeFails, Interrupted
<1>8. CASE Environment
  BY <1>1, <1>4, <1>5, <1>8 DEF Environment, ChartChanges, LiveDeleted, VersionPruned
<1>9. CASE UNCHANGED vars
  BY <1>1, <1>9 DEF vars
<1> QED BY <1>6, <1>7, <1>8, <1>9 DEF Next

\* What the merge is to make live of a child.
Wanted(c) == normalizeSecretStringData(chart[c].object)

\* In an undisturbed cycle the target is the render of the chart, Secrets
\* folded, and the children that are done hold what the chart declares.
Faithful ==
  clean =>
    /\ pc \in {"build", "get"} => target = Render(stamp)
    /\ pc \in {"merge", "prune"} =>
         \A c \in Children :
           /\ target[c] = None <=> chart[c] = None
           /\ target[c] # None =>
                /\ target[c].object.stringData = None
                /\ target[c].object.data = Wanted(c).data
                /\ target[c].object.label = chart[c].object.label
                /\ c \notin todo => Declared(c)
    /\ pc = "prune" => \A c \in todo : target[c] = None
    /\ pc = "idle" /\ outcome \in {"unchanged", "upgraded"} =>
         \A c \in Children : chart[c] # None => Declared(c)

\* A render has an entry for exactly the children of the chart, and differs from
\* it in the traceparent only.
LEMMA RenderFields ==
  ASSUME TypeOK, NEW s \in Stamps, NEW c \in Children
  PROVE  /\ Render(s)[c] = None <=> chart[c] = None
         /\ chart[c] # None =>
              /\ chart[c] \in Entry /\ Render(s)[c] \in Entry
              /\ chart[c].object \in Object /\ Render(s)[c].object \in Object
              /\ Render(s)[c].version = chart[c].version
              /\ Render(s)[c].object.data = chart[c].object.data
              /\ Render(s)[c].object.stringData = chart[c].object.stringData
              /\ Render(s)[c].object.label = chart[c].object.label
              /\ Render(s)[c].object.traceparent \in {chart[c].object.traceparent, s}
              /\ Render(s)[c].object.traceparent # chart[c].object.traceparent
                   => c \in KrateoChildren
<1>1. chart[c] \in Optional(Entry)
  BY ConstantsAssumption DEF TypeOK, Manifest
<1>2. Render(s)[c] = Stamp(c, chart[c], s)
  BY DEF Render
<1>3. Render(s)[c] \in Optional(Entry)
  BY RenderType DEF Manifest
<1>4. CASE chart[c] = None
  BY <1>2, <1>4 DEF Stamp
<1>5. CASE chart[c] # None
  <2>1. chart[c] \in Entry /\ chart[c].object \in Object
    BY Zenon, <1>1, <1>5 DEF Optional, Entry
  <2>2. CASE Render(s)[c] = chart[c]
    BY <1>5, <2>1, <2>2 DEF Entry
  <2>3. CASE /\ Render(s)[c] = [chart[c] EXCEPT !.object.traceparent = s]
             /\ c \in KrateoChildren
    <3> DEFINE o == [chart[c].object EXCEPT !.traceparent = s]
    <3>1. /\ o \in Object /\ o.data = chart[c].object.data /\ o.label = chart[c].object.label
          /\ o.stringData = chart[c].object.stringData /\ o.traceparent = s
      BY <2>1 DEF Object, Optional
    <3>2. Render(s)[c] = [chart[c] EXCEPT !.object = o]
      BY <2>3
    <3> HIDE DEF o
    <3>3. /\ Render(s)[c] \in Entry /\ Render(s)[c].object = o
          /\ Render(s)[c].version = chart[c].version
      BY <2>1, <3>1, <3>2 DEF Entry
    <3> QED BY <1>5, <2>1, <2>3, <3>1, <3>3, ConstantsAssumption
  <2> QED BY <1>2, <2>2, <2>3 DEF Stamp
<1> QED BY <1>4, <1>5, Zenon

\* Folding depends on data and stringData only.
LEMMA NormalizeData ==
  ASSUME NEW x \in Object, NEW y \in Object, x.data = y.data, x.stringData = y.stringData
  PROVE  /\ normalizeSecretStringData(x).data = normalizeSecretStringData(y).data
         /\ normalizeSecretStringData(x).stringData = None
         /\ normalizeSecretStringData(x).label = x.label
         /\ normalizeSecretStringData(x).traceparent = x.traceparent
BY DEF normalizeSecretStringData, Object

\* helm's Upgrade to a render makes the declared content live.
LEMMA UpgradedDeclared ==
  ASSUME Shape, Admitted, NEW cur \in Manifest, NEW c \in Children, chart[c] # None
  PROVE  LET l == Upgraded(cur, Render(stamp))[c]
         IN  l # None /\ (Wanted(c).data # None => l.data = Wanted(c).data)
<1> DEFINE tgt == Render(stamp)[c]
           owned == [tgt.object EXCEPT !.owner = HelmOwner]
           original == IF cur[c] = None THEN tgt.object ELSE cur[c].object
           l == Upgraded(cur, Render(stamp))[c]
<1>1. /\ tgt # None /\ tgt.object \in Object /\ chart[c].object \in Object
      /\ tgt.object.data = chart[c].object.data
      /\ tgt.object.stringData = chart[c].object.stringData
  BY RenderFields, Zenon DEF Shape, TypeOK
<1>2. cur[c] \in Optional(Entry) /\ live[c] \in Optional(Object)
  BY Zenon DEF Shape, TypeOK, Manifest
<1>3. l = IF live[c] = None THEN Admit(owned)
          ELSE Admit(ThreeWayMerge(original, owned, live[c]))
  BY <1>1 DEF Upgraded
<1> HIDE DEF l, tgt
<1>4. /\ owned \in Object /\ owned.data = chart[c].object.data
      /\ owned.stringData = chart[c].object.stringData
  BY <1>1 DEF Object, Optional
<1>5. original \in Object
  BY <1>1, <1>2 DEF Entry, Optional
<1> HIDE DEF owned, original
<1>6. normalizeSecretStringData(owned).data = Wanted(c).data
  BY Zenon, <1>1, <1>4, NormalizeData DEF Wanted
<1>7. CASE live[c] = None
  <2>1. l \in Object /\ l.data = Wanted(c).data
    BY Zenon, <1>3, <1>4, <1>6, <1>7, AdmitFields, AdmitType
  <2> QED BY <2>1, ConstantsAssumption DEF l
<1>8. CASE live[c] # None
  <2> DEFINE m == ThreeWayMerge(original, owned, live[c])
  <2>1. m \in Object /\ live[c] \in Object
    BY <1>2, <1>4, <1>5, <1>8, MergeType DEF Optional
  <2>2. live[c].stringData = None
    BY Zenon, <1>8 DEF Admitted
  <2>3. m.stringData = owned.stringData
    BY <2>2 DEF ThreeWayMerge, MergeField
  <2>4. owned.data # None => m.data = owned.data
    BY DEF ThreeWayMerge, MergeField
  <2>5. l = Admit(m)
    BY <1>3, <1>8
  <2> HIDE DEF m
  <2>6. l \in Object /\ l.data = normalizeSecretStringData(m).data
    BY <2>1, <2>5, AdmitFields, AdmitType
  <2>7. /\ normalizeSecretStringData(m).data
             = IF m.stringData = None THEN m.data ELSE Encoded(m.stringData)
        /\ normalizeSecretStringData(owned).data
             = IF owned.stringData = None THEN owned.data ELSE Encoded(owned.stringData)
    BY <1>4, <2>1 DEF normalizeSecretStringData, Object
  <2>8. Wanted(c).data # None => l.data = Wanted(c).data
    BY <1>6, <2>3, <2>4, <2>6, <2>7
  <2> QED BY Zenon, <2>6, <2>8, ConstantsAssumption DEF l
<1> QED BY <1>7, <1>8

\* Steps 4.5 and 4.6 fold a rendered Secret and take over a live traceparent.
LEMMA PreparedFields ==
  ASSUME Shape, target = Render(stamp), NEW c \in Children, chart[c] # None
  PROVE  /\ Prepared(c) \in Entry
         /\ Prepared(c).object.stringData = None
         /\ Prepared(c).object.data = Wanted(c).data
         /\ Prepared(c).object.label = chart[c].object.label
         /\ Prepared(c).object.traceparent
              = IF before[c] # None /\ before[c].traceparent # None
                  THEN before[c].traceparent ELSE target[c].object.traceparent
<1> DEFINE o == target[c].object
           o1 == IF before[c] # None /\ before[c].traceparent # None
                   THEN [o EXCEPT !.traceparent = before[c].traceparent] ELSE o
<1>1. /\ target[c] # None /\ target[c] \in Entry /\ o \in Object /\ chart[c].object \in Object
      /\ o.data = chart[c].object.data /\ o.stringData = chart[c].object.stringData
      /\ o.label = chart[c].object.label
  BY RenderFields, Zenon DEF Shape, TypeOK
<1>2. before[c] # None => before[c].traceparent \in Optional(Stamps)
  BY DEF Shape, TypeOK, Object, Optional
<1>3. /\ o1 \in Object /\ o1.data = o.data /\ o1.stringData = o.stringData
      /\ o1.label = o.label
      /\ o1.traceparent = IF before[c] # None /\ before[c].traceparent # None
                            THEN before[c].traceparent ELSE o.traceparent
  BY <1>1, <1>2 DEF Object, Optional
<1>4. Prepared(c) = [target[c] EXCEPT !.object = normalizeSecretStringData(o1)]
  BY <1>1 DEF Prepared, Neutralized
<1> HIDE DEF o1
<1>5. Prepared(c).object = normalizeSecretStringData(o1)
  BY <1>1, <1>4 DEF Entry
<1>6. Prepared(c) \in Entry
  BY ZenonT(60), <1>1, PreparedType DEF Shape
<1>7. /\ normalizeSecretStringData(o1).data = Wanted(c).data
      /\ normalizeSecretStringData(o1).stringData = None
      /\ normalizeSecretStringData(o1).label = o1.label
      /\ normalizeSecretStringData(o1).traceparent = o1.traceparent
  BY <1>1, <1>3, NormalizeData DEF Wanted
<1> QED BY <1>1, <1>3, <1>5, <1>6, <1>7, Zenon

\* The merge of a folded target makes its data live.
LEMMA MergeDeclares ==
  ASSUME Shape, Admitted, NEW c \in Children, Merge(c), target[c].object.stringData = None
  PROVE  /\ StoredObject(c) \in Object
         /\ target[c].object.data # None => StoredObject(c).data = target[c].object.data
<1> DEFINE t == target[c].object
           m == MergedObject(c)
<1>1. /\ target[c] \in Entry /\ (live[c] # None => current[c] \in Entry)
      /\ live[c] \in Optional(Object)
  BY Zenon DEF Merge, Shape, Targeted, TypeOK, Manifest, Optional
<1>2. t \in Object /\ (live[c] # None => current[c].object \in Object /\ live[c] \in Object)
  BY <1>1 DEF Entry, Optional
<1>3. /\ m \in Object /\ m.stringData = None
      /\ t.data # None => m.data = t.data
  <2>1. CASE live[c] = None
    BY <1>2, <2>1 DEF MergedObject
  <2>2. CASE live[c] # None
    <3>2. m \in Object
      BY <1>2, <2>2, MergedType, Zenon
    <3>3. live[c].stringData = None
      BY Zenon, <2>2 DEF Admitted
    <3>4. m.data = MergeField(current[c].object.data, t.data, live[c].data)
          /\ m.stringData = MergeField(current[c].object.stringData, t.stringData, live[c].stringData)
      BY <2>2, MergedFields, Zenon
    <3> QED BY <3>2, <3>3, <3>4, Zenon DEF MergeField
  <2> QED BY Zenon, <2>1, <2>2
<1>4. normalizeSecretStringData(m).data = m.data
  BY <1>3 DEF normalizeSecretStringData
<1>5. StoredObject(c) = m \/ StoredObject(c) = Admit(m)
  BY DEF StoredObject
<1> HIDE DEF m
<1>6. Admit(m) \in Object /\ Admit(m).data = m.data
  BY <1>3, <1>4, AdmitType, AdmitFields
<1> QED BY <1>3, <1>5, <1>6

\* The last state of the lists, before the first merge.
LEMMA PrepareFaithful ==
  ASSUME Shape, Faithful, Prepare
  PROVE  Faithful'
<1> SUFFICES ASSUME clean', NEW c \in Children
             PROVE  /\ target'[c] = None <=> chart'[c] = None
                    /\ target'[c] # None =>
                         /\ target'[c].object.stringData = None
                         /\ target'[c].object.data = Wanted(c)'.data
                         /\ target'[c].object.label = chart'[c].object.label
                         /\ c \in todo'
  BY DEF Prepare, Faithful
<1> USE DEF cluster, history
<1>1. clean /\ pc = "get" /\ chart' = chart
  BY DEF Prepare
<1>2. target = Render(stamp)
  BY <1>1 DEF Faithful
<1>3. target'[c] = Prepared(c)
  BY DEF Prepare
<1>4. target[c] = None <=> chart[c] = None
  BY <1>2, RenderFields, Zenon DEF Shape, TypeOK
<1>5. Wanted(c)' = Wanted(c)
  BY <1>1 DEF Wanted
<1>6. c \in todo' <=> target[c] # None
  BY DEF Prepare
<1>7. CASE chart[c] = None
  BY <1>1, <1>3, <1>4, <1>7 DEF Prepared
<1>8. CASE chart[c] # None
  <2>1. Prepared(c) # None
    BY <1>2, <1>8, PreparedFields, ConstantsAssumption, Zenon
  <2> QED BY <1>1, <1>2, <1>3, <1>4, <1>5, <1>6, <1>8, <2>1, PreparedFields, Zenon
<1> QED BY <1>7, <1>8

\* The merge of one target makes what the chart declares for it live.
LEMMA MergeFaithful ==
  ASSUME Shape, Admitted, Faithful, NEW d \in Children, Merge(d)
  PROVE  Faithful'
<1> SUFFICES ASSUME clean', NEW c \in Children
             PROVE  /\ target'[c] = None <=> chart'[c] = None
                    /\ target'[c] # None =>
                         /\ target'[c].object.stringData = None
                         /\ target'[c].object.data = Wanted(c)'.data
                         /\ target'[c].object.label = chart'[c].object.label
                         /\ c \notin todo' => Declared(c)'
  BY Zenon DEF Merge, Faithful
<1>1. clean /\ pc = "merge" /\ chart' = chart /\ target' = target /\ todo' = todo \ {d}
  BY Zenon DEF Merge
<1>2. /\ target[c] = None <=> chart[c] = None
      /\ target[c] # None =>
           /\ target[c].object.stringData = None
           /\ target[c].object.data = Wanted(c).data
           /\ target[c].object.label = chart[c].object.label
           /\ c \notin todo => Declared(c)
  BY <1>1 DEF Faithful
<1>3. Wanted(c)' = Wanted(c)
  BY Zenon, <1>1 DEF Wanted
<1>4. live'[c] = IF c = d THEN StoredObject(d) ELSE live[c]
  BY DEF Merge, Shape, TypeOK
<1>5. CASE c # d
  BY <1>1, <1>2, <1>3, <1>4, <1>5, Zenon DEF Declared
<1>6. CASE c = d
  <2>1. target[d] # None
    BY <1>1, Zenon DEF Shape, Targeted, Merge
  <2>2. /\ StoredObject(d) \in Object
        /\ target[d].object.data # None => StoredObject(d).data = target[d].object.data
    BY Zenon, <1>2, <1>6, <2>1, MergeDeclares
  <2>3. Declared(c)'
    BY <1>1, <1>2, <1>4, <1>6, <2>1, <2>2, ConstantsAssumption, Zenon DEF Declared, Wanted
  <2> QED BY <1>1, <1>2, <1>3, <2>3, Zenon
<1> QED BY <1>5, <1>6

\* Every step of an undisturbed cycle is faithful to the chart.
LEMMA FaithfulStep == Shape /\ Admitted /\ Faithful /\ [Next]_vars => Faithful'
<1> SUFFICES ASSUME Shape, Admitted, Faithful, [Next]_vars PROVE Faithful'
  OBVIOUS
<1> USE DEF cluster, store, locals, history, Return
<1>1. CASE Begin \/ InstallRejected \/ UpgradeRejected \/ Repair
  BY <1>1, Zenon DEF Begin, InstallRejected, UpgradeRejected, Repair, Faithful
<1>2. CASE Install \/ RealUpgrade
  <2>1. live' = Upgraded(UpgradeCurrent, Render(stamp)) /\ chart' = chart /\ pc' = "idle"
    BY <1>2 DEF Install, RealUpgrade
  <2>2. UpgradeCurrent \in Manifest
    BY CurrentType DEF Shape
  <2>3. \A c \in Children : chart[c] # None => Declared(c)'
    BY <2>1, <2>2, UpgradedDeclared, Zenon DEF Declared, Wanted
  <2> QED BY <2>1, <2>3, Zenon DEF Faithful
<1>3. CASE RenderTarget
  BY <1>3 DEF RenderTarget, Faithful, Render, Stamp
<1>4. CASE Build
  BY <1>4 DEF Build, Faithful, Render, Stamp
<1>5. CASE \E c \in Children : GetLive(c)
  <2>1. PICK c \in Children : GetLive(c)
    BY <1>5
  <2>2. pc = "get" /\ pc' = "get" /\ target' = target /\ stamp' = stamp /\ chart' = chart
    BY <2>1 DEF GetLive
  <2>3. clean' = clean \/ clean' = FALSE
    BY <2>1 DEF GetLive
  <2>4. Render(stamp)' = Render(stamp)
    BY <2>2 DEF Render, Stamp
  <2> QED BY <2>2, <2>3, <2>4, Zenon DEF Faithful
<1>6. CASE Prepare
  BY <1>6, PrepareFaithful
<1>7. CASE \E c \in Children : Merge(c)
  BY <1>7, MergeFaithful
<1>8. CASE \E c \in Children : MergeUnmatched(c)
  BY <1>8, Zenon DEF MergeUnmatched, Faithful
<1>9. CASE MergeDone
  BY <1>9, Zenon DEF MergeDone, Obsolete, Faithful, Declared, Wanted
<1>10. CASE \E c \in Children : Prune(c)
  <2>1. PICK d \in Children : Prune(d)
    BY <1>10
  <2>2. \A c \in Children : c # d => live'[c] = live[c]
    BY <2>1 DEF Prune, Shape, TypeOK
  <2> QED BY <2>1, <2>2, Zenon DEF Prune, Faithful, Declared, Wanted
<1>11. CASE Decide
  BY <1>11, Zenon DEF Decide, Faithful, Declared, Wanted
<1>12. CASE UpgradeFails \/ Interrupted
  BY <1>12, Zenon DEF UpgradeFails, Interrupted, Faithful
<1>13. CASE Environment
  BY <1>13
  DEF Environment, Disturb, ChartChanges, LiveDeleted, LiveDrifts, VersionPruned, Faithful
<1>14. CASE UNCHANGED vars
  BY <1>14 DEF vars, Faithful, Declared, Wanted, Render, Stamp
<1> QED
  BY <1>1, <1>2, <1>3, <1>4, <1>5, <1>6, <1>7, <1>8, <1>9, <1>10, <1>11, <1>12, <1>13, <1>14
  DEF Next, Cycle

\* Self-healing, one cycle of it: an undisturbed Reconcile that returns without
\* error has made live what the chart declares, whether it found nothing to
\* change or wrote a revision.
THEOREM ReturnsConverged == Spec => []ConvergedOnReturn
<1>1. Init => Shape /\ Admitted /\ Faithful
  BY InitType DEF Init, Admitted, Faithful
<1>2. Shape /\ Admitted /\ Faithful /\ [Next]_vars => (Shape /\ Admitted /\ Faithful)'
  BY ShapeStep, AdmittedStep, FaithfulStep
<1>3. Faithful => ConvergedOnReturn
  BY Zenon DEF Faithful, ConvergedOnReturn
<1> QED BY <1>1, <1>2, <1>3, PTL DEF Spec

-----------------------------------------------------------------------------
(* No churn in the steady state *)

\* An undisturbed cycle that began in the steady state stays in it: the render
\* is what the release stores, the prepared targets are what is live.
Calm ==
  clean /\ steady =>
    /\ mutated = {} /\ pc \notin {"install", "upgrade"}
    /\ \A c \in written : chart[c].object.label # None
    /\ pc # "idle" => SteadyState /\ current = last
    /\ pc = "merge" =>
         \A c \in Children :
           target[c] # None => target[c].object.traceparent = live[c].traceparent
    /\ pc = "prune" => todo = {}

\* Two objects with the same fields are the same.
LEMMA ObjectsEqual ==
  ASSUME NEW x \in Object, NEW y \in Object,
         x.data = y.data, x.stringData = y.stringData, x.label = y.label,
         x.traceparent = y.traceparent, x.owner = y.owner
  PROVE  x = y
BY DEF Object

\* In the steady state the stored manifest lists what the chart renders.
LEMMA SteadyEntries ==
  ASSUME Shape, SteadyState, NEW c \in Children
  PROVE  /\ last \in Manifest /\ last # None /\ lastDeployed
         /\ last[c] = None <=> chart[c] = None
         /\ Mapped(c, last[c])
         /\ chart[c] # None =>
              /\ last[c].object \in Object /\ chart[c].object \in Object
              /\ last[c].object.data = chart[c].object.data
              /\ last[c].object.label = chart[c].object.label
              /\ live[c] \in Object /\ live[c] # None
              /\ Wanted(c).data # None => live[c].data = Wanted(c).data
              /\ c \in KrateoChildren \/ chart[c].object.traceparent # None
                   => live[c].traceparent # None
<1>1. last \in Manifest /\ last # None /\ lastDeployed
  BY Zenon DEF SteadyState, Shape, TypeOK, Optional
<1>2. SameEntry(last[c], chart[c])
  BY Zenon DEF SteadyState
<1>3. last[c] \in Optional(Entry) /\ chart[c] \in Optional(Entry)
  BY Zenon, <1>1, ConstantsAssumption DEF Shape, TypeOK, Manifest
<1>4. last[c] = None <=> chart[c] = None
  BY <1>2 DEF SameEntry
<1>5. CASE chart[c] = None
  BY <1>1, <1>4, <1>5, Zenon DEF Mapped
<1>6. CASE chart[c] # None
  <2>1. /\ last[c].object \in Object /\ chart[c].object \in Object
        /\ last[c].version = chart[c].version
    BY <1>2, <1>3, <1>4, <1>6 DEF Entry, Optional, SameEntry
  <2>2. [last[c].object EXCEPT !.traceparent = None]
          = [chart[c].object EXCEPT !.traceparent = None]
    BY <1>2, <1>6 DEF SameEntry
  <2>3. /\ last[c].object.data = chart[c].object.data
        /\ last[c].object.label = chart[c].object.label
    BY Zenon, <2>1, <2>2 DEF Object
  <2>4. /\ chart[c].version \in served[c] /\ Declared(c)
        /\ c \in KrateoChildren \/ chart[c].object.traceparent # None
             => live[c].traceparent # None
    BY Zenon, <1>6 DEF SteadyState
  <2>5. /\ live[c] # None /\ live[c] \in Object
        /\ Wanted(c).data # None => live[c].data = Wanted(c).data
    BY <2>4 DEF Declared, Wanted, Shape, TypeOK, Optional
  <2>6. Mapped(c, last[c])
    BY Zenon, <2>1, <2>4 DEF Mapped
  <2> QED BY Zenon, <1>1, <1>4, <1>6, <2>1, <2>3, <2>4, <2>5, <2>6
<1> QED BY <1>5, <1>6, Zenon

\* The merge stores what is live already, and helm sends a patch only for a
\* label that the server owns and the chart declares.
LEMMA SteadyMerge ==
  ASSUME Shape, Unowned, Admitted, Faithful, Calm, clean, steady,
         NEW c \in Children, Merge(c)
  PROVE  /\ StoredObject(c) = live[c] /\ live[c] # None
         /\ MergedObject(c) # live[c] => chart[c].object.label # None
<1> DEFINE t == target[c].object
           l == live[c]
           m == MergedObject(c)
<1>1. pc = "merge" /\ SteadyState /\ current = last
  BY Zenon DEF Merge, Calm
<1>2. /\ target[c] # None /\ chart[c] # None
      /\ t.stringData = None /\ t.data = Wanted(c).data /\ t.label = chart[c].object.label
      /\ t.traceparent = l.traceparent
  BY <1>1, Zenon DEF Merge, Shape, Targeted, Faithful, Calm
<1>3. /\ current[c] # None /\ current[c].object \in Object
      /\ current[c].object.data = chart[c].object.data
      /\ current[c].object.label = chart[c].object.label
      /\ l \in Object /\ l # None /\ chart[c].object \in Object
      /\ t.data # None => l.data = t.data
  BY <1>1, <1>2, SteadyEntries, Zenon
<1>4. current[c].object.owner = None /\ t.owner = None
  BY Zenon, <1>2, <1>3 DEF Unowned, UnownedManifest
<1>5. l.stringData = None /\ l.label = ServerValue
  BY Zenon, <1>3 DEF Admitted
<1>6. t \in Object
  BY <1>2, Zenon DEF Shape, TypeOK, Manifest, Entry, Optional
<1>7. t.data = None => current[c].object.data = None
  BY <1>2, <1>3, ConstantsAssumption DEF Wanted, normalizeSecretStringData, Object, Optional
<1>9. m \in Object
  BY <1>3, <1>6, MergedType, Zenon
<1>f. /\ m.data = MergeField(current[c].object.data, t.data, l.data)
      /\ m.stringData = MergeField(current[c].object.stringData, t.stringData, l.stringData)
      /\ m.label = MergeField(current[c].object.label, t.label, l.label)
      /\ m.traceparent = MergeField(current[c].object.traceparent, t.traceparent, l.traceparent)
      /\ m.owner = MergeField(current[c].object.owner, t.owner, l.owner)
  BY <1>3, MergedFields, Zenon
<1> HIDE DEF t, l, m
<1>10. /\ m.data = l.data /\ m.stringData = None /\ m.owner = l.owner
       /\ m.traceparent = l.traceparent
       /\ chart[c].object.label = None => m.label = l.label
  <2>1. m.data = l.data
    BY <1>3, <1>7, <1>f, Zenon DEF MergeField
  <2>2. m.stringData = None
    BY <1>2, <1>5, <1>f, Zenon DEF MergeField
  <2>3. m.owner = l.owner
    BY <1>4, <1>f, Zenon DEF MergeField
  <2>4. m.traceparent = l.traceparent
    BY <1>2, <1>f, Zenon DEF MergeField
  <2>5. chart[c].object.label = None => m.label = l.label
    BY <1>2, <1>3, <1>f, Zenon DEF MergeField
  <2> QED BY <2>1, <2>2, <2>3, <2>4, <2>5, Zenon
<1>11. chart[c].object.label = None => m = l
  BY <1>3, <1>5, <1>9, <1>10, ObjectsEqual, Zenon
<1>12. Admit(m) = l
  <2>1. /\ Admit(m).data = m.data /\ Admit(m).stringData = m.stringData
        /\ Admit(m).label = ServerValue /\ Admit(m).traceparent = m.traceparent
        /\ Admit(m).owner = m.owner
    BY <1>9, <1>10, AdmitFolded, Zenon
  <2>2. Admit(m) \in Object
    BY <1>9, AdmitType, Zenon
  <2>3. /\ Admit(m).data = l.data /\ Admit(m).stringData = l.stringData /\ Admit(m).label = l.label
        /\ Admit(m).traceparent = l.traceparent /\ Admit(m).owner = l.owner
    BY <1>5, <1>10, <2>1, Zenon
  <2> QED BY <1>3, <2>2, <2>3, ObjectsEqual, Zenon
<1>13. StoredObject(c) = l
  BY <1>12 DEF StoredObject, m, l
<1> QED BY Zenon, <1>3, <1>11, <1>13 DEF m, l

\* In the steady state every live target is stored already, so none is adopted,
\* and each takes over the traceparent that is live.
LEMMA PrepareCalm ==
  ASSUME Shape, Counted, Faithful, Calm, clean, steady, Prepare
  PROVE  /\ current' = current
         /\ \A c \in Children :
              target'[c] # None => target'[c].object.traceparent = live[c].traceparent
<1>1. pc = "get" /\ todo = {} /\ SteadyState /\ current = last
  BY DEF Prepare, Calm
<1>2. target = Render(stamp)
  BY <1>1 DEF Faithful
<1>3. stamp \in Stamps /\ TypeOK
  BY Zenon DEF Shape, TypeOK
<1>4. \A c \in Children : target[c] = None <=> chart[c] = None
  BY <1>2, <1>3, RenderFields, Zenon
<1>5. \A c \in Children : ~Adoptable(c)
  BY <1>1, <1>4, SteadyEntries, Zenon DEF Adoptable
<1>6. current' = [c \in Children |-> current[c]]
  BY <1>5 DEF Prepare
<1>7. current' = current
  BY <1>6 DEF Shape, TypeOK, Manifest
<1>8. ASSUME NEW c \in Children, target'[c] # None
      PROVE  target'[c].object.traceparent = live[c].traceparent
  <2>1. target'[c] = Prepared(c)
    BY DEF Prepare
  <2>2. target[c] # None /\ chart[c] # None
    BY <1>4, <1>8, <2>1 DEF Prepared
  <2>3. before[c] = live[c] /\ live[c] # None
    BY <1>1, <2>2, SteadyEntries, Zenon DEF Counted
  <2>4. Prepared(c).object.traceparent
          = IF live[c].traceparent # None THEN live[c].traceparent
            ELSE target[c].object.traceparent
    BY <1>2, <2>2, <2>3, PreparedFields, Zenon
  <2>5. live[c].traceparent = None =>
          c \notin KrateoChildren /\ chart[c].object.traceparent = None
    BY <1>1, <2>2, SteadyEntries, Zenon
  <2>6. target[c].object.traceparent # chart[c].object.traceparent => c \in KrateoChildren
    BY <1>2, <1>3, <2>2, RenderFields, Zenon
  <2> QED BY <2>1, <2>4, <2>5, <2>6, Zenon
<1> QED BY <1>7, <1>8

\* Every step of an undisturbed cycle keeps the steady state it began in.
LEMMA CalmStep ==
  Shape /\ Counted /\ Unowned /\ Admitted /\ Faithful /\ Calm /\ [Next]_vars => Calm'
<1> SUFFICES ASSUME Shape, Counted, Unowned, Admitted, Faithful, Calm, [Next]_vars,
                    clean', steady'
             PROVE  Calm'
  BY Zenon DEF Calm
<1> USE DEF cluster, store, locals, history, Return
<1>0. UNCHANGED <<chart, served, live, last, lastDeployed>> => SteadyState' = SteadyState
  BY DEF SteadyState, SameEntry, Declared, normalizeSecretStringData
<1>1. CASE Begin
  BY <1>0, <1>1, Zenon DEF Begin, Calm, SteadyState
<1>2. CASE Install \/ RealUpgrade \/ InstallRejected \/ UpgradeRejected \/ UpgradeFails
  BY <1>2, Zenon DEF Install, RealUpgrade, InstallRejected, UpgradeRejected, UpgradeFails, Calm
<1>3. CASE Repair
  <2>1. SteadyState /\ current = last /\ clean /\ steady
    BY <1>3, Zenon DEF Repair, Calm
  <2>2. ManifestOf(selectCurrentForBuild) = last
    BY <2>1, Zenon DEF SteadyState, selectCurrentForBuild, ManifestOf
  <2>3. Dropped(last) = {}
    BY <2>1, SteadyEntries DEF Dropped
  <2>4. UNCHANGED <<store, current>>
    BY <1>3, <2>2, <2>3 DEF Repair
  <2> QED BY <1>0, <1>3, <2>1, <2>4, Zenon DEF Repair, Calm
<1>4. CASE RenderTarget
  BY <1>0, <1>4, Zenon DEF RenderTarget, Calm
<1>5. CASE Build
  BY <1>0, <1>5, Zenon DEF Build, Calm
<1>6. CASE \E c \in Children : GetLive(c)
  <2>1. PICK c \in Children : GetLive(c)
    BY <1>6
  <2>2. /\ clean' = clean /\ pc = "get" /\ pc' = pc /\ steady' = steady
        /\ UNCHANGED <<cluster, store, current, mutated, written>>
    BY <2>1, Zenon DEF GetLive
  <2> QED BY <1>0, <2>2, Zenon DEF Calm
<1>7. CASE Prepare
  <2>1. /\ clean /\ steady /\ pc = "get" /\ pc' = "merge"
        /\ UNCHANGED <<cluster, store, mutated, written>>
    BY Zenon, <1>7 DEF Prepare
  <2>2. /\ current' = current
        /\ \A c \in Children :
             target'[c] # None => target'[c].object.traceparent = live[c].traceparent
    BY Zenon, <1>7, <2>1, PrepareCalm
  <2> QED BY <1>0, <2>1, <2>2, Zenon DEF Calm
<1>8. CASE \E c \in Children : Merge(c)
  <2>1. PICK c \in Children : Merge(c)
    BY <1>8
  <2>2. clean /\ steady /\ pc = "merge" /\ pc' = "merge"
    BY <2>1, Zenon DEF Merge
  <2>3. /\ StoredObject(c) = live[c] /\ live[c] # None
        /\ MergedObject(c) # live[c] => chart[c].object.label # None
    BY Zenon, <2>1, <2>2, SteadyMerge
  <2>4. live' = live
    BY <2>1, <2>3, Zenon DEF Merge, Shape, TypeOK
  <2>5. mutated' = mutated
    BY <2>1, <2>3, Zenon DEF Merge, MergeChanges, semanticallyChanged
  <2>6. UNCHANGED <<chart, served, last, lastDeployed, current, target>>
    BY Zenon, <2>1 DEF Merge
  <2>7. \A d \in written' : d \in written \/ (d = c /\ MergedObject(c) # live[c])
    BY Zenon, <2>1 DEF Merge
  <2> QED BY Zenon, <1>0, <2>2, <2>3, <2>4, <2>5, <2>6, <2>7 DEF Calm
<1>9. CASE \E c \in Children : MergeUnmatched(c)
  BY <1>9 DEF MergeUnmatched, Calm
<1>10. CASE MergeDone
  <2>1. clean /\ steady /\ pc = "merge" /\ SteadyState /\ current = last
    BY <1>10, Zenon DEF MergeDone, Calm
  <2>2. \A c \in Children : ~Obsolete(c)
    BY <2>1, SteadyEntries, Zenon DEF Obsolete, Faithful
  <2> QED BY <1>0, <1>10, <2>1, <2>2, Zenon DEF MergeDone, Calm
<1>11. CASE \E c \in Children : Prune(c)
  BY <1>11, Zenon DEF Prune, Calm
<1>12. CASE Decide
  <2>1. clean /\ steady /\ pc = "prune" /\ mutated = {}
    BY <1>12, Zenon DEF Decide, Calm
  <2>2. ~Changed
    BY <2>1, Zenon DEF Counted, Changed
  <2> QED BY <1>12, <2>1, <2>2, Zenon DEF Decide, Calm
<1>13. CASE Interrupted
  BY <1>13 DEF Interrupted, Calm
<1>14. CASE Environment
  BY <1>14 DEF Environment, Disturb, ChartChanges, LiveDeleted, LiveDrifts, VersionPruned
<1>15. CASE UNCHANGED vars
  BY <1>0, <1>15, Zenon DEF vars, Calm
<1> QED
  BY <1>1, <1>2, <1>3, <1>4, <1>5, <1>6, <1>7, <1>8, <1>9, <1>10, <1>11, <1>12, <1>13,
     <1>14, <1>15
  DEF Next, Cycle

\* The no-churn guarantee: an undisturbed cycle that begins in the steady state
\* changes no child and writes no revision, whatever charts, stamps and server
\* labels there are, and helm patches nothing but a label the server takes back.
THEOREM SteadyIsQuiet == Spec => []SteadyStateIsQuiet
<1> DEFINE I == Shape /\ Counted /\ Unowned /\ Admitted /\ Faithful /\ Calm
<1>1. Init => I
  BY InitType DEF Init, Counted, Unowned, UnownedManifest, EmptyManifest, Admitted,
    Faithful, Calm
<1>2. I /\ [Next]_vars => I'
  BY ShapeStep, CountedStep, UnownedStep, AdmittedStep, FaithfulStep, CalmStep
<1>3. I => SteadyStateIsQuiet
  BY DEF Calm, SteadyStateIsQuiet
<1> HIDE DEF I
<1> QED BY <1>1, <1>2, <1>3, PTL DEF Spec

-----------------------------------------------------------------------------
(* Nothing is left behind *)

\* A live child that helm owns, of a kind whose versions are all served still.
OwnedHere(c) == served[c] = Versions /\ Owned(live[c])

\* As long as nothing fails, the stored manifest lists what helm owns, and so
\* does the list that an undisturbed cycle prunes.
Listed ==
  faults = 0 =>
    /\ last # None => lastDeployed
    /\ \A c \in Children : OwnedHere(c) => last # None /\ last[c] # None
    /\ clean =>
         /\ pc \in {"repair", "render", "build", "get", "merge", "prune"} =>
              \A c \in Children : OwnedHere(c) => current[c] # None
         /\ pc = "prune" =>
              \A c \in Children : OwnedHere(c) /\ target[c] = None => c \in todo
         /\ pc = "idle" /\ outcome \in {"unchanged", "upgraded"} =>
              \A c \in Children : OwnedHere(c) => chart[c] # None

\* After helm's Upgrade, what helm owns is in the new revision.
LEMMA UpgradedListed ==
  ASSUME Shape, Listed, faults = 0, NEW c \in Children,
         served[c] = Versions, Owned(Upgraded(UpgradeCurrent, Render(stamp))[c])
  PROVE  Render(stamp)[c] # None /\ chart[c] # None
<1>1. Render(stamp)[c] = None <=> chart[c] = None
  BY RenderFields, Zenon DEF Shape, TypeOK
<1>2. SUFFICES ASSUME Render(stamp)[c] = None PROVE FALSE
  BY <1>1
<1>3. UpgradeCurrent[c] = None /\ Owned(live[c])
  BY <1>2 DEF Upgraded, Owned
<1>4. last # None /\ last[c] # None /\ lastDeployed
  BY <1>3, Zenon DEF Listed, OwnedHere
<1> QED BY <1>3, <1>4 DEF UpgradeCurrent

\* A merge makes no child helm's.
LEMMA MergeOwnsNothing ==
  ASSUME Shape, Unowned, NEW c \in Children, Merge(c), Owned(StoredObject(c))
  PROVE  Owned(live[c])
<1>1. CASE live[c] # None
  BY <1>1, MergeKeepsOwner DEF Owned
<1>2. CASE live[c] = None
  <2>1. target[c] # None /\ target[c].object.owner = None
    BY Zenon DEF Merge, Shape, Targeted, Unowned, UnownedManifest
  <2>2. target[c].object \in Object /\ target[c].object # None
    BY <2>1, ConstantsAssumption, Zenon DEF Shape, TypeOK, Manifest, Entry, Optional
  <2>3. StoredObject(c) = Admit(target[c].object)
    BY <1>2, <2>2, Zenon DEF StoredObject, MergedObject
  <2>4. StoredObject(c).owner = None
    BY <2>1, <2>2, <2>3, AdmitOwner
  <2> QED BY <2>4, ConstantsAssumption, Zenon DEF Owned
<1> QED BY <1>1, <1>2

\* The repair keeps the entries of the kinds whose versions are all served.
LEMMA RepairListed ==
  ASSUME Shape, Listed, Repair
  PROVE  Listed'
<1> SUFFICES ASSUME faults' = 0
             PROVE  /\ last' # None => lastDeployed'
                    /\ \A c \in Children : OwnedHere(c)' => last' # None /\ last'[c] # None
                    /\ clean' => \A c \in Children : OwnedHere(c)' => current'[c] # None
  BY Zenon DEF Repair, Listed
<1> USE DEF cluster, store, history
<1>1. faults = 0 /\ pc = "repair" /\ last # None /\ lastDeployed
  BY Zenon DEF Repair, Listed, Shape, Stored
<1>2. UNCHANGED <<served, live, lastDeployed, clean>>
  BY DEF Repair
<1>3. ManifestOf(selectCurrentForBuild) = last /\ selectCurrentForBuild = "last"
  BY <1>1 DEF selectCurrentForBuild, ManifestOf
<1>4. last \in Manifest
  BY Zenon, <1>1 DEF Shape, TypeOK, Optional
<1>5. CASE Dropped(last) = {}
  <2>1. last' = last /\ current' = current
    BY <1>3, <1>5 DEF Repair
  <2> QED BY <1>1, <1>2, <2>1 DEF Listed, OwnedHere, Owned
<1>6. CASE Dropped(last) # {}
  <2> DEFINE fix == filterUnmappableManifestDocs(last)
  <2>1. last' = fix /\ current' = fix
    BY <1>3, <1>6 DEF Repair
  <2>2. fix # None
    BY <1>4, FilterType, ConstantsAssumption
  <2>3. ASSUME NEW c \in Children, OwnedHere(c) PROVE fix[c] # None
    <3>1. last[c] # None /\ last[c] \in Entry
      BY <1>1, <1>4, <2>3 DEF Listed, Manifest, Optional
    <3>2. Mapped(c, last[c])
      BY <2>3, <3>1 DEF Mapped, OwnedHere, Entry
    <3> QED BY <3>1, <3>2 DEF filterUnmappableManifestDocs
  <2> HIDE DEF fix
  <2> QED BY <1>1, <1>2, <2>1, <2>2, <2>3, Zenon DEF OwnedHere, Owned
<1> QED BY <1>5, <1>6, Zenon

\* Every step keeps the account of what helm owns.
LEMMA ListedStep ==
  Shape /\ Unowned /\ Faithful /\ Listed /\ [Next]_vars => Listed'
<1> SUFFICES ASSUME Shape, Unowned, Faithful, Listed, [Next]_vars, faults' = 0
             PROVE  Listed'
  BY Zenon DEF Listed
<1> USE DEF cluster, store, locals, history, Return
<1>0. faults \in Nat
  BY ConstantsAssumption DEF Shape, TypeOK
<1>z. faults' = 0 /\ faults' # faults + 1
  BY <1>0
<1>1. CASE Begin
  BY Zenon, <1>1 DEF Begin, Listed, OwnedHere, Owned
<1>2. CASE Install \/ RealUpgrade
  <2>1. /\ live' = Upgraded(UpgradeCurrent, Render(stamp)) /\ chart' = chart
        /\ served' = served /\ last' = Render(stamp) /\ lastDeployed' = TRUE
        /\ pc' = "idle" /\ faults = 0
    BY <1>2 DEF Install, RealUpgrade, RecordDeployed
  <2>2. last' # None
    BY Zenon, <2>1, RenderedStoreType, ConstantsAssumption DEF Shape
  <2>3. \A c \in Children : OwnedHere(c)' => last'[c] # None /\ chart'[c] # None
    BY Zenon, <2>1, UpgradedListed DEF OwnedHere, Owned
  <2> QED BY <2>1, <2>2, <2>3, Zenon DEF Listed
<1>3. CASE InstallRejected \/ UpgradeRejected
  BY Zenon, <1>3 DEF InstallRejected, UpgradeRejected, Listed, OwnedHere, Owned
<1>4. CASE Repair
  BY <1>4, RepairListed
<1>5. CASE RenderTarget \/ Build
  BY <1>5, Zenon DEF RenderTarget, Build, Listed, OwnedHere, Owned
<1>6. CASE \E c \in Children : GetLive(c)
  <2>1. PICK c \in Children : GetLive(c)
    BY <1>6
  <2>2. UNCHANGED <<cluster, store, pc, current>> /\ pc = "get"
    BY <2>1, Zenon DEF GetLive
  <2>4. (faults' = faults /\ clean' = clean) \/ (faults' = faults + 1)
    BY <2>1, Zenon DEF GetLive
  <2>3. faults = 0 /\ clean' = clean
    BY <1>z, <2>4, Zenon
  <2> QED BY Zenon, <2>2, <2>3 DEF Listed, OwnedHere, Owned
<1>7. CASE Prepare
  <2>1. /\ UNCHANGED <<cluster, store, clean, faults>> /\ pc = "get" /\ pc' = "merge"
    BY <1>7 DEF Prepare
  <2>2. \A c \in Children : current[c] # None => current'[c] # None
    BY Zenon, <1>7 DEF Prepare, Adoptable
  <2> QED BY Zenon, <2>1, <2>2 DEF Listed, OwnedHere, Owned
<1>8. CASE \E c \in Children : Merge(c)
  <2>1. PICK d \in Children : Merge(d)
    BY <1>8
  <2>2. UNCHANGED <<served, store, current, clean, faults, pc>> /\ pc = "merge"
    BY Zenon, <2>1 DEF Merge
  <2>3. \A c \in Children : live'[c] = IF c = d THEN StoredObject(d) ELSE live[c]
    BY <2>1 DEF Merge, Shape, TypeOK
  <2>4. \A c \in Children : OwnedHere(c)' => OwnedHere(c)
    BY <2>1, <2>2, <2>3, MergeOwnsNothing, Zenon DEF OwnedHere, Owned
  <2> QED BY Zenon, <2>2, <2>4 DEF Listed
<1>9. CASE \E c \in Children : MergeUnmatched(c)
  <2>1. pc' = "idle" /\ outcome' = "error" /\ UNCHANGED <<live, served, last, lastDeployed, faults>>
    BY <1>9, Zenon DEF MergeUnmatched
  <2>2. /\ pc' \notin {"repair", "render", "build", "get", "merge", "prune"} /\ pc' # "prune"
        /\ outcome' \notin {"unchanged", "upgraded"}
    BY <2>1
  <2> QED BY <2>1, <2>2, Zenon DEF Listed, OwnedHere, Owned
<1>10. CASE MergeDone
  <2>1. /\ UNCHANGED <<cluster, store, current, target, clean, faults>>
        /\ pc = "merge" /\ pc' = "prune" /\ todo' = {c \in Children : Obsolete(c)}
    BY Zenon, <1>10 DEF MergeDone
  <2> QED BY <2>1, Zenon DEF Obsolete, Listed, OwnedHere, Owned
<1>11. CASE \E c \in Children : Prune(c)
  <2>1. PICK d \in Children : Prune(d)
    BY <1>11
  <2>2. /\ UNCHANGED <<served, store, current, target, clean, faults, pc>> /\ pc = "prune"
        /\ todo' = todo \ {d}
    BY Zenon, <2>1 DEF Prune
  <2>3. \A c \in Children : live'[c] = IF c = d THEN None ELSE live[c]
    BY <2>1 DEF Prune, Shape, TypeOK
  <2>4. \A c \in Children : OwnedHere(c)' => OwnedHere(c) /\ c # d
    BY <2>2, <2>3 DEF OwnedHere, Owned
  <2> QED BY Zenon, <2>2, <2>4 DEF Listed
<1>12. CASE Decide
  <2>1. UNCHANGED <<cluster, store, locals, faults, clean>> /\ pc = "prune" /\ todo = {}
    BY <1>12 DEF Decide
  <2>2. clean => \A c \in Children : target[c] = None <=> chart[c] = None
    BY <2>1, Zenon DEF Faithful
  <2>3. pc' = "upgrade" \/ pc' = "idle"
    BY <1>12 DEF Decide
  <2> QED BY <2>1, <2>2, <2>3, Zenon DEF Listed, OwnedHere, Owned
<1>13. CASE UpgradeFails \/ Interrupted
  BY <1>z, Zenon, <1>13 DEF UpgradeFails, Interrupted
<1>14. CASE Environment
  <2>1. ~clean' /\ UNCHANGED <<last, lastDeployed, faults>>
    BY <1>14
    DEF Environment, Disturb, ChartChanges, LiveDeleted, LiveDrifts, VersionPruned
  <2>2. \A c \in Children : OwnedHere(c)' => OwnedHere(c)
    <3>1. CASE ChartChanges
      BY <3>1 DEF ChartChanges, OwnedHere, Owned
    <3>2. CASE \E d \in Children : LiveDeleted(d)
      BY <3>2 DEF LiveDeleted, OwnedHere, Owned, Shape, TypeOK
    <3>3. CASE \E d \in Children : LiveDrifts(d)
      <4>1. PICK d \in Children : LiveDrifts(d)
        BY <3>3
      <4>2. PICK v \in Values : live' = [live EXCEPT ![d].data = v]
        BY Zenon, <4>1 DEF LiveDrifts
      <4>3. live[d] # None /\ live[d] \in Object /\ served' = served
        BY <4>1 DEF LiveDrifts, Shape, TypeOK, Optional
      <4>4. [live[d] EXCEPT !.data = v].owner = live[d].owner
        BY <4>3 DEF Object
      <4>5. \A c \in Children : live'[c] = IF c = d THEN [live[d] EXCEPT !.data = v] ELSE live[c]
        BY SMTT(60), <4>2 DEF Shape, TypeOK
      <4> QED BY Zenon, <4>3, <4>4, <4>5 DEF OwnedHere, Owned
    <3>4. CASE \E d \in Children : VersionPruned(d)
      <4>1. PICK d \in Children : VersionPruned(d)
        BY <3>4
      <4>2. PICK v \in served[d] : served' = [served EXCEPT ![d] = served[d] \ {v}]
        BY Zenon, <4>1 DEF VersionPruned
      <4>3. live' = live
        BY <4>1 DEF VersionPruned
      <4>4. \A c \in Children : served'[c] = Versions => served[c] = Versions
        BY <4>2 DEF Shape, TypeOK
      <4> QED BY <4>3, <4>4 DEF OwnedHere, Owned
    <3> QED BY <1>14, <3>1, <3>2, <3>3, <3>4 DEF Environment
  <2> QED BY <2>1, <2>2 DEF Listed
<1>15. CASE UNCHANGED vars
  BY <1>15, Zenon DEF vars, Listed, OwnedHere, Owned
<1> QED
  BY <1>1, <1>2, <1>3, <1>4, <1>5, <1>6, <1>7, <1>8, <1>9, <1>10, <1>11, <1>12, <1>13,
     <1>14, <1>15
  DEF Next, Cycle

\* As long as no call fails, an undisturbed Reconcile that returns without error
\* leaves no child behind that helm owns and the chart no longer renders, of a
\* kind none of whose versions was pruned.
THEOREM LeavesNothingBehind == Spec => []NothingLeftBehind
<1> DEFINE I == Shape /\ Unowned /\ Admitted /\ Faithful /\ Listed
<1>1. Init => I
  BY InitType, Zenon DEF Init, Unowned, UnownedManifest, EmptyManifest, Admitted, Faithful,
    Listed, OwnedHere, Owned
<1>2. I /\ [Next]_vars => I'
  BY ShapeStep, UnownedStep, AdmittedStep, FaithfulStep, ListedStep
<1>3. I => NothingLeftBehind
  BY Zenon DEF Listed, OwnedHere, Owned, NothingLeftBehind
<1> HIDE DEF I
<1> QED BY <1>1, <1>2, <1>3, PTL DEF Spec
=============================================================================
