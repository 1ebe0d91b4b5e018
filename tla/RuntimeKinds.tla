---------------------------- MODULE RuntimeKinds -----------------------------
(* Kinds that are not known before a CRD is installed: plurals.Get finds the *)
(* names of one kind by discovery and caches them, and a dynamicwatch         *)
(* Registry watches it. Goroutines do one or the other.                       *)
EXTENDS Naturals, FiniteSets

CONSTANTS
  Lookers,     \* goroutines
  PluralNames, \* plural names the kind may have
  NamesTTL,    \* 48 hours, in units of the clock
  MaxInstalls  \* bound on changes of the CRD

ASSUME NamesTTLAssumption == NamesTTL \in Nat \ {0}

VARIABLES
  crd,      \* discovery: the plural name, or one of the two below
  installs,
  cached,   \* the entry of the kind: [names, left], left = 0 when there is none
  looker,   \* the goroutines: [pc, names]
  regLock, watched,
  watches   \* sources that the controller was given

kindVars == <<crd, installs, cached, looker, regLock, watched, watches>>

NoGroup == "no group"  \* discovery fails: no kind of the group version is served
NoNames == "no names"  \* an empty Info: the group version is served without this kind

Idler == [pc |-> "idle", names |-> NoNames]
Unlocked == "unlocked"

ASSUME LookersAssumption == Unlocked \notin Lookers

KindsInit ==
  /\ crd = NoGroup /\ installs = 0
  /\ cached = [names |-> NoNames, left |-> 0]
  /\ looker = [c \in Lookers |-> Idler]
  /\ regLock = Unlocked /\ watched = FALSE /\ watches = 0

\* The CRD is created or deleted; so may be others of its group version.
CrdChanges ==
  /\ installs < MaxInstalls /\ installs' = installs + 1
  /\ crd' \in (PluralNames \cup {NoGroup, NoNames}) \ {crd}
  /\ UNCHANGED <<cached, looker, regLock, watched, watches>>

TimePasses ==
  /\ cached' = [cached EXCEPT !.left = IF @ = 0 THEN 0 ELSE @ - 1]
  /\ UNCHANGED <<crd, installs, looker, regLock, watched, watches>>

Enter(c, pc, names) == looker' = [looker EXCEPT ![c] = [pc |-> pc, names |-> names]]

-----------------------------------------------------------------------------
(* plurals.Get *)

\* Mutant: a hit renews the entry.
LookupRenewing(c) ==
  /\ looker[c].pc = "idle"
  /\ IF cached.left > 0 THEN cached' = [cached EXCEPT !.left = NamesTTL] /\ UNCHANGED looker
     ELSE Enter(c, "resolve", NoNames) /\ UNCHANGED cached
  /\ UNCHANGED <<crd, installs, regLock, watched, watches>>

\* A hit is answered at once: empty names with NotFound.
Lookup(c) ==
  /\ looker[c].pc = "idle"
  /\ IF cached.left > 0 THEN UNCHANGED looker ELSE Enter(c, "resolve", NoNames)
  /\ UNCHANGED <<crd, installs, cached, regLock, watched, watches>>

\* An error of discovery is returned, and not cached.
ResolveAPINames(c) ==
  /\ looker[c].pc = "resolve"
  /\ \/ crd # NoGroup /\ Enter(c, "set", crd)
     \/ Enter(c, "idle", NoNames)
  /\ UNCHANGED <<crd, installs, cached, regLock, watched, watches>>

SetNames(c) ==
  /\ looker[c].pc = "set"
  /\ cached' = [names |-> looker[c].names, left |-> NamesTTL]
  /\ Enter(c, "idle", NoNames)
  /\ UNCHANGED <<crd, installs, regLock, watched, watches>>

-----------------------------------------------------------------------------
(* dynamicwatch.Registry *)

\* Mutant: the lock is given back before Watch is called.
EnsureWatchUnlocked(c) ==
  /\ looker[c].pc = "idle" /\ regLock = Unlocked
  /\ IF watched THEN UNCHANGED looker ELSE Enter(c, "watch", NoNames)
  /\ UNCHANGED <<crd, installs, cached, regLock, watched, watches>>

EnsureWatch(c) ==
  /\ looker[c].pc = "idle" /\ regLock = Unlocked
  /\ IF watched THEN UNCHANGED <<looker, regLock>> ELSE Enter(c, "watch", NoNames) /\ regLock' = c
  /\ UNCHANGED <<crd, installs, cached, watched, watches>>

\* Watch fails on a kind that cannot be discovered, or for another reason.
Watch(c) ==
  /\ looker[c].pc = "watch" /\ Enter(c, "idle", NoNames)
  /\ regLock' = Unlocked
  /\ \/ crd \in PluralNames /\ watches' = watches + 1 /\ watched' = TRUE
     \/ UNCHANGED <<watched, watches>>
  /\ UNCHANGED <<crd, installs, cached>>

KindsNext ==
  \/ CrdChanges \/ TimePasses
  \/ \E c \in Lookers : Lookup(c) \/ ResolveAPINames(c) \/ SetNames(c) \/ EnsureWatch(c) \/ Watch(c)

KindsSpec == KindsInit /\ [][KindsNext]_kindVars

-----------------------------------------------------------------------------
(* Names that were read before the CRD changed may overwrite newer ones, and  *)
(* an empty answer is cached like any other, so a kind may be reported as not *)
(* found for 48 hours after it is served; but no longer: once its CRD stays   *)
(* as it is, only what discovery says of it is served from the cache          *)
(* (plurals.go:47-57).                                                        *)
NamesFollow == <>[](cached.left > 0 => cached.names = crd)

(* However many reconciles call EnsureWatch at once, and however often Watch  *)
(* has failed before, a kind is watched at most once, and it counts as        *)
(* watched exactly if it is ("WITHOUT marking gvk as watched",                *)
(* dynamicwatch.go:40-42).                                                    *)
WatchedOnce == watches <= 1 /\ (watched <=> watches = 1)
=============================================================================
