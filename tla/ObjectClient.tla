---------------------------- MODULE ObjectClient -----------------------------
(***************************************************************************)
(* kubeutil/objectclient: Apply and Uninstall read one object and then      *)
(* write it, several times if need be, while others write and delete it.    *)
(* The API server is external: it accepts an update only of the version     *)
(* named, and a create only without a resourceVersion. A request may fail   *)
(* before or after it has taken effect.                                     *)
(***************************************************************************)
EXTENDS Naturals, FiniteSets

CONSTANTS
  Appliers,       \* goroutines
  retryAttempts,
  MaxVersion      \* bound on the writes to the object

ASSUME ObjectAssumption == retryAttempts \in Nat \ {0} /\ MaxVersion \in Nat

VARIABLES
  stored,   \* API server: the resourceVersion of the object, 0 when there is none
  version,  \* API server: the last resourceVersion given out
  apply     \* the calls, with what happened to the object during each

objectVars == <<stored, version, apply>>

NotFound == 0

Quiet ==
  [pc |-> "idle", op |-> "apply", obj |-> 0, attempt |-> 0, canceled |-> FALSE,
   mine |-> {}, rivals |-> 0, gone |-> FALSE, fault |-> FALSE]

ObjectTypeOK ==
  /\ stored \in 0..version /\ version \in 0..MaxVersion
  /\ \A c \in Appliers :
       /\ apply[c].pc \in {"idle", "get", "create", "update", "delete", "failed", "ok", "error"}
       /\ apply[c].attempt \in 0..retryAttempts /\ apply[c].obj \in 0..version
       /\ apply[c].pc \in {"ok", "error", "idle"} \/ apply[c].attempt > 0

ObjectInit == stored \in {0, 1} /\ version = stored /\ apply = [c \in Appliers |-> Quiet]

\* The histories of the calls under way when the object changes, but for its writers.
Noticed(writers, now) ==
  [d \in Appliers |->
     IF d \in writers \/ apply[d].pc = "idle" THEN apply[d]
     ELSE [apply[d] EXCEPT !.rivals = IF @ < retryAttempts THEN @ + 1 ELSE @, !.gone = @ \/ now = NotFound]]

Call(c, op) ==
  /\ apply[c].pc = "idle"
  /\ apply' = [apply EXCEPT ![c] =
       [Quiet EXCEPT !.pc = "get", !.op = op, !.attempt = 1, !.gone = stored = NotFound]]
  /\ UNCHANGED <<stored, version>>

Get(c) ==
  /\ apply[c].pc = "get"
  /\ apply' = [apply EXCEPT ![c] =
       IF apply[c].op = "apply"
       THEN IF stored = NotFound THEN [@ EXCEPT !.pc = "create"] ELSE [@ EXCEPT !.pc = "update", !.obj = stored]
       ELSE [@ EXCEPT !.pc = IF stored = NotFound THEN "ok" ELSE "delete"]]
  /\ UNCHANGED <<stored, version>>

\* The API server does what c asks for; the answer arrives or is lost.
Written(c) ==
  /\ version < MaxVersion /\ version' = version + 1 /\ stored' = version + 1
  /\ apply' = [Noticed({c}, version + 1) EXCEPT ![c] = [@ EXCEPT !.pc = "ok", !.obj = version + 1, !.mine = apply[c].mine \cup {version + 1}]]

WrittenUnheard(c) ==
  /\ version < MaxVersion /\ version' = version + 1 /\ stored' = version + 1
  /\ apply' = [Noticed({c}, version + 1) EXCEPT ![c] =
       [@ EXCEPT !.pc = "failed", !.mine = apply[c].mine \cup {version + 1}, !.fault = TRUE]]

Refused(c) == apply' = [apply EXCEPT ![c].pc = "failed"] /\ UNCHANGED <<stored, version>>

Create(c) ==
  /\ apply[c].pc = "create"
  /\ IF stored = NotFound /\ apply[c].obj = 0 THEN Written(c) \/ WrittenUnheard(c) ELSE Refused(c)

Update(c) ==
  /\ apply[c].pc = "update"
  /\ IF stored # NotFound /\ apply[c].obj = stored THEN Written(c) \/ WrittenUnheard(c) ELSE Refused(c)

\* A missing object is a success: Delete's NotFound included.
Delete(c) ==
  /\ apply[c].pc = "delete"
  /\ \/ apply' = [Noticed({c}, NotFound) EXCEPT ![c] = [@ EXCEPT !.pc = "ok", !.gone = TRUE]]
     \/ apply' = [Noticed({c}, NotFound) EXCEPT ![c] = [@ EXCEPT !.pc = "failed", !.gone = TRUE, !.fault = TRUE]]
  /\ stored' = NotFound /\ UNCHANGED version

\* The request fails before it has any effect.
Fault(c) ==
  /\ apply[c].pc \in {"get", "create", "update", "delete"}
  /\ apply' = [apply EXCEPT ![c].pc = "failed", ![c].fault = TRUE]
  /\ UNCHANGED <<stored, version>>

\* Mutant: the next attempt writes again without reading.
retryWrite(c) ==
  /\ apply[c].pc = "failed"
  /\ apply' = [apply EXCEPT ![c] =
       IF apply[c].attempt = retryAttempts THEN [@ EXCEPT !.pc = "error"]
       ELSE [@ EXCEPT !.pc = IF apply[c].obj = 0 THEN "get" ELSE "update", !.attempt = apply[c].attempt + 1]]
  /\ UNCHANGED <<stored, version>>

\* After an error: the end, or a wait and the whole operation once more.
retry(c) ==
  /\ apply[c].pc = "failed"
  /\ apply' = [apply EXCEPT ![c] =
       IF apply[c].attempt = retryAttempts THEN [@ EXCEPT !.pc = "error"]
       ELSE [@ EXCEPT !.pc = "get", !.attempt = apply[c].attempt + 1]]
  /\ UNCHANGED <<stored, version>>

\* The context is done: the wait before the next attempt ends the call.
Canceled(c) ==
  /\ apply[c].pc = "failed"
  /\ apply' = [apply EXCEPT ![c].pc = "error", ![c].canceled = TRUE]
  /\ UNCHANGED <<stored, version>>

ObjectReturn(c) ==
  /\ apply[c].pc \in {"ok", "error"}
  /\ apply' = [apply EXCEPT ![c] = Quiet]
  /\ UNCHANGED <<stored, version>>

\* Somebody else writes or deletes the object.
Rival ==
  \/ /\ version < MaxVersion /\ version' = version + 1 /\ stored' = version + 1
     /\ apply' = Noticed({}, version + 1)
  \/ /\ stored # NotFound /\ stored' = NotFound /\ UNCHANGED version
     /\ apply' = Noticed({}, NotFound)

ObjectNext ==
  \/ \E c \in Appliers :
       \/ \E op \in {"apply", "uninstall"} : Call(c, op)
       \/ Get(c) \/ Create(c) \/ Update(c) \/ Delete(c) \/ Fault(c) \/ retry(c) \/ Canceled(c) \/ ObjectReturn(c)
  \/ Rival

-----------------------------------------------------------------------------
(* Success is true: after Apply, obj carries the version that this call     *)
(* itself wrote; after Uninstall, the object was missing at some time       *)
(* during the call (objectclient.go:56-58, 105-106). And Apply gives up     *)
(* only when it is cancelled, when a request failed, when others changed    *)
(* the object in every attempt, or when the object was missing at some time *)
(* during the call: fewer changes by others do not defeat it                *)
(* (objectclient.go:52-54, 141-165).                                        *)
ApplyIsTrue == \A c \in Appliers :
  /\ apply[c].pc = "ok" =>
       IF apply[c].op = "apply" THEN apply[c].obj \in apply[c].mine ELSE apply[c].gone
  /\ apply[c].pc = "error" =>
       \/ apply[c].canceled \/ apply[c].fault
       \/ apply[c].rivals >= retryAttempts \/ apply[c].gone
=============================================================================
