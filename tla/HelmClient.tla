----------------------------- MODULE HelmClient ------------------------------
(***************************************************************************)
(* The helm/v3 client: Install and Upgrade map the kinds of a rendered     *)
(* chart through a REST mapper shared by every call, the CRD informer      *)
(* resets that mapper, and Install retries once on a kind it cannot map.   *)
(* The API server, discovery and the Helm SDK are external; the informer's *)
(* watch is assumed not to break (it loses and merges no event).           *)
(***************************************************************************)
EXTENDS Naturals, Sequences, FiniteSets

CONSTANTS
  Kinds,      \* group/version/kinds of custom resources
  Callers,    \* goroutines that share one client
  Charts,     \* what they install, with the DependencyUpdate option
  MaxChanges  \* bound on the changes of custom resource definitions

ASSUME ClientAssumption ==
  /\ MaxChanges \in Nat
  /\ \A h \in Charts : /\ h.kinds \subseteq Kinds
                       /\ {h.duplicate, h.application, h.complete, h.update} \subseteq BOOLEAN

VARIABLES
  defined, served, changes,  \* API server: kinds of CRDs, kinds in discovery, changes so far
  events,                    \* CRD events the informer has not handled yet
  informer,                  \* the informer's context is alive
  cached,                    \* the client has CachedClients (WithCRDInformer)
  memory, delegate,          \* the cached discovery client and the mapper built on it
  call                       \* the calls in progress

serverVars == <<defined, served, changes>>
mapperVars == <<memory, delegate>>
vars == <<serverVars, events, informer, cached, mapperVars, call>>

\* A cache that holds nothing: an invalidated discovery client, a mapper without a delegate.
Unfilled == [filled |-> FALSE, kinds |-> {}]

Filled(kinds) == [filled |-> TRUE, kinds |-> kinds]

NoChart == [kinds |-> {}, duplicate |-> FALSE, application |-> TRUE, complete |-> TRUE, update |-> FALSE]

\* pc follows one call; todo: the kinds the build in progress has still to map;
\* gap: since the last Reset of this call some kind of its chart was not served.
Idle == [pc |-> "idle", op |-> "Install", chart |-> NoChart,
         attempt |-> 1, todo |-> {}, gap |-> FALSE, result |-> "none"]

TypeOK ==
  /\ defined \subseteq Kinds /\ served \subseteq defined /\ changes \in 0..MaxChanges
  /\ events \in Seq({"add", "spec", "status", "delete"})
  /\ {informer, cached} \subseteq BOOLEAN
  /\ {memory, delegate} \subseteq [filled : BOOLEAN, kinds : SUBSET Kinds]
  /\ call \in [Callers -> [pc : {"idle", "load", "render", "validate", "build", "failed"},
                           op : {"Install", "Upgrade"}, chart : Charts \cup {NoChart},
                           attempt : 1..2, todo : SUBSET Kinds, gap : BOOLEAN,
                           result : {"none", "ok", "noMatch", "unretried", "load", "duplicate", "notFound"}]]

\* WithCRDInformer brings both the shared mapper and the informer.
InitClient ==
  /\ cached \in BOOLEAN /\ informer = cached
  /\ events = <<>> /\ memory = Unfilled /\ delegate = Unfilled

Init ==
  /\ defined \in SUBSET Kinds /\ served = defined /\ changes = 0
  /\ InitClient
  /\ call = [c \in Callers |-> Idle]

-----------------------------------------------------------------------------
(* The API server: the versions its CRDs define, and those discovery serves.*)

\* What a change of the served kinds does to the calls that watch for a gap.
Witnessed ==
  [c \in Callers |-> IF call[c].pc = "idle" THEN call[c]
                     ELSE [call[c] EXCEPT !.gap = @ \/ ~(call[c].chart.kinds \subseteq served')]]

Changed(event) ==
  /\ changes < MaxChanges
  /\ changes' = changes + 1
  /\ events' = IF informer THEN Append(events, event) ELSE events
  /\ call' = Witnessed
  /\ UNCHANGED <<informer, cached, mapperVars>>

\* A CRD is created, or a version is added to the spec of one.
Define(k) ==
  /\ k \notin defined
  /\ defined' = defined \cup {k} /\ served' = served
  /\ Changed("add") \/ Changed("spec")

\* Discovery begins to serve the kind; the informer sees a change of the status.
Establish(k) ==
  /\ k \in defined \ served
  /\ defined' = defined /\ served' = served \cup {k}
  /\ Changed("status")

\* A CRD is deleted, or a version is removed from the spec of one.
Withdraw(k) ==
  /\ k \in defined
  /\ defined' = defined \ {k} /\ served' = served \ {k}
  /\ Changed("delete") \/ Changed("spec")

-----------------------------------------------------------------------------
(* The cached discovery client and the deferred mapper of client-go.        *)

\* Mutant: only the discovery client is invalidated.
InvalidateOnly == memory' = Unfilled /\ UNCHANGED delegate

Reset == memory' = Unfilled /\ delegate' = Unfilled

\* The discovery client after a read, the mapper after its delegate is built.
Read == IF memory.filled THEN memory ELSE Filled(served)
Built == IF delegate.filled THEN delegate ELSE Filled(Read.kinds)

\* RESTMapping(k): a miss is tried again after a Reset, unless discovery is fresh.
Refresh(k) == k \notin Built.kinds /\ delegate.filled /\ ~memory.filled
Hit(k) == IF Refresh(k) THEN k \in served ELSE k \in Built.kinds
Mapping(k) ==
  IF Refresh(k) THEN memory' = Filled(served) /\ delegate' = Filled(served)
  ELSE memory' = (IF delegate.filled THEN memory ELSE Read) /\ delegate' = Built

-----------------------------------------------------------------------------
(* The CRD informer.                                                        *)

\* AddFunc, UpdateFunc and DeleteFunc: an update counts only when the spec changed.
Handled(event) == IF event \in {"add", "spec", "delete"} THEN Reset ELSE UNCHANGED mapperVars

Deliver ==
  /\ informer /\ events # <<>>
  /\ Handled(Head(events))
  /\ events' = Tail(events)
  /\ UNCHANGED <<serverVars, informer, cached, call>>

\* Close cancels the informer's context; what it has not handled is lost.
Close ==
  /\ informer
  /\ informer' = FALSE /\ events' = <<>>
  /\ UNCHANGED <<serverVars, cached, mapperVars, call>>

-----------------------------------------------------------------------------
(* Install and Upgrade.                                                     *)

Failed(c, err) == call' = [call EXCEPT ![c].pc = "failed", ![c].todo = {}, ![c].result = err]

Return(c, result) ==
  call' = [call EXCEPT ![c] = [Idle EXCEPT !.op = call[c].op, !.result = result,
                                           !.gap = call[c].gap /\ result = "noMatch"]]

Begin(c, op, h) ==
  /\ call[c].pc = "idle"
  /\ call' = [call EXCEPT ![c] = [Idle EXCEPT !.pc = "load", !.op = op, !.chart = h,
                                              !.gap = ~(h.kinds \subseteq served)]]
  /\ UNCHANGED <<serverVars, events, informer, cached, mapperVars>>

Install(c, h) == Begin(c, "Install", h)

Upgrade(c, h) == Begin(c, "Upgrade", h)

checkChartType(h) == h.application

\* A chart with missing dependencies is only loaded once more when an update is asked for.
checkDependencies(h) == h.complete \/ h.update

\* newActionConfig or the fetch of the chart may fail; when it is the newActionConfig of the
\* retry, Install returns the error of its first attempt.
Load(c) ==
  /\ call[c].pc = "load"
  /\ \/ /\ checkChartType(call[c].chart) /\ checkDependencies(call[c].chart)
        /\ call' = [call EXCEPT ![c].pc = "render"]
     \/ Failed(c, "load")
     \/ call[c].attempt = 2 /\ Failed(c, "unretried")
  /\ UNCHANGED <<serverVars, events, informer, cached, mapperVars>>

\* Helm invalidates the discovery client and reads it again for the chart's capabilities.
Render(c) ==
  /\ call[c].pc = "render"
  /\ call' = [call EXCEPT ![c].pc = "validate", ![c].todo = call[c].chart.kinds]
  /\ IF cached THEN memory' = Filled(served) /\ UNCHANGED delegate ELSE UNCHANGED mapperVars
  /\ UNCHANGED <<serverVars, events, informer, cached>>

\* ToRESTMapper: one kind of the manifest is mapped, by the shared mapper or one of this call's own.
Map(c) ==
  /\ call[c].pc \in {"validate", "build"}
  /\ \E k \in call[c].todo :
       /\ IF cached THEN Mapping(k) ELSE UNCHANGED mapperVars
       /\ IF (IF cached THEN Hit(k) ELSE k \in served)
          THEN call' = [call EXCEPT ![c].todo = @ \ {k}]
          ELSE Failed(c, "noMatch")
  /\ UNCHANGED <<serverVars, events, informer, cached>>

\* duplicateResourceValidator.Run, the last post renderer, has built the manifest.
Validated(c) ==
  /\ call[c].pc = "validate" /\ call[c].todo = {}
  /\ \/ call[c].chart.duplicate /\ Failed(c, "duplicate")
     \/ ~call[c].chart.duplicate
        /\ call' = [call EXCEPT ![c].pc = "build", ![c].todo = call[c].chart.kinds]
  /\ UNCHANGED <<serverVars, events, informer, cached, mapperVars>>

\* Helm applies what it has built; a kind mapped from a stale cache is refused by the server.
Apply(c) ==
  /\ call[c].pc = "build" /\ call[c].todo = {}
  /\ IF call[c].chart.kinds \subseteq served THEN Return(c, "ok") ELSE Failed(c, "notFound")
  /\ UNCHANGED <<serverVars, events, informer, cached, mapperVars>>

isRESTMappingMiss(err) == err = "noMatch"

\* Install retries once, on a mapping miss, when it shares a mapper.
Retryable(c) ==
  call[c].op = "Install" /\ call[c].attempt = 1 /\ cached /\ isRESTMappingMiss(call[c].result)

Again(c) == call' = [call EXCEPT ![c].pc = "load", ![c].attempt = @ + 1,
                                 ![c].result = "none", ![c].gap = ~(call[c].chart.kinds \subseteq served)]

\* Mutant: the retry trusts the informer to have reset the mapper.
RetryWithoutReset(c) ==
  /\ call[c].pc = "failed" /\ Retryable(c)
  /\ Again(c)
  /\ UNCHANGED <<serverVars, events, informer, cached, mapperVars>>

Retry(c) ==
  /\ call[c].pc = "failed" /\ Retryable(c)
  /\ Reset /\ Again(c)
  /\ UNCHANGED <<serverVars, events, informer, cached>>

ReturnError(c) ==
  /\ call[c].pc = "failed" /\ ~Retryable(c)
  /\ Return(c, call[c].result)
  /\ UNCHANGED <<serverVars, events, informer, cached, mapperVars>>

Step(c) == Load(c) \/ Render(c) \/ Map(c) \/ Validated(c) \/ Apply(c) \/ Retry(c) \/ ReturnError(c)

Next ==
  \/ \E k \in Kinds : Define(k) \/ Establish(k) \/ Withdraw(k)
  \/ Deliver \/ Close
  \/ \E c \in Callers : \/ Step(c)
                        \/ \E h \in Charts : Install(c, h) \/ Upgrade(c, h)

Spec == Init /\ [][Next]_vars

-----------------------------------------------------------------------------
(* An Install that returns "no matches for kind" although it could retry    *)
(* has seen a real absence: since the Reset before its retry (since its     *)
(* start, without a shared mapper) some kind of its chart was not served.   *)
(* "a stale cache no longer wedges the install" (client.go:209), whatever   *)
(* the other callers and the informer do to the mapper meanwhile.           *)
MissIsReal ==
  \A c \in Callers : call[c].op = "Install" /\ call[c].pc = "idle" /\ call[c].result = "noMatch" => call[c].gap

(* Once the informer has handled every CRD event, the shared mapper resolves *)
(* no kind that the server has stopped serving: a mapping that succeeded     *)
(* before does not outlive its CRD (crdinformer.go:64, 71).                  *)
GoneIsUnmapped == cached /\ informer /\ events = <<>> => delegate.kinds \subseteq served
=============================================================================
