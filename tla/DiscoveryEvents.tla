--------------------------- MODULE DiscoveryEvents ---------------------------
(***************************************************************************)
(* discoveryevents.Publisher on an event bus: PublishChanges compares what *)
(* discovery lists with what the last successful call has seen and         *)
(* publishes the differences one by one, each with PublishSync.  One       *)
(* subscriber listens to the three events and keeps a view of the served   *)
(* resources.                                                              *)
(***************************************************************************)
EXTENDS EventBus

CONSTANTS
  Resources,
  Snapshots,    \* what discovery may say of a resource (its verbs)
  None,         \* a resource that is not served, not seen or not known
  Added, Changed, Removed,
  MaxChurn      \* bound on changes of the served resources

ASSUME DiscoveryAssumption ==
  /\ EventIDs = {Added, Changed, Removed} /\ Publications \subseteq Nat
  /\ None \notin Snapshots /\ MaxChurn \in Nat /\ MaxID >= 2

VARIABLES
  server,              \* what is served
  seen,                \* Publisher.seen
  step,                \* "idle", "scan", "wait" or "remove"
  then,                \* where the wait for a publication returns to
  listed, current,     \* the lists of the call, and the map it builds
  todo,
  sent,                \* publications so far; the last one is awaited
  event,               \* what each publication carries
  ok,                  \* the last call returned nil
  view,                \* the subscriber's
  churn

pubLocals == <<step, then, listed, current, todo, ok>>
discoveryVars == <<server, seen, pubLocals, sent, event, view, churn>>
allVars == <<vars, discoveryVars>>

Known == [Resources -> Snapshots \cup {None}]
Nothing == [r \in Resources |-> None]

SubscriberOf(e) == CASE e = Added -> 0 [] e = Changed -> 1 [] e = Removed -> 2

\* The bus after the subscriber has made its three subscriptions.
DInit ==
  /\ nextID = 3 /\ infos = [e \in EventIDs |-> {SubscriberOf(e)}]
  /\ phase = [p \in Publications |-> "unused"]
  /\ snap = [p \in Publications |-> {}]
  /\ handler = [p \in Publications |-> [i \in IDs |-> "none"]]
  /\ ctxDone = [p \in Publications |-> FALSE]
  /\ remaining = [p \in Publications |-> 0]
  /\ result = [p \in Publications |-> NoResult]
  /\ taken = [p \in Publications |-> {}]
  /\ hooked = [p \in Publications |-> {}]
  /\ server \in Known /\ seen = Nothing /\ listed = Nothing /\ current = Nothing
  /\ step = "idle" /\ then = "scan" /\ todo = {} /\ sent = 0
  /\ event = [p \in Publications |-> None]
  /\ ok = FALSE /\ view = Nothing /\ churn = 0

\* A CRD is installed, changed or deleted.
ServerChanges ==
  /\ churn < MaxChurn /\ churn' = churn + 1
  /\ \E r \in Resources, s \in Snapshots \cup {None} :
       s # server[r] /\ server' = [server EXCEPT ![r] = s]
  /\ UNCHANGED <<vars, seen, pubLocals, sent, event, view>>

\* PublishChanges starts with discovery; when discovery fails it returns.
Discover ==
  /\ step = "idle"
  /\ \/ /\ step' = "scan" /\ listed' = server /\ current' = Nothing
        /\ todo' = {r \in Resources : server[r] # None}
        /\ UNCHANGED <<then, ok>>
     \/ ok' = FALSE /\ UNCHANGED <<step, then, listed, current, todo>>
  /\ UNCHANGED <<vars, server, seen, sent, event, view, churn>>

\* publish: PublishSync of one event; then the call goes on at t.
Publish(e, r, s, t) ==
  /\ sent + 1 \in Publications /\ sent' = sent + 1
  /\ PublishAsync(sent + 1, e)
  /\ event' = [event EXCEPT ![sent + 1] = [id |-> e, resource |-> r, snapshot |-> s]]
  /\ step' = "wait" /\ then' = t

Silent == UNCHANGED <<vars, sent, event, step, then>>

\* One listed resource.
Scan(r) ==
  /\ step = "scan" /\ r \in todo /\ todo' = todo \ {r}
  /\ current' = [current EXCEPT ![r] = listed[r]]
  /\ CASE seen[r] = None -> Publish(Added, r, listed[r], "scan")
       [] seen[r] \notin {None, listed[r]} -> Publish(Changed, r, listed[r], "scan")
       [] OTHER -> Silent
  /\ UNCHANGED <<server, seen, listed, ok, view, churn>>

\* The keys of seen that are not in current.
ScanDone ==
  /\ step = "scan" /\ todo = {} /\ step' = "remove"
  /\ todo' = {r \in Resources : seen[r] # None /\ current[r] = None}
  /\ UNCHANGED <<vars, server, seen, then, listed, current, sent, event, ok, view, churn>>

\* One resource that was seen and is no longer listed; the subscriber is told
\* to forget it.
RemoveOne(r) ==
  /\ step = "remove" /\ r \in todo /\ todo' = todo \ {r}
  /\ Publish(Removed, r, None, "remove")
  /\ UNCHANGED <<server, seen, listed, current, ok, view, churn>>

\* Mutant: only a context error ends the call.
PublishedAnyway ==
  /\ step = "wait" /\ phase[sent] = "done"
  /\ IF result[sent].err
       THEN step' = "idle" /\ ok' = FALSE
       ELSE step' = then /\ UNCHANGED ok
  /\ UNCHANGED <<vars, server, seen, then, listed, current, todo, sent, event, view, churn>>

\* PublishSync returns; an error or a failed handler ends the call.
Published ==
  /\ step = "wait" /\ phase[sent] = "done"
  /\ IF result[sent].err \/ result[sent].errors > 0
       THEN step' = "idle" /\ ok' = FALSE
       ELSE step' = then /\ UNCHANGED ok
  /\ UNCHANGED <<vars, server, seen, then, listed, current, todo, sent, event, view, churn>>

Finish ==
  /\ step = "remove" /\ todo = {}
  /\ seen' = current /\ step' = "idle" /\ ok' = TRUE
  /\ UNCHANGED <<vars, server, then, listed, current, todo, sent, event, view, churn>>

\* A handler that returns nil has applied the event to the view; one that
\* fails has not.
Handle(p, i) ==
  /\ HandlerReturns(p, i)
  /\ view' = IF handler'[p][i] = "ok"
               THEN [view EXCEPT ![event[p].resource] = event[p].snapshot]
               ELSE view
  /\ UNCHANGED <<server, seen, pubLocals, sent, event, churn>>

BusStep(p) ==
  /\ \/ \E i \in IDs : HandleFailure(p, i)
     \/ ContextEnds(p) \/ Collector(p)
  /\ UNCHANGED discoveryVars

DNext ==
  \/ ServerChanges \/ Discover \/ ScanDone \/ Published \/ Finish
  \/ \E r \in Resources : Scan(r) \/ RemoveOne(r)
  \/ \E p \in Publications : BusStep(p) \/ \E i \in IDs : Handle(p, i)

DSpec == DInit /\ [][DNext]_allVars

-----------------------------------------------------------------------------
(* Properties *)

NoTimeouts == \A p \in Publications : ~result[p].err

\* The subscriber has taken in the event of p; it was the last one of r that it did.
Applied(p) == handler[p][SubscriberOf(event[p].id)] = "ok"
LastApplied(r, p) ==
  /\ event[p].resource = r /\ Applied(p)
  /\ \A q \in (p + 1)..sent : event[q].resource = r => ~Applied(q)

\* An event was delivered, but a later one of the call was not, and the call failed.
Forgotten(p) == \E q \in (p + 1)..sent : result[q].errors > 0

\* After a call that returned nil, the subscriber knows every resource as the call has listed
\* it, also that it is gone, whatever handlers failed in earlier calls: except one of which an
\* event was delivered in a call that failed later, and which is now what it was before that
\* event, so that nothing is published (discoveryevents.go:124). And except that a handler
\* that outlived its publication may bring back an older snapshot.
ViewFollows ==
  NoTimeouts /\ step = "idle" /\ ok => \A r \in Resources :
    \/ view[r] = seen[r]
    \/ \E p \in 1..sent : LastApplied(r, p) /\ view[r] = event[p].snapshot /\ Forgotten(p)
=============================================================================
