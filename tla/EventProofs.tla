----------------------------- MODULE EventProofs -----------------------------
(* The event bus, the discovery events published on it, and the registry of    *)
(* watched kinds.                                                              *)
EXTENDS EventBus, DiscoveryEvents, RuntimeKinds, FiniteSetTheorems, TLAPS

(* More time for the provers: a long module keeps their results waiting.       *)
USE SMTT(20), ZenonT(20)

-----------------------------------------------------------------------------
(* What a PublishResult says, for any number of subscriptions, publications   *)
(* and handlers that fail.                                                    *)

Failed(p) == {i \in taken[p] : handler[p][i] = "failed"}

\* One publication: the collector's counters count what it has received, and
\* what is missing from the snapshot is what it still waits for.
Counted(p) ==
  /\ taken[p] \subseteq Sent(p)
  /\ result[p].delivered = Cardinality(taken[p])
  /\ result[p].errors = Cardinality(Failed(p))
  /\ \A i \in snap[p] : handler[p][i] = "failed" => i \in hooked[p]
  /\ phase[p] = "unused" => taken[p] = {} /\ result[p] = NoResult
  /\ phase[p] # "unused" => remaining[p] + Cardinality(taken[p]) = Cardinality(snap[p])
  /\ phase[p] = "open" => remaining[p] >= 1 /\ result[p].pending = 0 /\ ~result[p].err
  /\ phase[p] = "done" => IF result[p].err THEN result[p].pending = remaining[p]
                          ELSE result[p].pending = 0 /\ remaining[p] = 0

BusInv == TypeOK /\ \A p \in Publications : Counted(p)

-----------------------------------------------------------------------------
(* A set of subscription ids is finite: an id is handed out once. *)
LEMMA IdSets == ASSUME NEW S \in SUBSET IDs PROVE IsFiniteSet(S) /\ Cardinality(S) \in Nat
<1>1. IsFiniteSet(IDs)
  BY FS_Interval, BusAssumption DEF IDs
<1>2. IsFiniteSet(S)
  BY <1>1, FS_Subset
<1> QED
  BY <1>2, FS_CardinalityType

(* A new bus has no publications. *)
LEMMA BusInvInit == Init => BusInv
<1> SUFFICES ASSUME Init PROVE BusInv
  OBVIOUS
<1>1. TypeOK
  BY BusAssumption DEF Init, TypeOK, NoResult, IDs
<1>2. ASSUME NEW p \in Publications PROVE Counted(p)
  <2>1. taken[p] = {} /\ snap[p] = {} /\ result[p] = NoResult /\ phase[p] = "unused"
    BY DEF Init
  <2>2. Failed(p) = {}
    BY <2>1 DEF Failed
  <2> QED
    BY <2>1, <2>2, FS_EmptySet DEF Counted, NoResult
<1> QED
  BY <1>1, <1>2 DEF BusInv

(* A publication keeps its count while nothing of it changes. *)
LEMMA Untouched ==
  ASSUME NEW q \in Publications, Counted(q),
         /\ phase'[q] = phase[q] /\ snap'[q] = snap[q] /\ handler'[q] = handler[q]
         /\ remaining'[q] = remaining[q] /\ result'[q] = result[q]
         /\ taken'[q] = taken[q] /\ hooked'[q] = hooked[q]
  PROVE  Counted(q)'
BY DEF Counted, Sent, Failed

(* Subscribing, unsubscribing and publishing: a publication starts with all   *)
(* of its copied subscriptions to wait for, and is over if there is none.     *)
LEMMA BusNextCounted == ASSUME BusInv, BusNext PROVE BusInv'
<1> USE DEF BusInv
<1>1. ASSUME NEW e \in EventIDs, Subscribe(e) PROVE BusInv'
  <2>1. TypeOK'
    BY <1>1, BusAssumption DEF Subscribe, TypeOK, pubVars, IDs
  <2> QED
    BY <1>1, <2>1, Untouched DEF Subscribe, pubVars
<1>2. ASSUME NEW e \in EventIDs, NEW i \in IDs, Unsubscribe(e, i) PROVE BusInv'
  <2>1. TypeOK'
    BY <1>2 DEF Unsubscribe, TypeOK, pubVars
  <2> QED
    BY <1>2, <2>1, Untouched DEF Unsubscribe, pubVars
<1>3. ASSUME NEW p \in Publications, NEW e \in EventIDs, PublishAsync(p, e) PROVE BusInv'
  <2> DEFINE subs == infos[e]
  <2>1. subs \in SUBSET IDs /\ IsFiniteSet(subs) /\ Cardinality(subs) \in Nat
    BY IdSets DEF TypeOK
  <2>2. TypeOK'
    BY <1>3, <2>1 DEF PublishAsync, copySubscriptions, TypeOK, busVars
  <2>3. /\ phase'[p] = (IF subs = {} THEN "done" ELSE "open") /\ snap'[p] = subs
        /\ handler'[p] = [i \in IDs |-> IF i \in subs THEN "running" ELSE "none"]
        /\ remaining'[p] = Cardinality(subs)
        /\ result'[p] = NoResult /\ taken'[p] = {}
    BY <1>3 DEF PublishAsync, copySubscriptions, TypeOK, Counted
  <2>4. Failed(p)' = {} /\ Cardinality({}) = 0
    BY <2>3, FS_EmptySet DEF Failed
  <2>5. subs # {} => Cardinality(subs) >= 1
    BY <2>1, FS_EmptySet
  <2>6. \A i \in subs : handler'[p][i] # "failed"
    BY <2>1, <2>3
  <2>7. Counted(p)'
    <3> HIDE DEF subs
    <3> QED
      BY <2>1, <2>3, <2>4, <2>5, <2>6, FS_EmptySet DEF Counted, NoResult
  <2>8. ASSUME NEW q \in Publications \ {p} PROVE Counted(q)'
    BY <1>3, <2>8, Untouched DEF PublishAsync, TypeOK
  <2> QED
    BY <2>2, <2>7, <2>8
<1> QED
  BY <1>1, <1>2, <1>3, BusNext DEF BusNext

(* A handler that returns, or whose failure the hook has seen, has not been   *)
(* received yet: the counters are right before and after.                     *)
LEMMA HandlerCounted ==
  ASSUME BusInv, NEW p \in Publications, NEW i \in IDs, HandlerReturns(p, i) \/ HandleFailure(p, i)
  PROVE  BusInv'
<1> USE DEF BusInv
<1>1. PICK h \in {"ok", "erring", "failed"} :
        /\ handler' = [handler EXCEPT ![p][i] = h]
        /\ hooked' \in {hooked, [hooked EXCEPT ![p] = @ \cup {i}]}
        /\ h = "failed" => hooked' = [hooked EXCEPT ![p] = @ \cup {i}]
        /\ handler[p][i] \in {"running", "erring"}
        /\ UNCHANGED <<busVars, phase, snap, ctxDone, remaining, result, taken>>
  <2>1. CASE HandlerReturns(p, i)
    BY Zenon, <2>1 DEF HandlerReturns
  <2>2. CASE HandleFailure(p, i)
    BY <2>2 DEF HandleFailure
  <2> QED
    BY <2>1, <2>2
<1>2. /\ handler' \in [Publications -> [IDs -> {"none", "running", "erring", "ok", "failed"}]]
      /\ handler'[p][i] = h
      /\ \A j \in IDs \ {i} : handler'[p][j] = handler[p][j]
      /\ \A q \in Publications \ {p} : handler'[q] = handler[q]
  BY <1>1 DEF TypeOK
<1>3. /\ hooked' \in [Publications -> SUBSET IDs]
      /\ hooked[p] \subseteq hooked'[p] /\ (h = "failed" => i \in hooked'[p])
      /\ \A q \in Publications \ {p} : hooked'[q] = hooked[q]
  <2>1. hooked \in [Publications -> SUBSET IDs]
    BY DEF TypeOK
  <2>2. CASE hooked' = hooked /\ h # "failed"
    BY <2>1, <2>2
  <2>3. CASE hooked' = [hooked EXCEPT ![p] = @ \cup {i}]
    <3>1. hooked'[p] = hooked[p] \cup {i} /\ hooked[p] \cup {i} \in SUBSET IDs
      BY <2>1, <2>3
    <3> QED
      BY <2>1, <2>3, <3>1
  <2> QED
    BY <1>1, <2>2, <2>3
<1>4. TypeOK'
  BY <1>1, <1>2, <1>3 DEF TypeOK, busVars
<1>5. i \notin taken[p] /\ taken[p] \subseteq IDs /\ snap[p] \subseteq IDs
  BY SMTT(60), <1>1 DEF Counted, Sent, TypeOK
<1>6. Failed(p)' = Failed(p)
  BY <1>1, <1>2, <1>5 DEF Failed
<1>7. Sent(p) \subseteq Sent(p)'
  BY SMTT(60), <1>1, <1>2, <1>5 DEF Sent
<1>8. \A j \in snap[p] : handler'[p][j] = "failed" => j \in hooked'[p]
  BY <1>2, <1>3, <1>5 DEF Counted
<1>9. Counted(p)'
  BY Zenon, <1>1, <1>6, <1>7, <1>8 DEF Counted
<1>10. ASSUME NEW q \in Publications \ {p} PROVE Counted(q)'
  BY <1>1, <1>2, <1>3, <1>10, Untouched
<1> QED
  BY <1>4, <1>9, <1>10

(* A result that is received is one that was not: the counters move by one,   *)
(* and the last one ends the publication.                                     *)
LEMMA CollectCounted ==
  ASSUME BusInv, NEW p \in Publications, NEW i \in IDs, Collect(p, i) PROVE BusInv'
<1> USE DEF BusInv
<1>1. /\ phase[p] = "open" /\ i \in snap[p] /\ i \notin taken[p] /\ i \in Sent(p)
      /\ remaining[p] \in Nat /\ remaining[p] >= 1
  BY DEF Collect, Sent, Counted, TypeOK
<1>2. /\ taken'[p] = taken[p] \cup {i} /\ remaining'[p] = remaining[p] - 1
      /\ result'[p] = [result[p] EXCEPT !.delivered = @ + 1,
                                        !.errors = IF handler[p][i] = "failed" THEN @ + 1 ELSE @]
      /\ phase'[p] = (IF remaining[p] = 1 THEN "done" ELSE "open")
      /\ snap' = snap /\ handler' = handler /\ hooked' = hooked
  BY <1>1 DEF Collect, TypeOK
<1>3. /\ result'[p].delivered = result[p].delivered + 1
      /\ result'[p].errors = IF handler[p][i] = "failed" THEN result[p].errors + 1 ELSE result[p].errors
      /\ result'[p].pending = result[p].pending /\ result'[p].err = result[p].err
      /\ result'[p] \in [delivered : Nat, pending : Nat, errors : Nat, err : BOOLEAN]
  <2>1. result[p] \in [delivered : Nat, pending : Nat, errors : Nat, err : BOOLEAN]
    BY DEF TypeOK
  <2>2. result'[p] = [delivered |-> result[p].delivered + 1, pending |-> result[p].pending,
                      errors |-> IF handler[p][i] = "failed" THEN result[p].errors + 1 ELSE result[p].errors,
                      err |-> result[p].err]
    BY Zenon, <1>2, <2>1
  <2> QED
    BY <2>1, <2>2
<1>4. TypeOK'
  BY <1>1, <1>3 DEF Collect, TypeOK, busVars
<1>5. taken[p] \in SUBSET IDs /\ Failed(p) \in SUBSET IDs /\ snap[p] \in SUBSET IDs
  BY DEF TypeOK, Failed
<1>6. Cardinality(taken'[p]) = Cardinality(taken[p]) + 1
  BY <1>1, <1>2, <1>5, IdSets, FS_AddElement
<1>7. Cardinality(Failed(p)') = IF handler[p][i] = "failed" THEN Cardinality(Failed(p)) + 1
                                ELSE Cardinality(Failed(p))
  <2>1. CASE handler[p][i] = "failed"
    <3>1. Failed(p)' = Failed(p) \cup {i} /\ i \notin Failed(p)
      BY <1>1, <1>2, <2>1 DEF Failed
    <3> QED
      BY <2>1, <3>1, <1>5, IdSets, FS_AddElement
  <2>2. CASE handler[p][i] # "failed"
    <3>1. Failed(p)' = Failed(p)
      BY <1>2, <2>2 DEF Failed
    <3> QED
      BY <2>2, <3>1
  <2> QED
    BY <2>1, <2>2
<1>8. Sent(p)' = Sent(p)
  BY <1>2 DEF Sent
<1>9. Cardinality(taken[p]) \in Nat /\ Cardinality(snap[p]) \in Nat /\ Cardinality(Failed(p)) \in Nat
  BY SMTT(60), <1>5, IdSets
<1>10. Counted(p)'
  <2>1. remaining'[p] + Cardinality(taken'[p]) = Cardinality(snap'[p])
    BY <1>1, <1>2, <1>6, <1>9 DEF Counted
  <2>2. taken'[p] \subseteq Sent(p)'
    BY Zenon, <1>1, <1>2, <1>8 DEF Counted
  <2>3. /\ result'[p].delivered = Cardinality(taken'[p])
        /\ result'[p].errors = Cardinality(Failed(p)')
    BY SMTT(60), <1>3, <1>6, <1>7, <1>9 DEF Counted
  <2>4. result'[p].pending = 0 /\ ~result'[p].err
    BY <1>1, <1>3 DEF Counted
  <2>5. \A j \in snap'[p] : handler'[p][j] = "failed" => j \in hooked'[p]
    BY <1>2 DEF Counted
  <2>6. (phase'[p] = "open" => remaining'[p] >= 1) /\ (phase'[p] = "done" => remaining'[p] = 0)
    BY <1>1, <1>2
  <2>7. phase'[p] \in {"open", "done"}
    BY <1>2
  <2> QED
    BY <2>1, <2>2, <2>3, <2>4, <2>5, <2>6, <2>7 DEF Counted
<1>11. ASSUME NEW q \in Publications \ {p} PROVE Counted(q)'
  BY <1>11, Untouched DEF Collect, TypeOK
<1> QED
  BY <1>4, <1>10, <1>11

(* The context may end at any time; a collector that sees it reports all it   *)
(* still waits for as pending.                                                *)
LEMMA ContextCounted ==
  ASSUME BusInv, NEW p \in Publications, ContextEnds(p) \/ GiveUp(p) PROVE BusInv'
<1> USE DEF BusInv
<1>1. CASE ContextEnds(p)
  <2>1. TypeOK'
    BY <1>1 DEF ContextEnds, TypeOK, busVars
  <2> QED
    BY <1>1, <2>1, Untouched DEF ContextEnds
<1>2. CASE GiveUp(p)
  <2>1. /\ result'[p] = [result[p] EXCEPT !.pending = remaining[p], !.err = TRUE]
        /\ phase[p] = "open" /\ phase'[p] = "done"
    BY <1>2 DEF GiveUp, TypeOK
  <2>2. /\ result'[p].pending = remaining[p] /\ result'[p].err = TRUE
        /\ result'[p].delivered = result[p].delivered /\ result'[p].errors = result[p].errors
        /\ result'[p] \in [delivered : Nat, pending : Nat, errors : Nat, err : BOOLEAN]
    BY ZenonT(60), <2>1 DEF TypeOK
  <2>3. TypeOK'
    BY <1>2, <2>2 DEF GiveUp, TypeOK, busVars
  <2>4. Sent(p)' = Sent(p) /\ Failed(p)' = Failed(p)
    BY <1>2 DEF GiveUp, Sent, Failed
  <2>5. Counted(p)'
    BY <1>2, <2>1, <2>2, <2>4 DEF GiveUp, Counted
  <2>6. ASSUME NEW q \in Publications \ {p} PROVE Counted(q)'
    BY <1>2, <2>6, Untouched DEF GiveUp, TypeOK
  <2> QED
    BY <2>3, <2>5, <2>6
<1> QED
  BY <1>1, <1>2

(* Every step of the bus keeps the counts. *)
LEMMA BusInvNext == BusInv /\ [Next]_vars => BusInv'
<1> SUFFICES ASSUME BusInv, [Next]_vars PROVE BusInv'
  OBVIOUS
<1>1. CASE BusNext
  BY <1>1, BusNextCounted
<1>2. ASSUME NEW p \in Publications, PublicationStep(p) PROVE BusInv'
  BY <1>2, HandlerCounted, CollectCounted, ContextCounted DEF PublicationStep, Collector
<1>3. CASE UNCHANGED vars
  <2>1. TypeOK'
    BY <1>3 DEF BusInv, TypeOK, vars, busVars, pubVars
  <2> QED
    BY <1>3, <2>1, Untouched DEF BusInv, vars, pubVars
<1> QED
  BY <1>1, <1>2, <1>3 DEF Next

(* Counters that are right make the answer right: without Err the collector   *)
(* has received as many results as the snapshot has subscriptions, so all.    *)
LEMMA CountedAnswers == BusInv => Accounting
<1> SUFFICES ASSUME BusInv, NEW p \in Publications, phase[p] = "done"
    PROVE /\ result[p].delivered + result[p].pending = Cardinality(snap[p])
          /\ ~result[p].err =>
               /\ result[p].pending = 0
               /\ Sent(p) = snap[p]
               /\ result[p].errors = Cardinality({i \in snap[p] : handler[p][i] = "failed"})
               /\ \A i \in snap[p] : handler[p][i] = "failed" => i \in hooked[p]
  BY DEF Accounting
<1>1. /\ Counted(p) /\ snap[p] \in SUBSET IDs /\ taken[p] \in SUBSET IDs /\ remaining[p] \in Nat
      /\ taken[p] \subseteq snap[p] /\ Sent(p) \subseteq snap[p]
  BY DEF BusInv, TypeOK, Counted, Sent
<1>2. IsFiniteSet(snap[p]) /\ Cardinality(snap[p]) \in Nat /\ Cardinality(taken[p]) \in Nat
  BY <1>1, IdSets
<1>3. result[p].delivered + result[p].pending = Cardinality(snap[p])
  BY <1>1, <1>2 DEF Counted
<1>4. ASSUME ~result[p].err PROVE taken[p] = snap[p] /\ result[p].pending = 0
  <2>1. Cardinality(taken[p]) = Cardinality(snap[p]) /\ result[p].pending = 0
    BY <1>1, <1>2, <1>4 DEF Counted
  <2> QED
    BY <1>1, <1>2, <2>1, FS_Subset
<1> QED
  BY Zenon, <1>1, <1>3, <1>4 DEF Counted, Failed

(* A PublishResult accounts for every subscription of the snapshot once, and  *)
(* without Err it says how each handler ended (PublishAsync,                  *)
(* eventbus.go:186-205), for any number of subscriptions, overlapping         *)
(* publications and late, failing or hanging handlers.                        *)
THEOREM ResultsAddUp == Init /\ [][Next]_vars => []Accounting
BY BusInvInit, BusInvNext, CountedAnswers, PTL

-----------------------------------------------------------------------------
(* The publisher of discovery changes: events are published one at a time,    *)
(* and without timeouts a subscriber takes each in before the next is sent.   *)

InStage(s) == step = s \/ (step = "wait" /\ then = s)

\* The call under way has dealt with r: r was listed, or is gone and taken from todo.
Processed(r) ==
  /\ step # "idle"
  /\ current[r] # None \/ (InStage("remove") /\ seen[r] # None /\ r \notin todo)
Awaited(r) == step = "wait" /\ event[sent].resource = r /\ ~Applied(sent)

\* What the subscriber knows of r is what the publisher has seen, or what an event of the
\* call under way or of a failed one has told it.
Explained(r) ==
  \/ view[r] = seen[r]
  \/ \E p \in 1..sent : /\ LastApplied(r, p) /\ view[r] = event[p].snapshot
                        /\ Forgotten(p) \/ (Processed(r) /\ view[r] = current[r])
Told(r) == Processed(r) /\ seen[r] # current[r] /\ ~Awaited(r) => view[r] = current[r]

PublisherTypeOK ==
  /\ server \in Known /\ seen \in Known /\ listed \in Known /\ current \in Known /\ view \in Known
  /\ step \in {"idle", "scan", "wait", "remove"} /\ then \in {"scan", "remove"}
  /\ todo \in SUBSET Resources /\ sent \in Nat

\* One publication at a time, each with the one subscription of its event.
EventsInv ==
  /\ infos = [e \in EventIDs |-> {SubscriberOf(e)}] /\ event = [p \in Publications |-> event[p]]
  /\ 1..sent \subseteq Publications /\ (step = "wait" => sent > 0)
  /\ \A p \in Publications : p \notin 1..sent => phase[p] = "unused" /\ snap[p] = {}
  /\ \A p \in Publications, i \in IDs : i \notin snap[p] => handler[p][i] = "none"
  /\ \A p \in 1..sent :
       /\ event[p].id \in EventIDs /\ event[p].resource \in Resources
       /\ event[p].snapshot \in Snapshots \cup {None}
       /\ snap[p] = {SubscriberOf(event[p].id)}
       /\ phase[p] = "done" \/ (p = sent /\ step = "wait" /\ phase[p] = "open")

StageInv ==
  /\ InStage("scan") => \A r \in todo : listed[r] # None /\ current[r] = None
  /\ InStage("remove") => \A r \in todo : seen[r] # None /\ current[r] = None
  /\ step = "wait" => /\ event[sent].snapshot = current[event[sent].resource]
                      /\ Processed(event[sent].resource)

DiscoveryInv ==
  /\ BusInv /\ PublisherTypeOK /\ EventsInv /\ StageInv
  /\ NoTimeouts => \A r \in Resources : Explained(r) /\ Told(r)

-----------------------------------------------------------------------------
(* Every event has a subscription id of the bus. *)
LEMMA SubscriberIds == \A e \in EventIDs : SubscriberOf(e) \in IDs
BY DiscoveryAssumption, BusAssumption DEF SubscriberOf, IDs

(* The bus of the publisher starts with three subscriptions and nothing       *)
(* published.                                                                 *)
LEMMA DiscoveryInit == DInit => DiscoveryInv
<1> SUFFICES ASSUME DInit PROVE DiscoveryInv
  OBVIOUS
<1>1. TypeOK
  BY BusAssumption, DiscoveryAssumption, SubscriberIds DEF DInit, TypeOK, NoResult, IDs
<1>2. ASSUME NEW p \in Publications PROVE Counted(p)
  <2>1. taken[p] = {} /\ snap[p] = {} /\ result[p] = NoResult /\ phase[p] = "unused"
    BY DEF DInit
  <2>2. Failed(p) = {}
    BY <2>1 DEF Failed
  <2> QED
    BY <2>1, <2>2, FS_EmptySet DEF Counted, NoResult
<1>3. PublisherTypeOK
  BY DEF DInit, PublisherTypeOK, Known, Nothing
<1>4. sent = 0 /\ 1..sent = {} /\ step = "idle"
  BY DEF DInit
<1>5. EventsInv
  BY <1>4 DEF DInit, EventsInv
<1>6. StageInv
  BY <1>4 DEF StageInv, InStage
<1>7. \A r \in Resources : Explained(r) /\ Told(r)
  BY <1>4 DEF DInit, Explained, Told, Processed, Nothing
<1> QED
  BY <1>1, <1>2, <1>3, <1>5, <1>6, <1>7 DEF DiscoveryInv, BusInv

(* Publishing an event of the three is a publication on the bus. *)
LEMMA PublishIsABusStep ==
  ASSUME NEW e \in EventIDs, NEW r, NEW s, NEW t, Publish(e, r, s, t) PROVE BusNext
BY DEF Publish, BusNext

(* Every step of the publisher, its subscriber and the bus is a step of the   *)
(* bus or leaves it alone.                                                    *)
LEMMA BusImplemented == [DNext]_allVars => [Next]_vars
<1> SUFFICES ASSUME [DNext]_allVars PROVE [Next]_vars
  OBVIOUS
<1>1. Added \in EventIDs /\ Changed \in EventIDs /\ Removed \in EventIDs
  BY DiscoveryAssumption
<1>2. CASE ServerChanges \/ Discover \/ ScanDone \/ Published \/ Finish \/ UNCHANGED allVars
  BY <1>2 DEF ServerChanges, Discover, ScanDone, Published, Finish, allVars
<1>3. ASSUME NEW r \in Resources, Scan(r) PROVE [Next]_vars
  BY <1>1, <1>3, PublishIsABusStep DEF Scan, Silent, Next
<1>4. ASSUME NEW r \in Resources, RemoveOne(r) PROVE [Next]_vars
  BY <1>1, <1>4, PublishIsABusStep DEF RemoveOne, Next
<1>5. ASSUME NEW p \in Publications, BusStep(p) PROVE [Next]_vars
  BY <1>5 DEF BusStep, Next, PublicationStep
<1>6. ASSUME NEW p \in Publications, NEW i \in IDs, Handle(p, i) PROVE [Next]_vars
  BY <1>6 DEF Handle, Next, PublicationStep
<1> QED
  BY <1>2, <1>3, <1>4, <1>5, <1>6 DEF DNext

(* What a publication changes: it is the next one, open, with its one handler  *)
(* running.                                                                   *)
LEMMA PublishEffects ==
  ASSUME BusInv, PublisherTypeOK, EventsInv, step # "wait",
         NEW e \in EventIDs, NEW r \in Resources, NEW s, NEW t, Publish(e, r, s, t)
  PROVE  /\ sent' = sent + 1 /\ sent' \in Publications /\ sent' > 0 /\ step' = "wait" /\ then' = t
         /\ infos' = infos /\ result' = result
         /\ event' = [p \in Publications |-> event'[p]]
         /\ event'[sent'] = [id |-> e, resource |-> r, snapshot |-> s]
         /\ snap'[sent'] = {SubscriberOf(e)} /\ phase'[sent'] = "open"
         /\ \A i \in IDs : handler'[sent'][i] = IF i = SubscriberOf(e) THEN "running" ELSE "none"
         /\ \A q \in Publications : q # sent' =>
              /\ event'[q] = event[q] /\ snap'[q] = snap[q] /\ phase'[q] = phase[q]
              /\ handler'[q] = handler[q]
<1> DEFINE n == sent + 1
           subs == {SubscriberOf(e)}
<1>1. n \in Publications /\ n \in Nat /\ n > 0 /\ sent' = n /\ step' = "wait" /\ then' = t
  BY DEF Publish, PublisherTypeOK
<1>2. infos[e] = subs /\ subs # {} /\ subs \subseteq IDs
  BY SubscriberIds DEF EventsInv
<1>3. /\ phase' = [phase EXCEPT ![n] = "open"] /\ snap' = [snap EXCEPT ![n] = subs]
      /\ handler' = [handler EXCEPT ![n] = [i \in IDs |-> IF i \in subs THEN "running" ELSE "none"]]
      /\ infos' = infos /\ result' = result
  BY <1>2, Zenon DEF Publish, PublishAsync, copySubscriptions, busVars
<1>4. event' = [event EXCEPT ![n] = [id |-> e, resource |-> r, snapshot |-> s]]
  BY DEF Publish
<1>5. /\ phase = [p \in Publications |-> phase[p]] /\ snap = [p \in Publications |-> snap[p]]
      /\ handler = [p \in Publications |-> handler[p]]
      /\ event = [p \in Publications |-> event[p]]
  BY DEF BusInv, TypeOK, EventsInv
<1> HIDE DEF n
<1>6. /\ event' = [p \in Publications |-> event'[p]]
      /\ event'[n] = [id |-> e, resource |-> r, snapshot |-> s]
      /\ \A q \in Publications : q # n => event'[q] = event[q]
  BY Zenon, <1>1, <1>4, <1>5
<1>7. /\ phase'[n] = "open" /\ snap'[n] = subs
      /\ handler'[n] = [i \in IDs |-> IF i \in subs THEN "running" ELSE "none"]
      /\ \A q \in Publications : q # n =>
           snap'[q] = snap[q] /\ phase'[q] = phase[q] /\ handler'[q] = handler[q]
  BY Zenon, <1>1, <1>3, <1>5
<1>8. \A i \in IDs : handler'[n][i] = IF i = SubscriberOf(e) THEN "running" ELSE "none"
  BY Zenon, <1>7
<1> QED
  BY <1>1, <1>3, <1>6, <1>7, <1>8 DEF n

(* A publication leaves the others as they are and is the only open one. *)
LEMMA PublishEvents ==
  ASSUME BusInv, PublisherTypeOK, EventsInv, step # "wait",
         NEW e \in EventIDs, NEW r \in Resources, NEW s \in Snapshots \cup {None}, NEW t, Publish(e, r, s, t)
  PROVE  EventsInv'
<1>1. /\ sent' = sent + 1 /\ sent' \in Publications /\ sent' > 0 /\ step' = "wait"
      /\ infos' = infos /\ event' = [p \in Publications |-> event'[p]]
      /\ event'[sent'] = [id |-> e, resource |-> r, snapshot |-> s]
      /\ snap'[sent'] = {SubscriberOf(e)} /\ phase'[sent'] = "open"
      /\ \A i \in IDs : handler'[sent'][i] = IF i = SubscriberOf(e) THEN "running" ELSE "none"
      /\ \A q \in Publications : q # sent' =>
           /\ event'[q] = event[q] /\ snap'[q] = snap[q] /\ phase'[q] = phase[q]
           /\ handler'[q] = handler[q]
  BY PublishEffects
<1>2. sent \in Nat /\ 1..sent' = 1..sent \cup {sent'} /\ sent' \notin 1..sent
  BY <1>1 DEF PublisherTypeOK
<1>3. /\ event'[sent'].id = e /\ event'[sent'].resource = r /\ event'[sent'].snapshot = s
  BY <1>1
<1>4. \A p \in Publications : p \notin 1..sent' => phase'[p] = "unused" /\ snap'[p] = {}
  BY <1>1, <1>2 DEF EventsInv
<1>5. \A p \in Publications, i \in IDs : i \notin snap'[p] => handler'[p][i] = "none"
  BY <1>1 DEF EventsInv
<1>6. 1..sent' \subseteq Publications
  BY <1>1, <1>2 DEF EventsInv
<1>7. ASSUME NEW p \in 1..sent
      PROVE  /\ event'[p].id \in EventIDs /\ event'[p].resource \in Resources
             /\ event'[p].snapshot \in Snapshots \cup {None}
             /\ snap'[p] = {SubscriberOf(event'[p].id)} /\ phase'[p] = "done"
  <2>1. p \in Publications /\ p # sent'
    BY <1>2 DEF EventsInv
  <2>2. event'[p] = event[p] /\ snap'[p] = snap[p] /\ phase'[p] = phase[p]
    BY <1>1, <2>1
  <2> QED
    BY <2>2 DEF EventsInv
<1> QED
  BY <1>1, <1>2, <1>3, <1>4, <1>5, <1>6, <1>7 DEF EventsInv

(* A handler of the bus goes on, and only a publication that is open ends. *)
LEMMA BusEvents ==
  ASSUME BusInv, BusInv', PublisherTypeOK, EventsInv, UNCHANGED <<infos, snap, event, sent, step>>,
         \A p \in Publications : phase'[p] = phase[p] \/ (phase[p] = "open" /\ phase'[p] = "done"),
         \A p \in Publications, i \in IDs : handler[p][i] = "none" => handler'[p][i] = "none"
  PROVE  EventsInv'
<1>1. 1..sent \subseteq Publications
  BY DEF EventsInv
<1>2. \A p \in Publications : p \notin 1..sent => phase'[p] = "unused" /\ snap'[p] = {}
  BY DEF EventsInv
<1>3. \A p \in Publications, i \in IDs : i \notin snap'[p] => handler'[p][i] = "none"
  BY DEF EventsInv
<1>4. \A p \in 1..sent : phase'[p] = "done" \/ (p = sent /\ step = "wait" /\ phase'[p] = "open")
  BY <1>1, Zenon DEF EventsInv
<1> QED
  BY <1>1, <1>2, <1>3, <1>4 DEF EventsInv

(* A step of a publication's goroutines: counted errors and timeouts stay,    *)
(* and without a handler's return none has newly succeeded.                   *)
LEMMA PublicationEffects ==
  ASSUME BusInv, NEW p \in Publications, PublicationStep(p)
  PROVE  /\ UNCHANGED <<infos, snap>>
         /\ \A q \in Publications :
              /\ phase'[q] = phase[q] \/ (phase[q] = "open" /\ phase'[q] = "done")
              /\ result[q].errors > 0 => result'[q].errors > 0
              /\ result[q].err => result'[q].err
         /\ \A q \in Publications, j \in IDs : handler[q][j] = "none" => handler'[q][j] = "none"
<1>0. TypeOK
  BY DEF BusInv
<1>1. ASSUME NEW i \in IDs, NEW h, handler[p][i] # "none", handler' = [handler EXCEPT ![p][i] = h]
      PROVE  \A q \in Publications, j \in IDs : handler[q][j] = "none" => handler'[q][j] = "none"
  BY <1>0, <1>1 DEF TypeOK
<1>2. ASSUME NEW i \in IDs, HandlerReturns(p, i) \/ HandleFailure(p, i)
      PROVE  /\ UNCHANGED <<infos, snap, phase, result>>
             /\ handler[p][i] # "none" /\ \E h : handler' = [handler EXCEPT ![p][i] = h]
  BY Zenon, <1>2 DEF HandlerReturns, HandleFailure, busVars
<1>3. CASE ContextEnds(p)
  BY Zenon, <1>3 DEF ContextEnds, busVars
<1>4. CASE GiveUp(p)
  <2>1. UNCHANGED <<infos, snap, handler>> /\ phase' = [phase EXCEPT ![p] = "done"] /\ phase[p] = "open"
    BY <1>4 DEF GiveUp, busVars
  <2>2. /\ result'[p] = [result[p] EXCEPT !.pending = remaining[p], !.err = TRUE]
        /\ \A q \in Publications \ {p} : result'[q] = result[q]
    BY <1>0, <1>4 DEF GiveUp, TypeOK
  <2>3. result'[p].err = TRUE /\ result'[p].errors = result[p].errors
    <3>1. result[p] \in [delivered : Nat, pending : Nat, errors : Nat, err : BOOLEAN]
      BY <1>0 DEF TypeOK
    <3>2. result'[p] = [delivered |-> result[p].delivered, pending |-> remaining[p],
                        errors |-> result[p].errors, err |-> TRUE]
      BY Zenon, <2>2, <3>1
    <3> QED
      BY <3>2
  <2>4. ASSUME NEW q \in Publications
        PROVE  /\ phase'[q] = phase[q] \/ (phase[q] = "open" /\ phase'[q] = "done")
               /\ result[q].errors > 0 => result'[q].errors > 0
               /\ result[q].err => result'[q].err
    <3>1. phase'[q] = phase[q] \/ (phase[q] = "open" /\ phase'[q] = "done")
      BY <1>0, <2>1 DEF TypeOK
    <3>2. CASE q = p
      BY Zenon, <2>3, <3>1, <3>2
    <3>3. CASE q # p
      <4>1. result'[q] = result[q]
        BY <2>2, <3>3
      <4> QED
        BY <3>1, <4>1
    <3> QED
      BY <3>2, <3>3
  <2> QED
    BY <2>1, <2>4
<1>5. ASSUME NEW i \in IDs, Collect(p, i)
      PROVE  /\ UNCHANGED <<infos, snap, handler>>
             /\ \A q \in Publications :
                  /\ phase'[q] = phase[q] \/ (phase[q] = "open" /\ phase'[q] = "done")
                  /\ result[q].errors > 0 => result'[q].errors > 0
                  /\ result[q].err => result'[q].err
  <2>1. /\ UNCHANGED <<infos, snap, handler>> /\ phase[p] = "open"
        /\ phase' = [phase EXCEPT ![p] = IF remaining[p] = 1 THEN "done" ELSE @]
    BY <1>5 DEF Collect, busVars
  <2>2. /\ result'[p] = [result[p] EXCEPT !.delivered = @ + 1,
                                          !.errors = IF handler[p][i] = "failed" THEN @ + 1 ELSE @]
        /\ \A q \in Publications \ {p} : result'[q] = result[q]
    BY <1>0, <1>5 DEF Collect, TypeOK
  <2>3. result[p] \in [delivered : Nat, pending : Nat, errors : Nat, err : BOOLEAN]
    BY <1>0 DEF TypeOK
  <2>4. result'[p] = [delivered |-> result[p].delivered + 1, pending |-> result[p].pending,
                      errors |-> IF handler[p][i] = "failed" THEN result[p].errors + 1 ELSE result[p].errors,
                      err |-> result[p].err]
    BY Zenon, <2>2, <2>3
  <2>5. result'[p].err = result[p].err /\ result'[p].errors \in {result[p].errors, result[p].errors + 1}
    BY <2>4
  <2>6. result[p].errors \in Nat
    BY <2>3
  <2>7. phase'[p] \in {phase[p], "done"} /\ \A q \in Publications \ {p} : phase'[q] = phase[q]
    BY <1>0, <2>1 DEF TypeOK
  <2>8. ASSUME NEW q \in Publications
        PROVE  /\ phase'[q] = phase[q] \/ (phase[q] = "open" /\ phase'[q] = "done")
               /\ result[q].errors > 0 => result'[q].errors > 0
               /\ result[q].err => result'[q].err
    <3>1. CASE q = p
      BY <2>1, <2>5, <2>6, <2>7, <3>1
    <3>2. CASE q # p
      <4>1. result'[q] = result[q] /\ phase'[q] = phase[q]
        BY <2>2, <2>7, <3>2
      <4> QED
        BY <4>1
    <3> QED
      BY <3>1, <3>2
  <2> QED
    BY <2>1, <2>8
<1> QED
  BY <1>1, <1>2, <1>3, <1>4, <1>5 DEF PublicationStep, Collector

(* Nothing was taken in, and nothing that failed is undone. *)
Quiet ==
  /\ sent' \in {sent, sent + 1} /\ \A q \in 1..sent : event'[q] = event[q] /\ (Applied(q)' <=> Applied(q))
  /\ sent' = sent + 1 => ~Applied(sent)'
  /\ \A q \in 1..sent : result[q].errors > 0 => result'[q].errors > 0

\* Where nothing is published and no result changes, only what was taken in matters.
LEMMA QuietIfNothingSent ==
  ASSUME sent \in Nat, sent' = sent, event' = event, result' = result,
         \A q \in 1..sent : Applied(q)' <=> Applied(q)
  PROVE  Quiet
BY DEF Quiet

(* A quiet step keeps which event of a resource was the last one taken in,    *)
(* and that a later one of its call has failed.                               *)
LEMMA QuietKeeps ==
  ASSUME PublisherTypeOK, Quiet, NEW r, NEW p \in 1..sent
  PROVE  /\ p \in 1..sent' /\ event'[p] = event[p]
         /\ LastApplied(r, p) => LastApplied(r, p)'
         /\ Forgotten(p) => Forgotten(p)'
<1>1. sent \in Nat /\ p \in 1..sent' /\ event'[p] = event[p]
  BY DEF PublisherTypeOK, Quiet
<1>2. ASSUME LastApplied(r, p) PROVE LastApplied(r, p)'
  <2>1. event'[p].resource = r /\ Applied(p)'
    BY <1>1, <1>2 DEF Quiet, LastApplied
  <2>2. ASSUME NEW q \in (p + 1)..sent', event'[q].resource = r PROVE ~Applied(q)'
    <3>1. CASE q \in (p + 1)..sent
      BY <1>1, <1>2, <2>2, <3>1 DEF Quiet, LastApplied
    <3>2. CASE q = sent + 1
      BY <1>1, <2>2, <3>2 DEF Quiet
    <3> QED
      BY <1>1, <3>1, <3>2 DEF Quiet
  <2> QED
    BY <2>1, <2>2 DEF LastApplied
<1>3. ASSUME Forgotten(p) PROVE Forgotten(p)'
  <2>1. PICK q \in (p + 1)..sent : result[q].errors > 0
    BY <1>3 DEF Forgotten
  <2>2. q \in (p + 1)..sent' /\ result'[q].errors > 0
    BY <1>1, <2>1 DEF Quiet
  <2> QED
    BY <2>2 DEF Forgotten
<1> QED
  BY <1>1, <1>2, <1>3

(* What the subscriber knows stays explained over a quiet step that does not   *)
(* change it, if the call under way still is what explains it.                *)
LEMMA StaysExplained ==
  ASSUME PublisherTypeOK, Quiet, NEW r \in Resources, Explained(r),
         view'[r] = view[r], seen'[r] = seen[r],
         Processed(r) /\ view[r] = current[r] => Processed(r)' /\ view[r] = current'[r]
  PROVE  Explained(r)'
<1>1. CASE view[r] = seen[r]
  BY <1>1 DEF Explained
<1>2. CASE view[r] # seen[r]
  <2>1. PICK p \in 1..sent : /\ LastApplied(r, p) /\ view[r] = event[p].snapshot
                             /\ Forgotten(p) \/ (Processed(r) /\ view[r] = current[r])
    BY Zenon, <1>2 DEF Explained
  <2>2. p \in 1..sent' /\ LastApplied(r, p)' /\ event'[p] = event[p] /\ (Forgotten(p) => Forgotten(p)')
    BY <2>1, QuietKeeps
  <2> QED
    BY <2>1, <2>2 DEF Explained
<1> QED
  BY <1>1, <1>2

(* A step of the publisher that publishes nothing, and waits for nothing that *)
(* is still open.                                                             *)
LEMMA LocalStep ==
  ASSUME PublisherTypeOK, EventsInv, UNCHANGED <<vars, sent, event>>,
         (step = "wait" /\ phase[sent] = "open" => step' = "wait") /\ (step' = "wait" => step = "wait")
  PROVE  EventsInv' /\ Quiet /\ (NoTimeouts' <=> NoTimeouts) /\ (BusInv => BusInv')
<1>1. UNCHANGED <<infos, phase, snap, handler, result>>
  BY DEF vars, busVars, pubVars
<1>2. \A p \in 1..sent : phase[p] = "done" \/ (p = sent /\ step' = "wait" /\ phase[p] = "open")
  BY DEF EventsInv
<1>3. EventsInv'
  BY Zenon, <1>1, <1>2 DEF EventsInv
<1>4. Quiet
  BY <1>1 DEF Quiet, Applied, PublisherTypeOK
<1>5. NoTimeouts' <=> NoTimeouts
  BY <1>1 DEF NoTimeouts
<1>6. BusInv => BusInv'
  BY BusInvNext
<1> QED
  BY <1>3, <1>4, <1>5, <1>6

(* A change of what is served is news for the next call. *)
LEMMA ServerStep == ASSUME DiscoveryInv, ServerChanges \/ UNCHANGED allVars PROVE DiscoveryInv'
<1> USE DEF DiscoveryInv
<1>1. UNCHANGED <<vars, seen, step, then, listed, current, todo, sent, event, view>>
  BY DEF ServerChanges, allVars, discoveryVars, pubLocals
<1>2. EventsInv' /\ Quiet /\ (NoTimeouts' <=> NoTimeouts) /\ BusInv'
  BY <1>1, LocalStep
<1>3. server' \in Known
  BY DEF ServerChanges, PublisherTypeOK, Known, allVars, discoveryVars
<1>4. PublisherTypeOK'
  BY Zenon, <1>1, <1>3 DEF PublisherTypeOK
<1>5. StageInv'
  BY <1>1 DEF StageInv, InStage, Processed
<1>6. UNCHANGED <<handler, result>>
  BY Zenon, <1>1 DEF vars, pubVars
<1>7. ASSUME NEW r \in Resources, Explained(r), Told(r) PROVE Explained(r)' /\ Told(r)'
  <2>1. Processed(r)' <=> Processed(r)
    BY <1>1 DEF Processed, InStage
  <2>2. Explained(r)'
    BY Zenon, <1>1, <1>2, <1>7, <2>1, StaysExplained
  <2>3. Awaited(r)' <=> Awaited(r)
    BY <1>1, <1>6 DEF Awaited, Applied
  <2> QED
    BY Zenon, <1>1, <1>7, <2>1, <2>2, <2>3 DEF Told
<1> QED
  BY <1>2, <1>4, <1>5, <1>7

(* A call starts with nothing dealt with. *)
LEMMA DiscoverStep == ASSUME DiscoveryInv, Discover PROVE DiscoveryInv'
<1> USE DEF DiscoveryInv
<1>1. UNCHANGED <<vars, server, seen, sent, event, view, then>> /\ step = "idle" /\ step' \in {"idle", "scan"}
  BY DEF Discover
<1>2. EventsInv' /\ Quiet /\ (NoTimeouts' <=> NoTimeouts) /\ BusInv'
  BY <1>1, LocalStep
<1>3. PublisherTypeOK'
  BY Zenon, <1>1 DEF Discover, PublisherTypeOK, Known, Nothing
<1>4. StageInv'
  BY Zenon, <1>1 DEF Discover, StageInv, InStage, Nothing
<1>5. \A r \in Resources : ~Processed(r) /\ ~Processed(r)'
  BY Zenon, <1>1 DEF Discover, Processed, InStage, Nothing
<1>6. ASSUME NEW r \in Resources, Explained(r) PROVE Explained(r)' /\ Told(r)'
  <2>1. Explained(r)'
    BY <1>1, <1>2, <1>5, <1>6, StaysExplained
  <2> QED
    BY Zenon, <1>5, <2>1 DEF Told
<1> QED
  BY <1>2, <1>3, <1>4, <1>6

(* What was seen and is not listed is what is left to remove. *)
LEMMA ScanDoneStep == ASSUME DiscoveryInv, ScanDone PROVE DiscoveryInv'
<1> USE DEF DiscoveryInv
<1>1. /\ UNCHANGED <<vars, server, seen, then, listed, current, sent, event, view>>
      /\ step = "scan" /\ step' = "remove" /\ todo' = {r \in Resources : seen[r] # None /\ current[r] = None}
  BY DEF ScanDone
<1>2. EventsInv' /\ Quiet /\ (NoTimeouts' <=> NoTimeouts) /\ BusInv'
  BY <1>1, LocalStep
<1>3. PublisherTypeOK'
  BY <1>1 DEF PublisherTypeOK
<1>4. StageInv'
  BY <1>1 DEF StageInv, InStage
<1>5. \A r \in Resources : Processed(r)' <=> Processed(r)
  BY Zenon, <1>1 DEF Processed, InStage
<1>6. ASSUME NEW r \in Resources, Explained(r), Told(r) PROVE Explained(r)' /\ Told(r)'
  <2>1. Explained(r)'
    BY Zenon, <1>1, <1>2, <1>5, <1>6, StaysExplained
  <2> QED
    BY Zenon, <1>1, <1>5, <1>6, <2>1 DEF Told, Awaited
<1> QED
  BY <1>2, <1>3, <1>4, <1>6

(* A publication is quiet: its handler has only been started. *)
LEMMA PublishStep ==
  ASSUME BusInv, PublisherTypeOK, EventsInv, step # "wait",
         NEW e \in EventIDs, NEW r \in Resources, NEW s \in Snapshots \cup {None}, NEW t, Publish(e, r, s, t)
  PROVE  /\ EventsInv' /\ BusInv' /\ Quiet /\ (NoTimeouts' <=> NoTimeouts)
         /\ sent' \in Nat /\ step' = "wait" /\ then' = t
         /\ event'[sent'].resource = r /\ event'[sent'].snapshot = s /\ Awaited(r)'
<1>1. /\ sent' = sent + 1 /\ sent' \in Publications /\ sent' > 0 /\ step' = "wait" /\ then' = t
      /\ result' = result
      /\ event'[sent'] = [id |-> e, resource |-> r, snapshot |-> s]
      /\ handler'[sent'][SubscriberOf(e)] = "running"
      /\ \A q \in Publications : q # sent' => event'[q] = event[q] /\ handler'[q] = handler[q]
  BY PublishEffects, SubscriberIds
<1>2. EventsInv'
  BY PublishEvents
<1>3. BusInv'
  BY PublishIsABusStep, BusInvNext DEF Next
<1>4. sent \in Nat /\ 1..sent \subseteq Publications /\ sent' \notin 1..sent
  BY <1>1 DEF PublisherTypeOK, EventsInv
<1>5. event'[sent'].id = e /\ event'[sent'].resource = r /\ event'[sent'].snapshot = s
  BY <1>1
<1>6. ~Applied(sent)'
  BY <1>1, <1>5 DEF Applied
<1>7. \A q \in 1..sent : event'[q] = event[q] /\ (Applied(q)' <=> Applied(q))
  BY Zenon, <1>1, <1>4 DEF Applied
<1>8. Quiet
  BY Zenon, <1>1, <1>4, <1>6, <1>7 DEF Quiet
<1>9. NoTimeouts' <=> NoTimeouts
  BY Zenon, <1>1 DEF NoTimeouts
<1>10. Awaited(r)'
  BY Zenon, <1>1, <1>5, <1>6 DEF Awaited
<1> QED
  BY <1>1, <1>2, <1>3, <1>4, <1>5, <1>8, <1>9, <1>10

(* A listed resource is compared with what was seen; a difference is          *)
(* published and awaited.                                                     *)
LEMMA ScanStep == ASSUME DiscoveryInv, NEW r0 \in Resources, Scan(r0) PROVE DiscoveryInv'
<1> USE DEF DiscoveryInv
<1>1. /\ step = "scan" /\ r0 \in todo /\ todo' = todo \ {r0} /\ UNCHANGED <<server, seen, listed, view>>
      /\ current' = [current EXCEPT ![r0] = listed[r0]]
  BY DEF Scan
<1>2. /\ listed[r0] \in Snapshots \cup {None} /\ current' \in Known /\ current'[r0] = listed[r0] /\ listed[r0] # None /\ current[r0] = None
      /\ \A r \in Resources : r # r0 => current'[r] = current[r]
  BY Zenon, <1>1 DEF PublisherTypeOK, Known, StageInv, InStage
<1>3. /\ EventsInv' /\ BusInv' /\ Quiet /\ (NoTimeouts' <=> NoTimeouts) /\ sent' \in Nat
      /\ \/ seen[r0] = listed[r0] /\ step' = "scan" /\ then' = then
         \/ /\ step' = "wait" /\ then' = "scan" /\ Awaited(r0)'
            /\ event'[sent'].resource = r0 /\ event'[sent'].snapshot = listed[r0]
  <2>1. CASE seen[r0] = None
    BY <1>1, <1>2, <2>1, PublishStep, DiscoveryAssumption DEF Scan
  <2>2. CASE seen[r0] \notin {None, listed[r0]}
    <3>1. Publish(Changed, r0, listed[r0], "scan")
      BY <2>2 DEF Scan
    <3> QED
      BY <1>1, <1>2, <3>1, PublishStep, DiscoveryAssumption, Zenon
  <2>3. CASE seen[r0] # None /\ seen[r0] = listed[r0]
    <3>1. UNCHANGED <<vars, sent, event, step, then>>
      BY <2>3 DEF Scan, Silent
    <3> QED
      BY <1>1, <2>3, <3>1, LocalStep DEF PublisherTypeOK
  <2> QED
    BY Zenon, <2>1, <2>2, <2>3
<1>4. PublisherTypeOK'
  BY <1>1, <1>2, <1>3 DEF PublisherTypeOK
<1>5. InStage("scan") /\ ~InStage("remove") /\ InStage("scan")' /\ ~InStage("remove")'
  BY <1>1, <1>3, Zenon DEF InStage
<1>6. /\ \A r \in Resources : r # r0 => (Processed(r)' <=> Processed(r))
      /\ ~Processed(r0) /\ Processed(r0)'
  BY <1>1, <1>2, <1>3, <1>5, Zenon DEF Processed
<1>7. StageInv'
  BY <1>1, <1>2, <1>3, <1>5, <1>6 DEF StageInv, PublisherTypeOK
<1>8. ASSUME NEW r \in Resources, Explained(r), Told(r) PROVE Explained(r)' /\ Told(r)'
  <2>1. Explained(r)'
    BY Zenon, <1>1, <1>2, <1>3, <1>6, <1>8, StaysExplained
  <2>2. Told(r)'
    BY Zenon, <1>1, <1>2, <1>3, <1>6, <1>8 DEF Told, Awaited
  <2> QED
    BY Zenon, <2>1, <2>2
<1> QED
  BY Zenon, <1>3, <1>4, <1>7, <1>8

(* A resource that is gone is published as removed. *)
LEMMA RemoveStep == ASSUME DiscoveryInv, NEW r0 \in Resources, RemoveOne(r0) PROVE DiscoveryInv'
<1> USE DEF DiscoveryInv
<1>1. /\ step = "remove" /\ r0 \in todo /\ todo' = todo \ {r0}
      /\ UNCHANGED <<server, seen, listed, current, view>>
  BY DEF RemoveOne
<1>2. /\ EventsInv' /\ BusInv' /\ Quiet /\ (NoTimeouts' <=> NoTimeouts) /\ sent' \in Nat
      /\ step' = "wait" /\ then' = "remove" /\ Awaited(r0)'
      /\ event'[sent'].resource = r0 /\ event'[sent'].snapshot = None
  BY <1>1, PublishStep, DiscoveryAssumption DEF RemoveOne
<1>3. PublisherTypeOK'
  BY <1>1, <1>2 DEF PublisherTypeOK
<1>4. InStage("remove") /\ ~InStage("scan") /\ InStage("remove")' /\ ~InStage("scan")'
  BY Zenon, <1>1, <1>2 DEF InStage
<1>5. seen[r0] # None /\ current[r0] = None
  BY Zenon, <1>1, <1>4 DEF StageInv
<1>6. /\ \A r \in Resources : r # r0 => (Processed(r)' <=> Processed(r))
      /\ ~Processed(r0) /\ Processed(r0)'
  BY Zenon, <1>1, <1>2, <1>4, <1>5 DEF Processed
<1>7. StageInv'
  BY Zenon, <1>1, <1>2, <1>4, <1>5, <1>6 DEF StageInv, PublisherTypeOK
<1>8. ASSUME NEW r \in Resources, Explained(r), Told(r) PROVE Explained(r)' /\ Told(r)'
  <2>1. Explained(r)'
    BY Zenon, <1>1, <1>2, <1>6, <1>8, StaysExplained
  <2>2. Told(r)'
    BY Zenon, <1>1, <1>2, <1>6, <1>8 DEF Told, Awaited
  <2> QED
    BY <2>1, <2>2
<1> QED
  BY <1>2, <1>3, <1>7, <1>8

(* Without timeouts, a publication that is over was taken in by its           *)
(* subscriber, or counts an error.                                            *)
LEMMA DoneIsAnswered ==
  ASSUME BusInv, EventsInv, NoTimeouts, NEW p \in 1..sent, phase[p] = "done"
  PROVE  /\ handler[p][SubscriberOf(event[p].id)] \in {"ok", "failed"}
         /\ Applied(p) <=> ~(result[p].errors > 0)
<1> DEFINE i == SubscriberOf(event[p].id)
           S == {j \in snap[p] : handler[p][j] = "failed"}
<1>1. p \in Publications /\ snap[p] = {i} /\ i \in IDs /\ ~result[p].err
  BY SubscriberIds, Zenon DEF EventsInv, NoTimeouts
<1>2. Sent(p) = snap[p] /\ result[p].errors = Cardinality(S)
  BY <1>1, CountedAnswers, Zenon DEF Accounting
<1>3. handler[p][i] \in {"ok", "failed"}
  BY Zenon, <1>1, <1>2 DEF Sent
<1>4. CASE handler[p][i] = "ok"
  <2>1. S = {}
    BY Zenon, <1>1, <1>4
  <2> QED
    BY <1>2, <1>4, <2>1, FS_EmptySet DEF Applied
<1>5. CASE handler[p][i] = "failed"
  <2>1. S = {i}
    BY Zenon, <1>1, <1>5
  <2> QED
    BY <1>2, <1>5, <2>1, FS_Singleton DEF Applied
<1> QED
  BY <1>3, <1>4, <1>5

(* PublishSync returns: the call goes on when the subscriber has taken the    *)
(* event in, and otherwise gives up, and what it has published is forgotten.  *)
LEMMA PublishedStep == ASSUME DiscoveryInv, Published PROVE DiscoveryInv'
<1> USE DEF DiscoveryInv
<1> DEFINE failed == result[sent].err \/ result[sent].errors > 0
<1>1. /\ step = "wait" /\ phase[sent] = "done" /\ step' = IF failed THEN "idle" ELSE then
      /\ UNCHANGED <<vars, server, seen, then, listed, current, todo, sent, event, view>>
  BY DEF Published
<1>2. then \in {"scan", "remove"} /\ sent \in 1..sent /\ sent \in Publications
  BY <1>1 DEF PublisherTypeOK, EventsInv
<1>3. EventsInv' /\ Quiet /\ (NoTimeouts' <=> NoTimeouts) /\ BusInv'
  BY Zenon, <1>1, <1>2, LocalStep
<1>4. PublisherTypeOK'
  BY <1>1, <1>2 DEF PublisherTypeOK
<1>5. UNCHANGED result /\ result[sent].errors \in Nat /\ result[sent].err \in BOOLEAN
  BY <1>1, <1>2 DEF vars, pubVars, BusInv, TypeOK
<1>6. CASE ~failed
  <2>1. \A s \in {"scan", "remove"} : InStage(s)' <=> InStage(s)
    BY Zenon, <1>1, <1>2, <1>6 DEF InStage
  <2>2. \A r \in Resources : Processed(r)' <=> Processed(r)
    BY <1>1, <1>2, <1>6, <2>1, Zenon DEF Processed
  <2>3. StageInv'
    BY Zenon, <1>1, <1>2, <1>6, <2>1 DEF StageInv
  <2>4. ASSUME NoTimeouts, NEW r \in Resources, Explained(r), Told(r) PROVE Explained(r)' /\ Told(r)'
    <3>1. Applied(sent)
      BY Zenon, <1>1, <1>2, <1>6, <2>4, DoneIsAnswered
    <3>2. ~Awaited(r)
      BY Zenon, <3>1 DEF Awaited
    <3>3. Explained(r)'
      BY <1>1, <1>3, <2>2, <2>4, StaysExplained
    <3> QED
      BY Zenon, <1>1, <2>2, <2>4, <3>2, <3>3 DEF Told
  <2> QED
    BY Zenon, <1>3, <1>4, <2>3, <2>4
<1>7. CASE failed
  <2>1. StageInv'
    BY Zenon, <1>1, <1>7 DEF StageInv, InStage
  <2>2. ASSUME NoTimeouts, NEW r \in Resources, Explained(r) PROVE Explained(r)' /\ Told(r)'
    <3>1. ~result[sent].err
      BY Zenon, <1>2, <2>2 DEF NoTimeouts
    <3>2. result[sent].errors > 0 /\ ~Applied(sent)
      BY Zenon, <1>1, <1>2, <1>7, <2>2, <3>1, DoneIsAnswered
    <3>3. Told(r)'
      BY Zenon, <1>1, <1>7 DEF Told, Processed
    <3>4. CASE view[r] = seen[r]
      BY Zenon, <1>1, <3>3, <3>4 DEF Explained
    <3>5. CASE view[r] # seen[r]
      <4>1. PICK p \in 1..sent : LastApplied(r, p) /\ view[r] = event[p].snapshot
        BY Zenon, <2>2, <3>5 DEF Explained
      <4>2. p # sent
        BY Zenon, <3>2, <4>1 DEF LastApplied
      <4>3. sent \in (p + 1)..sent
        BY <4>2 DEF PublisherTypeOK
      <4>4. Forgotten(p)
        BY Zenon, <3>2, <4>3 DEF Forgotten
      <4>5. p \in 1..sent' /\ LastApplied(r, p)' /\ event'[p] = event[p] /\ Forgotten(p)'
        BY Zenon, <1>3, <4>1, <4>4, QuietKeeps
      <4> QED
        BY Zenon, <1>1, <3>3, <4>1, <4>5 DEF Explained
    <3> QED
      BY <3>4, <3>5
  <2> QED
    BY Zenon, <1>3, <1>4, <2>1, <2>2
<1> QED
  BY <1>6, <1>7

(* The call is over without an error: what was listed is what was seen, and   *)
(* the subscriber was told every difference.                                  *)
LEMMA FinishStep == ASSUME DiscoveryInv, Finish PROVE DiscoveryInv'
<1> USE DEF DiscoveryInv
<1>1. /\ step = "remove" /\ todo = {} /\ seen' = current /\ step' = "idle"
      /\ UNCHANGED <<vars, server, then, listed, current, todo, sent, event, view>>
  BY DEF Finish
<1>2. EventsInv' /\ Quiet /\ (NoTimeouts' <=> NoTimeouts) /\ BusInv'
  BY <1>1, LocalStep
<1>3. PublisherTypeOK'
  BY Zenon, <1>1 DEF PublisherTypeOK
<1>4. StageInv'
  BY Zenon, <1>1 DEF StageInv, InStage
<1>5. ASSUME NEW r \in Resources, Explained(r), Told(r) PROVE Explained(r)' /\ Told(r)'
  <2>1. Told(r)'
    BY Zenon, <1>1 DEF Told, Processed
  <2>2. seen[r] # current[r] => view[r] = current[r]
    BY Zenon, <1>1, <1>5 DEF Told, Processed, Awaited, InStage
  <2>3. CASE view[r] = current[r]
    BY Zenon, <1>1, <2>1, <2>3 DEF Explained
  <2>4. CASE view[r] # current[r]
    <3>1. PICK p \in 1..sent : LastApplied(r, p) /\ view[r] = event[p].snapshot /\ Forgotten(p)
      BY Zenon, <1>5, <2>2, <2>4 DEF Explained
    <3>2. p \in 1..sent' /\ LastApplied(r, p)' /\ event'[p] = event[p] /\ Forgotten(p)'
      BY <1>2, <3>1, QuietKeeps
    <3> QED
      BY Zenon, <1>1, <2>1, <3>1, <3>2 DEF Explained
  <2> QED
    BY <2>3, <2>4
<1> QED
  BY <1>2, <1>3, <1>4, <1>5

(* The other goroutines of a publication: quiet for the subscriber. *)
LEMMA BusStepStep == ASSUME DiscoveryInv, NEW p \in Publications, BusStep(p) PROVE DiscoveryInv'
<1> USE DEF DiscoveryInv
<1>1. PublicationStep(p) /\ UNCHANGED <<server, seen, step, then, listed, current, todo, sent, event, view>>
  BY Zenon DEF BusStep, PublicationStep, discoveryVars, pubLocals
<1>2. /\ UNCHANGED <<infos, snap>>
      /\ \A q \in Publications :
           /\ phase'[q] = phase[q] \/ (phase[q] = "open" /\ phase'[q] = "done")
           /\ result[q].errors > 0 => result'[q].errors > 0
           /\ result[q].err => result'[q].err
      /\ \A q \in Publications, j \in IDs : handler[q][j] = "none" => handler'[q][j] = "none"
  BY Zenon, <1>1, PublicationEffects
<1>3. BusInv'
  BY Zenon, <1>1, BusInvNext DEF Next
<1>4. EventsInv'
  BY Zenon, <1>1, <1>2, <1>3, BusEvents
<1>5. \A q \in Publications, j \in IDs : handler'[q][j] = "ok" <=> handler[q][j] = "ok"
  <2>1. ASSUME NEW i \in IDs, HandleFailure(p, i)
        PROVE  \A q \in Publications, j \in IDs : handler'[q][j] = "ok" <=> handler[q][j] = "ok"
    BY <2>1 DEF HandleFailure, BusInv, TypeOK
  <2>2. CASE ContextEnds(p) \/ Collector(p)
    BY <2>2 DEF ContextEnds, Collector, Collect, GiveUp
  <2> QED
    BY Zenon, <2>1, <2>2 DEF BusStep
<1>6. 1..sent \subseteq Publications /\ \A q \in 1..sent : SubscriberOf(event[q].id) \in IDs
  BY SubscriberIds, Zenon DEF EventsInv
<1>7. \A q \in 1..sent : Applied(q)' <=> Applied(q)
  BY Zenon, <1>1, <1>5, <1>6 DEF Applied
<1>8. Quiet
  BY <1>1, <1>2, <1>6, <1>7 DEF Quiet, PublisherTypeOK
<1>9. NoTimeouts' => NoTimeouts
  BY <1>2 DEF NoTimeouts
<1>10. PublisherTypeOK'
  BY Zenon, <1>1 DEF PublisherTypeOK
<1>11. StageInv'
  BY Zenon, <1>1 DEF StageInv, InStage, Processed
<1>12. ASSUME NEW r \in Resources, Explained(r), Told(r) PROVE Explained(r)' /\ Told(r)'
  <2>1. Processed(r)' <=> Processed(r)
    BY <1>1, Zenon DEF Processed, InStage
  <2>2. Explained(r)'
    BY <1>1, <1>8, <1>12, <2>1, StaysExplained, Zenon
  <2>3. Awaited(r)' <=> Awaited(r)
    <3>1. step = "wait" => sent \in 1..sent
      BY DEF EventsInv, PublisherTypeOK
    <3>2. step = "wait" => (Applied(sent)' <=> Applied(sent))
      BY <1>1, <1>7, <3>1, Zenon DEF Applied
    <3> QED
      BY Zenon, <1>1, <3>2 DEF Awaited
  <2> QED
    BY <1>1, <1>12, <2>1, <2>2, <2>3, Zenon DEF Told
<1> QED
  BY <1>3, <1>4, <1>9, <1>10, <1>11, <1>12

(* Without timeouts only the handler that the publisher waits for can return: *)
(* it brings the view of one resource to what the call has listed, or fails.  *)
LEMMA HandleStep ==
  ASSUME DiscoveryInv, NEW p \in Publications, NEW i \in IDs, Handle(p, i) PROVE DiscoveryInv'
<1> USE DEF DiscoveryInv
<1>1. /\ PublicationStep(p) /\ HandlerReturns(p, i)
      /\ UNCHANGED <<server, seen, step, then, listed, current, todo, sent, event>>
  BY Zenon DEF Handle, PublicationStep, pubLocals
<1>2. /\ UNCHANGED <<infos, snap>>
      /\ \A q \in Publications :
           phase'[q] = phase[q] \/ (phase[q] = "open" /\ phase'[q] = "done")
      /\ \A q \in Publications, j \in IDs : handler[q][j] = "none" => handler'[q][j] = "none"
  BY Zenon, <1>1, PublicationEffects
<1>3. BusInv'
  BY <1>1, BusInvNext DEF Next
<1>4. EventsInv'
  BY <1>1, <1>2, <1>3, BusEvents, Zenon
<1>5. /\ handler[p][i] = "running" /\ handler'[p][i] \in {"ok", "erring"} /\ UNCHANGED result
      /\ \A q \in Publications, j \in IDs : q # p \/ j # i => handler'[q][j] = handler[q][j]
  BY <1>1 DEF HandlerReturns, BusInv, TypeOK
<1>6. p \in 1..sent /\ i = SubscriberOf(event[p].id)
  <2>1. i \in snap[p]
    BY <1>5 DEF EventsInv
  <2>2. p \in 1..sent
    BY <2>1 DEF EventsInv
  <2> QED
    BY <2>1, <2>2 DEF EventsInv
<1>7. event[p].resource \in Resources
  BY <1>6 DEF EventsInv
<1>8. 1..sent \subseteq Publications /\ \A q \in 1..sent : SubscriberOf(event[q].id) \in IDs
  BY Zenon, SubscriberIds DEF EventsInv
<1>9. StageInv'
  BY Zenon, <1>1 DEF StageInv, InStage, Processed
<1>10. \A q \in 1..sent : q # p => (Applied(q)' <=> Applied(q))
  BY Zenon, <1>1, <1>5, <1>8 DEF Applied
<1>11. ~Applied(p) /\ (Applied(p)' <=> handler'[p][i] = "ok")
  BY Zenon, <1>1, <1>5, <1>6 DEF Applied
<1>12. NoTimeouts' <=> NoTimeouts
  BY <1>5 DEF NoTimeouts
<1>13. NoTimeouts => p = sent /\ step = "wait"
  BY <1>5, <1>6, DoneIsAnswered, Zenon DEF EventsInv
<1>14. \A r \in Resources : Processed(r)' <=> Processed(r)
  BY <1>1 DEF Processed, InStage
<1>15. CASE handler'[p][i] = "erring"
  <2>1. view' = view /\ ~Applied(p)'
    BY <1>11, <1>15, Zenon DEF Handle
  <2>2. Quiet
    <3>1. sent' = sent /\ event' = event /\ result' = result /\ sent \in Nat
      BY <1>1, <1>5, Zenon DEF PublisherTypeOK
    <3>2. \A q \in 1..sent : Applied(q)' <=> Applied(q)
      BY <1>10, <1>11, <2>1, Zenon
    <3> QED BY <3>1, <3>2, QuietIfNothingSent, Zenon
  <2>3. PublisherTypeOK'
    BY Zenon, <1>1, <2>1 DEF PublisherTypeOK
  <2>4. ASSUME NoTimeouts, NEW r \in Resources, Explained(r), Told(r) PROVE Explained(r)' /\ Told(r)'
    <3>1. Explained(r)'
      BY <1>1, <1>14, <2>1, <2>2, <2>4, StaysExplained, Zenon
    <3>2. Awaited(r)' <=> Awaited(r)
      BY Zenon, <1>1, <1>11, <1>13, <2>1, <2>4 DEF Awaited, Applied
    <3> QED
      BY Zenon, <1>1, <1>14, <2>1, <2>4, <3>1, <3>2 DEF Told
  <2> QED
    BY <1>3, <1>4, <1>9, <1>12, <2>3, <2>4
<1>16. CASE handler'[p][i] = "ok"
  <2>1. view' = [view EXCEPT ![event[p].resource] = event[p].snapshot] /\ Applied(p)'
    BY Zenon, <1>11, <1>16 DEF Handle
  <2>2. event[p].snapshot \in Snapshots \cup {None}
    BY <1>6 DEF EventsInv
  <2>3. /\ view' \in Known /\ view'[event[p].resource] = event[p].snapshot
        /\ \A r \in Resources : r # event[p].resource => view'[r] = view[r]
    BY Zenon, <1>7, <2>1, <2>2 DEF PublisherTypeOK, Known
  <2>4. PublisherTypeOK'
    BY Zenon, <1>1, <2>3 DEF PublisherTypeOK
  <2>5. ASSUME NoTimeouts, NEW r \in Resources, Explained(r), Told(r) PROVE Explained(r)' /\ Told(r)'
    <3>1. CASE r = event[p].resource
      <4>1. p = sent /\ Processed(r) /\ view'[r] = current[r]
        BY <1>13, <2>3, <2>5, <3>1, Zenon DEF StageInv
      <4>2. LastApplied(r, p)'
        BY <1>1, <2>1, <3>1, <4>1 DEF LastApplied, PublisherTypeOK
      <4> QED
        BY Zenon, <1>1, <1>6, <1>14, <2>3, <3>1, <4>1, <4>2 DEF Explained, Told
    <3>2. CASE r # event[p].resource
      <4>1. view'[r] = view[r]
        BY <2>3, <3>2, Zenon
      <4>2. \A q \in 1..sent : LastApplied(r, q) => LastApplied(r, q)'
        BY <1>1, <1>6, <1>10, <3>2 DEF LastApplied, PublisherTypeOK
      <4>3. \A q \in 1..sent : Forgotten(q) => Forgotten(q)'
        BY Zenon, <1>1, <1>5 DEF Forgotten
      <4>4. Explained(r)'
        BY <1>1, <1>14, <2>5, <4>1, <4>2, <4>3, Zenon DEF Explained
      <4>5. ~Awaited(r)
        BY <1>13, <2>5, <3>2 DEF Awaited
      <4> QED
        BY <1>1, <1>14, <2>5, <4>1, <4>4, <4>5, Zenon DEF Told
    <3> QED
      BY Zenon, <3>1, <3>2
  <2> QED
    BY <1>3, <1>4, <1>9, <1>12, <2>4, <2>5
<1> QED
  BY <1>5, <1>15, <1>16, Zenon

(* Every step of the publisher, the subscriber and the bus. *)
LEMMA DiscoveryNext == DiscoveryInv /\ [DNext]_allVars => DiscoveryInv'
BY ServerStep, DiscoverStep, ScanDoneStep, ScanStep, RemoveStep, PublishedStep, FinishStep,
   BusStepStep, HandleStep DEF DNext

(* After a PublishChanges that returned nil the subscriber knows every        *)
(* resource as the call has listed it, or as the last event it took in of a   *)
(* call that failed later (discoveryevents.go:124): for any number of         *)
(* resources, calls, events and failing handlers, as long as no publication   *)
(* timed out.                                                                 *)
THEOREM SubscriberFollows == DSpec => []ViewFollows
<1>1. DiscoveryInv => ViewFollows
  BY DEF DiscoveryInv, ViewFollows, Explained, Processed
<1> QED
  BY <1>1, DiscoveryInit, DiscoveryNext, PTL DEF DSpec

-----------------------------------------------------------------------------
(* dynamicwatch.Registry, for any number of reconciles. *)

Names == PluralNames \cup {NoGroup, NoNames}
KindsTypeOK ==
  /\ crd \in Names
  /\ looker \in [Lookers -> [pc : {"idle", "resolve", "set", "watch"}, names : Names]]
  /\ watched \in BOOLEAN /\ watches \in Nat

\* Who is about to call Watch holds the mutex, and nobody has watched before:
\* the check under the mutex is still true when Watch returns.
WatcherIsAlone == \A c \in Lookers : looker[c].pc = "watch" => regLock = c /\ ~watched

KindsInv == KindsTypeOK /\ WatcherIsAlone /\ WatchedOnce

-----------------------------------------------------------------------------
(* The registry of NewRegistry has no watch and its mutex is free. *)
LEMMA KindsInvInit == KindsInit => KindsInv
<1> SUFFICES ASSUME KindsInit PROVE KindsInv
  OBVIOUS
<1>1. KindsTypeOK
  BY Zenon DEF KindsInit, KindsTypeOK, Names, Idler
<1>2. WatcherIsAlone
  BY DEF KindsInit, WatcherIsAlone, Idler
<1>3. WatchedOnce
  BY DEF KindsInit, WatchedOnce
<1> QED
  BY <1>1, <1>2, <1>3 DEF KindsInv

(* Entering a step of EnsureWatch or Get changes one goroutine only. *)
LEMMA EnterOne ==
  ASSUME KindsTypeOK, NEW c \in Lookers, NEW pc \in {"idle", "resolve", "set", "watch"},
         NEW names \in Names, Enter(c, pc, names)
  PROVE  /\ looker' \in [Lookers -> [pc : {"idle", "resolve", "set", "watch"}, names : Names]]
         /\ looker'[c].pc = pc
         /\ \A d \in Lookers \ {c} : looker'[d] = looker[d]
BY DEF KindsTypeOK, Enter

(* No step of a lookup, of another reconcile or of the cluster gives a kind a  *)
(* second watch, or marks it without one.                                     *)
LEMMA KindsInvNext == KindsInv /\ [KindsNext]_kindVars => KindsInv'
<1> SUFFICES ASSUME KindsInv, [KindsNext]_kindVars PROVE KindsInv'
  OBVIOUS
<1> USE DEF KindsInv
<1>n. NoNames \in Names /\ NoGroup \in Names
  BY DEF Names
<1>1. CASE CrdChanges
  BY <1>1 DEF CrdChanges, KindsTypeOK, WatcherIsAlone, WatchedOnce, Names
<1>2. CASE TimePasses
  BY <1>2 DEF TimePasses, KindsTypeOK, WatcherIsAlone, WatchedOnce
<1>3. ASSUME NEW c \in Lookers, Lookup(c) \/ ResolveAPINames(c) \/ SetNames(c) PROVE KindsInv'
  <2>1. UNCHANGED <<regLock, watched, watches, crd>>
    BY Zenon, <1>3 DEF Lookup, ResolveAPINames, SetNames
  <2>2. UNCHANGED looker \/ \E pc \in {"idle", "resolve", "set"}, names \in Names : Enter(c, pc, names)
    BY <1>3, <1>n DEF Lookup, ResolveAPINames, SetNames, KindsTypeOK
  <2>3. CASE UNCHANGED looker
    BY <2>1, <2>3 DEF KindsTypeOK, WatcherIsAlone, WatchedOnce
  <2>4. ASSUME NEW pc \in {"idle", "resolve", "set"}, NEW names \in Names, Enter(c, pc, names)
        PROVE  KindsInv'
    <3>1. /\ looker' \in [Lookers -> [pc : {"idle", "resolve", "set", "watch"}, names : Names]]
          /\ looker'[c].pc = pc
          /\ \A d \in Lookers \ {c} : looker'[d] = looker[d]
      BY <2>4, EnterOne
    <3> QED
      BY Zenon, <2>1, <3>1 DEF KindsTypeOK, WatcherIsAlone, WatchedOnce
  <2> QED
    BY Zenon, <2>2, <2>3, <2>4
<1>4. ASSUME NEW c \in Lookers, EnsureWatch(c) PROVE KindsInv'
  <2>1. CASE watched
    BY <1>4, <2>1 DEF EnsureWatch, KindsTypeOK, WatcherIsAlone, WatchedOnce
  <2>2. CASE ~watched
    <3>1. Enter(c, "watch", NoNames) /\ regLock = Unlocked /\ regLock' = c
      BY <1>4, <2>2 DEF EnsureWatch
    <3>2. /\ looker' \in [Lookers -> [pc : {"idle", "resolve", "set", "watch"}, names : Names]]
          /\ \A d \in Lookers \ {c} : looker'[d] = looker[d]
      BY <3>1, <1>n, EnterOne
    <3>3. \A d \in Lookers : looker[d].pc # "watch"
      BY <3>1, LookersAssumption DEF WatcherIsAlone
    <3> QED
      BY Zenon, <1>4, <2>2, <3>1, <3>2, <3>3 DEF EnsureWatch, KindsTypeOK, WatcherIsAlone, WatchedOnce
  <2> QED
    BY <2>1, <2>2
<1>5. ASSUME NEW c \in Lookers, Watch(c) PROVE KindsInv'
  <2>1. regLock = c /\ ~watched /\ Enter(c, "idle", NoNames)
    BY Zenon, <1>5 DEF Watch, WatcherIsAlone
  <2>2. /\ looker' \in [Lookers -> [pc : {"idle", "resolve", "set", "watch"}, names : Names]]
        /\ looker'[c].pc = "idle"
        /\ \A d \in Lookers \ {c} : looker'[d] = looker[d]
    BY Zenon, <2>1, <1>n, EnterOne
  <2>3. WatcherIsAlone'
    BY Zenon, <2>1, <2>2 DEF WatcherIsAlone
  <2>4. watches = 0
    BY <2>1 DEF KindsTypeOK, WatchedOnce
  <2>5. CASE watches' = watches + 1 /\ watched' = TRUE
    <3>1. watches' = 1
      BY <2>4, <2>5
    <3>2. WatchedOnce'
      BY <2>5, <3>1 DEF WatchedOnce
    <3>3. KindsTypeOK'
      BY <1>5, <2>2, <2>5, <3>1 DEF Watch, KindsTypeOK
    <3> QED
      BY <2>3, <3>2, <3>3
  <2>6. CASE UNCHANGED <<watched, watches>>
    <3>1. WatchedOnce'
      BY <2>6 DEF WatchedOnce
    <3>2. KindsTypeOK'
      BY <1>5, <2>2, <2>6 DEF Watch, KindsTypeOK
    <3> QED
      BY <2>3, <3>1, <3>2
  <2> QED
    BY Zenon, <1>5, <2>5, <2>6 DEF Watch
<1>6. CASE UNCHANGED kindVars
  BY <1>6 DEF kindVars, KindsTypeOK, WatcherIsAlone, WatchedOnce
<1> QED
  BY <1>1, <1>2, <1>3, <1>4, <1>5, <1>6 DEF KindsNext

(* A kind is watched at most once, and counts as watched exactly if it is     *)
(* (EnsureWatch, dynamicwatch.go:47-64), however many reconciles meet it at   *)
(* once and however often Watch fails.                                        *)
THEOREM WatchedOnlyOnce == KindsSpec => []WatchedOnce
<1>1. KindsInv => WatchedOnce
  BY DEF KindsInv
<1> QED
  BY KindsInvInit, KindsInvNext, <1>1, PTL DEF KindsSpec
=============================================================================
