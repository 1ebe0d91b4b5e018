------------------------------ MODULE EventBus -------------------------------
(***************************************************************************)
(* eventbus.Bus: subscriptions under a mutex; a publication copies the     *)
(* subscriptions of its event, runs every handler in a goroutine of its    *)
(* own, and a collector goroutine counts their results until all are in or *)
(* the publish context ends.                                               *)
(***************************************************************************)
EXTENDS Integers, FiniteSets

CONSTANTS
  EventIDs,
  Publications,    \* calls of PublishAsync; PublishSync waits for one
  MaxID,           \* bound on subscription ids
  HandlersMayFail, \* a handler may return an error or panic
  CanEnd           \* the publish context may end: a timeout or a cancellation

ASSUME BusAssumption ==
  MaxID \in Nat /\ HandlersMayFail \in BOOLEAN /\ CanEnd \in BOOLEAN

IDs == 0..MaxID

VARIABLES
  nextID, infos,                   \* the bus
  phase, snap, handler, ctxDone,   \* per publication: its goroutines
  remaining, result,               \* per publication: its collector
  taken,                           \* per publication: received from the results channel
  hooked                           \* per publication: reported to the failure hook

busVars == <<nextID, infos>>
pubVars == <<phase, snap, handler, ctxDone, remaining, result, taken, hooked>>
vars == <<busVars, pubVars>>

NoResult == [delivered |-> 0, pending |-> 0, errors |-> 0, err |-> FALSE]

\* Mutant: the result is sent before the failure hook is called.
SentEarly(p) == {i \in snap[p] : handler[p][i] \in {"ok", "erring", "failed"}}

\* What a handler's goroutine has put on the buffered results channel.
Sent(p) == {i \in snap[p] : handler[p][i] \in {"ok", "failed"}}

TypeOK ==
  /\ nextID \in 0..(MaxID + 1)
  /\ infos \in [EventIDs -> SUBSET IDs]
  /\ phase \in [Publications -> {"unused", "open", "done"}]
  /\ snap \in [Publications -> SUBSET IDs]
  /\ handler \in [Publications -> [IDs -> {"none", "running", "erring", "ok", "failed"}]]
  /\ ctxDone \in [Publications -> BOOLEAN]
  /\ remaining \in [Publications -> Nat]
  /\ result \in [Publications -> [delivered : Nat, pending : Nat, errors : Nat, err : BOOLEAN]]
  /\ taken \in [Publications -> SUBSET IDs]
  /\ hooked \in [Publications -> SUBSET IDs]

Init ==
  /\ nextID = 0 /\ infos = [e \in EventIDs |-> {}]
  /\ phase = [p \in Publications |-> "unused"]
  /\ snap = [p \in Publications |-> {}]
  /\ handler = [p \in Publications |-> [i \in IDs |-> "none"]]
  /\ ctxDone = [p \in Publications |-> FALSE]
  /\ remaining = [p \in Publications |-> 0]
  /\ result = [p \in Publications |-> NoResult]
  /\ taken = [p \in Publications |-> {}]
  /\ hooked = [p \in Publications |-> {}]

Subscribe(e) ==
  /\ nextID <= MaxID
  /\ infos' = [infos EXCEPT ![e] = @ \cup {nextID}]
  /\ nextID' = nextID + 1
  /\ UNCHANGED pubVars

\* An unknown or already removed subscription is ignored.
Unsubscribe(e, i) ==
  /\ infos' = [infos EXCEPT ![e] = @ \ {i}]
  /\ UNCHANGED <<nextID, pubVars>>

\* The subscriptions of the event, copied under the mutex.
copySubscriptions(e) == infos[e]

PublishAsync(p, e) ==
  /\ phase[p] = "unused"
  /\ LET subs == copySubscriptions(e)
     IN  /\ phase' = [phase EXCEPT ![p] = IF subs = {} THEN "done" ELSE "open"]
         /\ snap' = [snap EXCEPT ![p] = subs]
         /\ handler' = [handler EXCEPT ![p] = [i \in IDs |-> IF i \in subs THEN "running" ELSE "none"]]
         /\ remaining' = [remaining EXCEPT ![p] = Cardinality(subs)]
  /\ UNCHANGED <<busVars, ctxDone, result, taken, hooked>>

\* A handler returns nil, or it returns an error or panics, which recover turns
\* into an error; the failure hook is called before the result is sent.
HandlerReturns(p, i) ==
  /\ handler[p][i] = "running"
  /\ \E h \in {"ok"} \cup (IF HandlersMayFail THEN {"erring"} ELSE {}) :
       handler' = [handler EXCEPT ![p][i] = h]
  /\ UNCHANGED <<busVars, phase, snap, ctxDone, remaining, result, taken, hooked>>

HandleFailure(p, i) ==
  /\ handler[p][i] = "erring"
  /\ hooked' = [hooked EXCEPT ![p] = @ \cup {i}]
  /\ handler' = [handler EXCEPT ![p][i] = "failed"]
  /\ UNCHANGED <<busVars, phase, snap, ctxDone, remaining, result, taken>>

\* The publish timeout expires or the caller's context is cancelled.
ContextEnds(p) ==
  /\ CanEnd /\ phase[p] = "open" /\ ~ctxDone[p]
  /\ ctxDone' = [ctxDone EXCEPT ![p] = TRUE]
  /\ UNCHANGED <<busVars, phase, snap, handler, remaining, result, taken, hooked>>

\* The collector receives a result; the last one completes the publication.
Collect(p, i) ==
  /\ phase[p] = "open" /\ i \in Sent(p) \ taken[p]
  /\ taken' = [taken EXCEPT ![p] = @ \cup {i}]
  /\ remaining' = [remaining EXCEPT ![p] = @ - 1]
  /\ result' = [result EXCEPT ![p].delivered = @ + 1,
                              ![p].errors = IF handler[p][i] = "failed" THEN @ + 1 ELSE @]
  /\ phase' = [phase EXCEPT ![p] = IF remaining[p] = 1 THEN "done" ELSE @]
  /\ UNCHANGED <<busVars, snap, handler, ctxDone, hooked>>

\* Mutant: the context is only looked at first.
GiveUpFirst(p) ==
  /\ phase[p] = "open" /\ ctxDone[p] /\ taken[p] = {}
  /\ result' = [result EXCEPT ![p].pending = remaining[p], ![p].err = TRUE]
  /\ phase' = [phase EXCEPT ![p] = "done"]
  /\ UNCHANGED <<busVars, snap, handler, ctxDone, remaining, taken, hooked>>

\* The collector sees the context end first.
GiveUp(p) ==
  /\ phase[p] = "open" /\ ctxDone[p]
  /\ result' = [result EXCEPT ![p].pending = remaining[p], ![p].err = TRUE]
  /\ phase' = [phase EXCEPT ![p] = "done"]
  /\ UNCHANGED <<busVars, snap, handler, ctxDone, remaining, taken, hooked>>

Collector(p) == GiveUp(p) \/ \E i \in IDs : Collect(p, i)

BusNext ==
  \/ \E e \in EventIDs : Subscribe(e) \/ \E i \in IDs : Unsubscribe(e, i)
  \/ \E p \in Publications, e \in EventIDs : PublishAsync(p, e)

PublicationStep(p) ==
  \/ \E i \in IDs : HandlerReturns(p, i) \/ HandleFailure(p, i)
  \/ ContextEnds(p) \/ Collector(p)

Next == BusNext \/ \E p \in Publications : PublicationStep(p)

\* The goroutines of the bus are scheduled and a context that can end does; a
\* handler is the subscriber's code and may hang.
Spec ==
  /\ Init /\ [][Next]_vars
  /\ \A p \in Publications : WF_vars(Collector(p)) /\ WF_vars(ContextEnds(p))

-----------------------------------------------------------------------------
(* Properties *)

\* PublishResult accounts for every subscription of the snapshot exactly once.
\* Without Err, every handler has run to its end, and Errors counts the failed
\* ones, each of which the failure hook has already seen.
Accounting ==
  \A p \in Publications : phase[p] = "done" =>
    /\ result[p].delivered + result[p].pending = Cardinality(snap[p])
    /\ ~result[p].err =>
         /\ result[p].pending = 0
         /\ Sent(p) = snap[p]
         /\ result[p].errors = Cardinality({i \in snap[p] : handler[p][i] = "failed"})
         /\ \A i \in snap[p] : handler[p][i] = "failed" => i \in hooked[p]

\* A publication whose context can end is answered, although a handler hangs.
PublishReturns ==
  \A p \in Publications : phase[p] = "open" ~> phase[p] = "done"
=============================================================================
