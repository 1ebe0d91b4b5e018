----------------------------- MODULE ExpiringMap -----------------------------
(***************************************************************************)
(* What a user of cache.TTLCache relies on: a map that may forget a key at *)
(* any time, but whose hits are the last value stored under the key, not   *)
(* taken away since and not older than its time to live.                   *)
(***************************************************************************)
EXTENDS Integers

CONSTANTS Keys, Values, TTLs, MaxTime, None

VARIABLES map, now, reply

vars == <<map, now, reply>>


Fresh(k) == map[k] # None /\ now <= map[k].expiry

Init == map = [k \in Keys |-> None] /\ now = 0 /\ reply = None

Forget(S) == [k \in Keys |-> IF k \in S THEN None ELSE map[k]]

\* Storing a key may push other keys out.
Put(k, v, ttl) ==
  /\ \E S \in SUBSET (Keys \ {k}) :
       map' = [Forget(S) EXCEPT ![k] = [value |-> v, expiry |-> now + ttl]]
  /\ reply' = None /\ UNCHANGED now

\* A lookup hits exactly the fresh keys; it may take the key away.
Lookup(k) ==
  /\ IF Fresh(k)
       THEN reply' = [key |-> k, value |-> map[k].value, ok |-> TRUE]
       ELSE \E v \in Values \cup {None} : reply' = [key |-> k, value |-> v, ok |-> FALSE]
  /\ map' \in {map, Forget({k})}
  /\ UNCHANGED now

Drop(S) == map' = Forget(S) /\ reply' = None /\ UNCHANGED now

Tick == now < MaxTime /\ now' = now + 1 /\ UNCHANGED <<map, reply>>

Next ==
  \/ \E k \in Keys, v \in Values, ttl \in TTLs : Put(k, v, ttl)
  \/ \E k \in Keys : Lookup(k)
  \/ \E S \in SUBSET Keys : Drop(S)
  \/ Tick

Spec == Init /\ [][Next]_vars
=============================================================================
