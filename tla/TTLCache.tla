------------------------------ MODULE TTLCache -------------------------------
(***************************************************************************)
(* cache.TTLCache: a mutex-protected map with a time to live per entry, a  *)
(* recency list that bounds its size, and a goroutine that sweeps expired  *)
(* entries until the cache is closed.  An operation that holds the mutex   *)
(* for one step is one action; the two loops over the items, Keys and the  *)
(* sweep, hold it for a step per item while the clock goes on.             *)
(***************************************************************************)
EXTENDS Integers, Sequences, FiniteSets

CONSTANTS
  Keys, Values, None,
  TTLs,         \* times to live that callers pass
  MaxEntries,   \* WithMaxEntries; 0 is unbounded
  CleanupOn,    \* WithCleanupInterval is positive
  MaxTime       \* bound on the clock

ASSUME CacheAssumption ==
  /\ IsFiniteSet(Keys)
  /\ MaxEntries \in Nat /\ CleanupOn \in BOOLEAN
  /\ TTLs \subseteq Int /\ MaxTime \in Nat
  /\ None \notin Values /\ None \notin [value : Values, expiry : Int]

VARIABLES
  items,    \* key -> value and expiry, or None
  order,    \* the keys, most recently used first
  now,
  mu,       \* who holds the mutex across steps: "free", "keys" or "sweep"
  todo,     \* the items the loop has still to visit
  listed,   \* what Keys has collected
  closed,   \* stopCh is closed
  running,  \* the cleanup goroutine runs
  reply,    \* what the last call returned
  newer     \* history: the pairs of keys whose first was used after the second

vars == <<items, order, now, mu, todo, listed, closed, running, reply, newer>>

Item == [value : Values, expiry : Int]

Cached == {k \in Keys : items[k] # None}

\* Mutant: an entry expires at the instant of its expiry.
isExpiredEarly(k) == now >= items[k].expiry

isExpired(k) == now > items[k].expiry

\* container/list: the element of key k unlinked.
Position(s, k) == CHOOSE i \in 1..Len(s) : s[i] = k

Unlinked(s, k) ==
  [i \in 1..(Len(s) - 1) |-> IF i < Position(s, k) THEN s[i] ELSE s[i + 1]]

PushFront(s, k) == <<k>> \o s

\* Mutant: a use does not change the order.
MoveToFrontNot(s, k) == s

MoveToFront(s, k) == PushFront(Unlinked(s, k), k)

\* k becomes the most recently used key.
Touched(k) == {p \in newer : p[2] # k} \cup {<<k, j>> : j \in Keys \ {k}}

Result(k, v, ok) == [key |-> k, value |-> v, ok |-> ok]

TypeOK ==
  /\ items \in [Keys -> Item \cup {None}]
  /\ order \in Seq(Keys)
  /\ now \in 0..MaxTime
  /\ mu \in {"free", "keys", "sweep"}
  /\ todo \subseteq Keys /\ listed \subseteq Keys
  /\ closed \in BOOLEAN /\ running \in BOOLEAN
  /\ newer \subseteq Keys \X Keys

Init ==
  /\ items = [k \in Keys |-> None] /\ order = <<>> /\ now = 0
  /\ mu = "free" /\ todo = {} /\ listed = {}
  /\ closed = FALSE /\ running = CleanupOn
  /\ reply = None /\ newer = {}

removeEntry(k) ==
  items' = [items EXCEPT ![k] = None] /\ order' = Unlinked(order, k)

\* The key that evictOldest drops from the list s.
Oldest(s) == s[Len(s)]

\* Set of a new key pushes it in front and evicts when that is one too many.
Inserted(k, item) ==
  LET s == PushFront(order, k)
      m == [items EXCEPT ![k] = item]
  IN  IF MaxEntries > 0 /\ Cardinality(Cached \cup {k}) > MaxEntries
        THEN /\ items' = [m EXCEPT ![Oldest(s)] = None]
             /\ order' = Unlinked(s, Oldest(s))
        ELSE items' = m /\ order' = s

Set(k, v, ttl) ==
  LET item == [value |-> v, expiry |-> now + ttl]
  IN  /\ mu = "free"
      /\ IF items[k] # None
           THEN items' = [items EXCEPT ![k] = item] /\ order' = MoveToFront(order, k)
           ELSE Inserted(k, item)
      /\ newer' = Touched(k) /\ reply' = None
      /\ UNCHANGED <<now, mu, todo, listed, closed, running>>

Get(k) ==
  /\ mu = "free"
  /\ \/ /\ items[k] = None
        /\ reply' = Result(k, None, FALSE)
        /\ UNCHANGED <<items, order, newer>>
     \/ /\ items[k] # None /\ isExpired(k)
        /\ reply' = Result(k, items[k].value, FALSE)
        /\ removeEntry(k) /\ UNCHANGED newer
     \/ /\ items[k] # None /\ ~isExpired(k)
        /\ reply' = Result(k, items[k].value, TRUE)
        /\ order' = MoveToFront(order, k) /\ newer' = Touched(k)
        /\ UNCHANGED items
  /\ UNCHANGED <<now, mu, todo, listed, closed, running>>

Remove(k) ==
  /\ mu = "free"
  /\ IF items[k] # None THEN removeEntry(k) ELSE UNCHANGED <<items, order>>
  /\ reply' = None
  /\ UNCHANGED <<now, mu, todo, listed, closed, running, newer>>

Pop(k) ==
  /\ mu = "free"
  /\ IF items[k] # None
       THEN removeEntry(k) /\ reply' = Result(k, items[k].value, ~isExpired(k))
       ELSE UNCHANGED <<items, order>> /\ reply' = Result(k, None, FALSE)
  /\ UNCHANGED <<now, mu, todo, listed, closed, running, newer>>

Clear ==
  /\ mu = "free"
  /\ items' = [k \in Keys |-> None] /\ order' = <<>> /\ reply' = None
  /\ UNCHANGED <<now, mu, todo, listed, closed, running, newer>>

\* Keys takes the mutex, drops what has expired and collects the rest.
KeysBegin ==
  /\ mu = "free" /\ mu' = "keys"
  /\ todo' = Cached /\ listed' = {}
  /\ UNCHANGED <<items, order, now, closed, running, reply, newer>>

KeysVisit(k) ==
  /\ mu = "keys" /\ k \in todo /\ todo' = todo \ {k}
  /\ IF isExpired(k)
       THEN removeEntry(k) /\ reply' = None /\ UNCHANGED listed
       ELSE listed' = listed \cup {k} /\ UNCHANGED <<items, order, reply>>
  /\ UNCHANGED <<now, mu, closed, running, newer>>

\* The sweep of the cleanup goroutine, on a tick.
SweepBegin ==
  /\ running /\ mu = "free" /\ mu' = "sweep"
  /\ todo' = Cached
  /\ UNCHANGED <<items, order, now, listed, closed, running, reply, newer>>

SweepVisit(k) ==
  /\ mu = "sweep" /\ k \in todo /\ todo' = todo \ {k}
  /\ IF isExpired(k)
       THEN removeEntry(k) /\ reply' = None
       ELSE UNCHANGED <<items, order, reply>>
  /\ UNCHANGED <<now, mu, listed, closed, running, newer>>

Unlock ==
  /\ mu # "free" /\ todo = {} /\ mu' = "free"
  /\ UNCHANGED <<items, order, now, todo, listed, closed, running, reply, newer>>

\* Close may be called any number of times; stopOnce closes stopCh once.
Close ==
  /\ closed' = TRUE
  /\ UNCHANGED <<items, order, now, mu, todo, listed, running, reply, newer>>

\* The goroutine receives from stopCh, between two sweeps.
CleanupStops ==
  /\ closed /\ running /\ mu # "sweep" /\ running' = FALSE
  /\ UNCHANGED <<items, order, now, mu, todo, listed, closed, reply, newer>>

Tick ==
  /\ now < MaxTime /\ now' = now + 1
  /\ UNCHANGED <<items, order, mu, todo, listed, closed, running, reply, newer>>

Loop == Unlock \/ \E k \in Keys : KeysVisit(k) \/ SweepVisit(k)

Next ==
  \/ \E k \in Keys, v \in Values, ttl \in TTLs : Set(k, v, ttl)
  \/ \E k \in Keys : Get(k) \/ Remove(k) \/ Pop(k)
  \/ Clear \/ KeysBegin \/ SweepBegin \/ Loop
  \/ Close \/ CleanupStops \/ Tick

Spec == Init /\ [][Next]_vars

-----------------------------------------------------------------------------
(* Properties *)

Holds(s, k) == \E i \in 1..Len(s) : s[i] = k
Distinct(s) == \A i, j \in 1..Len(s) : s[i] = s[j] => i = j

\* The list holds exactly the keys of the map, each once: removeEntry always
\* finds its element and evictOldest always finds its item.
OrderMatchesItems ==
  /\ \A k \in Keys : items[k] # None <=> Holds(order, k)
  /\ Distinct(order)

\* The cache never holds more entries than WithMaxEntries allows.
SizeBounded == MaxEntries > 0 => Cardinality(Cached) <= MaxEntries

EvictedIsOldest ==
  \A k \in Keys, v \in Values, ttl \in TTLs : Set(k, v, ttl) =>
    \A gone, kept \in Keys :
      items[gone] # None /\ items'[gone] = None /\ items'[kept] # None => <<kept, gone>> \in newer'
\* A key that Set evicts was used less recently than every key it keeps.
EvictsLeastRecentlyUsed == [][EvictedIsOldest]_vars

\* Nothing but its own ttl, removal or eviction by another key hides a value: the
\* hits are those of the map the cache promises to be.
Promise == INSTANCE ExpiringMap WITH map <- items
RefinesExpiringMap == Promise!Spec
=============================================================================
