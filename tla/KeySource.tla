----------------------------- MODULE KeySource -------------------------------
(***************************************************************************)
(* jwtutil.JWKSKeySource: the key set of authn's JWKS document, cached, and *)
(* refreshed under a mutex that is held across the HTTP round trip. The    *)
(* code compares instants with fixed intervals only, so the model keeps    *)
(* ages, in ticks, that stop growing once they have passed every interval. *)
(* A kid names one key pair for ever; a key is identified with its kid.    *)
(***************************************************************************)
EXTENDS Integers, Sequences, FiniteSets

CONSTANTS
  Requests, Kids, NoKid,      \* NoKid: the empty kid, of a token or of an entry
  TTL, MinRefreshInterval,    \* intervals of the source
  Timeout,                    \* of its HTTP client
  Documents                   \* what authn may publish

ASSUME SourceAssumption ==
  /\ TTL \in Nat \ {0} /\ MinRefreshInterval \in Nat \ {0} /\ Timeout \in Nat
  /\ NoKid \notin Kids
  /\ \A d \in Documents : \A k \in Kids \cup {NoKid} : d[k] \in {"absent", "RS256", "other"}

VARIABLES
  published, up,             \* authn: its document, whether it answers in time
  keys,                      \* the cached key set
  fetchedAge, attemptAge,    \* since fetchedAt and lastAttempt
  mu,                        \* the request that holds the mutex
  elapsed, doc,              \* of the fetch in progress: its duration, the usable keys received
  req,                       \* calls of PublicKey
  delivered, docAge, failed  \* history: see the properties

authnVars == <<published, up>>
cacheVars == <<keys, fetchedAge, attemptAge>>
historyVars == <<delivered, docAge, failed>>
sourceVars == <<authnVars, cacheVars, mu, elapsed, doc, req, historyVars>>

AllKids == Kids \cup {NoKid}
Unavailable == "unavailable"
Nobody == "nobody"

ASSUME NamesAssumption == Nobody \notin Requests /\ Unavailable \notin AllKids

NoCall == [pc |-> "idle", kid |-> NoKid, answer |-> Unavailable]

Larger(a, b) == IF a >= b THEN a ELSE b
Bound == Larger(TTL + Timeout, MinRefreshInterval)
Older(age, interval) == IF age < interval THEN age + 1 ELSE age

TypeOK ==
  /\ published \in Documents /\ up \in BOOLEAN
  /\ keys \subseteq AllKids
  /\ fetchedAge \in 0..TTL /\ docAge \in 0..Bound
  /\ attemptAge \in 0..MinRefreshInterval
  /\ mu \in Requests \cup {Nobody} /\ elapsed \in 0..Timeout
  /\ doc \in {<<>>} \cup {<<set>> : set \in SUBSET AllKids}
  /\ req \in [Requests -> [pc : {"idle", "lock", "fetch", "done"}, kid : AllKids,
                           answer : AllKids \cup {Unavailable}]]
  /\ \A r \in Requests : mu = r <=> req[r].pc = "fetch"
  /\ delivered \subseteq AllKids /\ failed \in BOOLEAN

\* NewJWKSKeySource fetches nothing; the zero instants are older than every interval.
SourceInit ==
  /\ published \in Documents /\ up \in BOOLEAN
  /\ keys = {} /\ fetchedAge = TTL /\ attemptAge = MinRefreshInterval
  /\ mu = Nobody /\ elapsed = 0 /\ doc = <<>>
  /\ req = [r \in Requests |-> NoCall]
  /\ delivered = {} /\ docAge = Bound /\ failed = FALSE

-----------------------------------------------------------------------------
(* authn and time.                                                          *)

Publish(d) ==
  /\ published # d /\ published' = d
  /\ UNCHANGED <<up, cacheVars, mu, elapsed, doc, req, historyVars>>

Toggle == up' = ~up /\ UNCHANGED <<published, cacheVars, mu, elapsed, doc, req, historyVars>>

\* The HTTP client's timeout bounds the time a fetch may take.
Tick ==
  /\ mu # Nobody => elapsed < Timeout
  /\ elapsed' = IF mu # Nobody THEN elapsed + 1 ELSE elapsed
  /\ fetchedAge' = Older(fetchedAge, TTL) /\ docAge' = Older(docAge, Bound)
  /\ attemptAge' = Older(attemptAge, MinRefreshInterval)
  /\ UNCHANGED <<authnVars, keys, mu, doc, req, delivered, failed>>

-----------------------------------------------------------------------------
(* PublicKey.                                                               *)

Ask(r, kid) ==
  /\ req[r].pc = "idle"
  /\ req' = [req EXCEPT ![r] = [pc |-> "lock", kid |-> kid, answer |-> Unavailable]]
  /\ UNCHANGED <<authnVars, cacheVars, mu, elapsed, doc, historyVars>>

\* lookupLocked: without a kid only a set of one key resolves.
lookupLocked(set, kid) == IF kid # NoKid THEN kid \in set ELSE Cardinality(set) = 1
Lookup(set, kid) == IF kid # NoKid THEN kid ELSE CHOOSE k \in set : TRUE

Answer(r, set) ==
  req' = [req EXCEPT ![r].pc = "done",
            ![r].answer = IF lookupLocked(set, req[r].kid) THEN Lookup(set, req[r].kid) ELSE Unavailable]

\* Mutant: a known key is served whatever its age.
FreshForEver(r) == lookupLocked(keys, req[r].kid)

Fresh(r) == lookupLocked(keys, req[r].kid) /\ fetchedAge < TTL

\* refreshLocked up to its request: the attempt is recorded before the outcome is known.
StartFetch(r) ==
  /\ attemptAge' = 0
  /\ mu' = r /\ elapsed' = 0
  /\ req' = [req EXCEPT ![r].pc = "fetch"]
  /\ UNCHANGED <<keys, fetchedAge, doc, delivered, docAge, failed>>

\* Mutant: a call that is throttled starts the interval again.
PublicKeyPushesBack(r) ==
  /\ req[r].pc = "lock" /\ mu = Nobody
  /\ IF ~Fresh(r) /\ attemptAge >= MinRefreshInterval
     THEN StartFetch(r)
     ELSE /\ attemptAge' = IF Fresh(r) THEN attemptAge ELSE 0
          /\ Answer(r, keys) /\ UNCHANGED <<keys, fetchedAge, mu, elapsed, doc, historyVars>>
  /\ UNCHANGED authnVars

\* Under the mutex: a fresh key, a refetch, or the cache as it is while refetches are throttled.
PublicKey(r) ==
  /\ req[r].pc = "lock" /\ mu = Nobody
  /\ IF ~Fresh(r) /\ attemptAge >= MinRefreshInterval
     THEN StartFetch(r)
     ELSE Answer(r, keys) /\ UNCHANGED <<cacheVars, mu, elapsed, doc, historyVars>>
  /\ UNCHANGED authnVars

\* fetch skips what cannot verify an RS256 signature.
rsaPublicKey(entry) == entry = "RS256"
Usable(d) == {k \in AllKids : rsaPublicKey(d[k])}

\* authn sends its document.
Respond ==
  /\ mu # Nobody /\ up /\ doc = <<>>
  /\ doc' = <<Usable(published)>>
  /\ UNCHANGED <<authnVars, cacheVars, mu, elapsed, req, historyVars>>

\* Mutant: a failed refresh leaves an empty key set.
FailCleared(r) ==
  /\ keys' = {} /\ failed' = TRUE
  /\ Answer(r, keys')
  /\ UNCHANGED <<fetchedAge, attemptAge, delivered, docAge>>

\* refreshLocked leaves the cache alone when fetch fails.
Fail(r) ==
  /\ failed' = TRUE
  /\ Answer(r, keys)
  /\ UNCHANGED <<cacheVars, delivered, docAge>>

Replace(r) ==
  /\ keys' = Head(doc) /\ fetchedAge' = 0
  /\ delivered' = Head(doc) /\ failed' = FALSE
  /\ Answer(r, keys')
  /\ UNCHANGED attemptAge

Unlock == mu' = Nobody /\ elapsed' = 0 /\ doc' = <<>>

\* The request is refused, breaks off or times out.
FetchFails(r) ==
  /\ mu = r /\ ~up
  /\ Fail(r) /\ Unlock
  /\ UNCHANGED authnVars

\* The document has arrived; one without a usable key is an error.
Fetched(r) ==
  /\ mu = r /\ doc # <<>>
  /\ IF Head(doc) = {} THEN Fail(r) ELSE Replace(r) /\ docAge' = elapsed
  /\ Unlock
  /\ UNCHANGED authnVars

Take(r) ==
  /\ req[r].pc = "done"
  /\ req' = [req EXCEPT ![r] = NoCall]
  /\ UNCHANGED <<authnVars, cacheVars, mu, elapsed, doc, historyVars>>

KeyStep(r) == PublicKey(r) \/ FetchFails(r) \/ Fetched(r)

AuthnStep == (\E d \in Documents : Publish(d)) \/ Toggle
=============================================================================
