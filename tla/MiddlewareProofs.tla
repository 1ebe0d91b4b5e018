-------------------------- MODULE MiddlewareProofs ---------------------------
(* The middleware of a server: authentication by UserConfig, and CORS.         *)
EXTENDS UserConfig, Cors, Arithmetic

(* More time for the provers: a long module keeps their results waiting.       *)
USE SMTT(20), ZenonT(20)

-----------------------------------------------------------------------------
(* What the key source and the middleware promise, for any set of requests,   *)
(* keys and documents and for all intervals.                                  *)

\* The empty set has no elements to count.
LEMMA NoElements == Cardinality({}) = 0
<1> DEFINE P(cs) == cs = [T \in SUBSET {} |-> IF T = {} THEN 0 ELSE 1 + cs[T \ {CHOOSE x : x \in T}]]
           CS == CHOOSE cs : P(cs)
           zero == [T \in SUBSET {} |-> 0]
<1>1. P(zero)
  OBVIOUS
<1>2. P(CS)
  <2> HIDE DEF P, zero
  <2> QED BY <1>1
<1>3. CS[{}] = 0
  <2> HIDE DEF CS
  <2> QED BY <1>2
<1>4. Cardinality({}) = CS[{}]
  BY DEF Cardinality
<1> QED BY <1>3, <1>4

\* Ages: a fetch began with the last attempt, so its document is no older than
\* the attempt, and no older than the cache entry plus one round trip. Ages stop
\* at their intervals, so both are said of attempts and entries within theirs.
Ages ==
  /\ mu = Nobody => elapsed = 0
  /\ mu # Nobody /\ attemptAge < MinRefreshInterval => elapsed <= attemptAge
  /\ mu = Nobody /\ ~failed /\ keys # {} /\ attemptAge < MinRefreshInterval => docAge <= attemptAge
  /\ ~failed /\ keys # {} /\ fetchedAge < TTL => docAge <= fetchedAge + Timeout

\* A call that asks for a kid gets that key or none, and a request is answered
\* for the kid of its token.
Fits(r) ==
  /\ req[r].pc = "done" /\ req[r].kid # NoKid => req[r].answer \in {req[r].kid, Unavailable}
  /\ http[r].pc = "validate" => req[r].kid = http[r].token.kid
  /\ http[r].pc # "idle" => http[r].status = "none"

AuthInv == HTTPTypeOK /\ keys = delivered /\ Ages /\ \A r \in Requests : Fits(r)

Calls == [pc : {"idle", "lock", "fetch", "done"}, kid : AllKids, answer : AllKids \cup {Unavailable}]
Responses ==
  [pc : {"idle", "validate", "secret"}, token : Tokens \cup {NoToken},
   status : {"none", "next", "unauthorized", "unknownUser", "unavailable", "internalError"}]

-----------------------------------------------------------------------------
(* Bound covers the three intervals it is made of. *)
LEMMA BoundCovers ==
  /\ TTL \in Nat /\ TTL > 0 /\ Timeout \in Nat /\ MinRefreshInterval \in Nat /\ MinRefreshInterval > 0
  /\ Bound \in Nat /\ Bound >= TTL + Timeout /\ Bound >= MinRefreshInterval
BY SourceAssumption DEF Bound, Larger

(* A new source has no keys and every age is at its interval. *)
LEMMA AuthInvInit == Init => AuthInv
<1> SUFFICES ASSUME Init PROVE AuthInv
  OBVIOUS
<1>1. NoKid \in AllKids
  BY DEF AllKids
<1>2. TypeOK
  <2>1. fetchedAge \in 0..TTL /\ docAge \in 0..Bound /\ attemptAge \in 0..MinRefreshInterval /\ elapsed \in 0..Timeout
    BY BoundCovers DEF Init, SourceInit
  <2>2. req \in [Requests -> Calls] /\ \A r \in Requests : mu = r <=> req[r].pc = "fetch"
    BY <1>1, NamesAssumption DEF Init, SourceInit, NoCall, Calls
  <2> QED
    BY Zenon, <2>1, <2>2 DEF Init, SourceInit, TypeOK, Calls
<1>3. HTTPTypeOK
  BY <1>2 DEF Init, HTTPTypeOK
<1>4. keys = delivered /\ Ages
  BY BoundCovers DEF Init, SourceInit, Ages
<1>5. \A r \in Requests : Fits(r)
  BY DEF Init, SourceInit, Fits, NoCall
<1> QED
  BY <1>3, <1>4, <1>5 DEF AuthInv

(* An answer of PublicKey is a key of the set exactly if the kid resolves. *)
LEMMA AnswerOne ==
  ASSUME TypeOK, NEW r \in Requests, NEW set \in SUBSET AllKids, Answer(r, set)
  PROVE  /\ req' \in [Requests -> Calls]
         /\ req'[r].pc = "done" /\ req'[r].kid = req[r].kid
         /\ req'[r].answer = Unavailable <=> ~lookupLocked(set, req[r].kid)
         /\ req[r].kid # NoKid => req'[r].answer \in {req[r].kid, Unavailable}
         /\ req'[r].answer # Unavailable => set # {}
         /\ \A q \in Requests \ {r} : req'[q] = req[q]
<1> DEFINE kid == req[r].kid
           answer == IF lookupLocked(set, kid) THEN Lookup(set, kid) ELSE Unavailable
<1>1. kid \in AllKids /\ req \in [Requests -> Calls]
  BY DEF TypeOK, Calls
<1>2. lookupLocked(set, kid) => set # {} /\ Lookup(set, kid) \in AllKids /\ (kid # NoKid => Lookup(set, kid) = kid)
  <2>1. CASE kid # NoKid
    BY <1>1, <2>1 DEF lookupLocked, Lookup
  <2>2. CASE kid = NoKid
    <3>1. lookupLocked(set, kid) => set # {}
      BY <2>2, NoElements DEF lookupLocked
    <3>2. set # {} => (CHOOSE k \in set : TRUE) \in set
      OBVIOUS
    <3> QED
      BY <2>2, <3>1, <3>2 DEF Lookup
  <2> QED
    BY <2>1, <2>2
<1>3. answer \in AllKids \cup {Unavailable} /\ (answer = Unavailable <=> ~lookupLocked(set, kid))
  BY <1>2, NamesAssumption
<1>4. req' = [req EXCEPT ![r].pc = "done", ![r].answer = answer]
  BY DEF Answer
<1> HIDE DEF answer
<1>5. /\ req' \in [Requests -> Calls]
      /\ req'[r].pc = "done" /\ req'[r].kid = kid /\ req'[r].answer = answer
      /\ \A q \in Requests \ {r} : req'[q] = req[q]
  BY ZenonT(60), <1>1, <1>3, <1>4 DEF Calls
<1> QED
  BY <1>2, <1>3, <1>5 DEF answer

(* authn, the clock and a response on its way: nothing is answered, and while *)
(* time passes a document grows no older than the attempt that fetched it.    *)
LEMMA OutsideKeeps ==
  ASSUME AuthInv, Only(AuthnStep) \/ Only(Tick) \/ Only(Respond) PROVE AuthInv' /\ req' = req /\ http' = http
<1> USE DEF AuthInv
<1>1. CASE Only(AuthnStep)
  <2>1. /\ UNCHANGED <<cacheVars, mu, elapsed, doc, req, historyVars, http>>
        /\ published' \in Documents /\ up' \in BOOLEAN
    BY Zenon, <1>1 DEF Only, AuthnStep, Publish, Toggle, HTTPTypeOK, TypeOK
  <2> QED
    BY <2>1 DEF HTTPTypeOK, TypeOK, Ages, Fits, cacheVars, historyVars
<1>2. CASE Only(Respond)
  <2>1. /\ UNCHANGED <<authnVars, cacheVars, mu, elapsed, req, historyVars, http>>
        /\ doc' \in {<<set>> : set \in SUBSET AllKids}
    BY <1>2 DEF Only, Respond, Usable
  <2> QED
    BY <2>1 DEF HTTPTypeOK, TypeOK, Ages, Fits, authnVars, cacheVars, historyVars
<1>3. CASE Only(Tick)
  <2>1. /\ UNCHANGED <<published, up, keys, mu, doc, req, delivered, failed, http>>
        /\ mu # Nobody => elapsed < Timeout
        /\ elapsed' = IF mu # Nobody THEN elapsed + 1 ELSE elapsed
        /\ fetchedAge' = IF fetchedAge < TTL THEN fetchedAge + 1 ELSE fetchedAge
        /\ docAge' = IF docAge < Bound THEN docAge + 1 ELSE docAge
        /\ attemptAge' = IF attemptAge < MinRefreshInterval THEN attemptAge + 1 ELSE attemptAge
    BY <1>3 DEF Only, Tick, Older, authnVars
  <2>2. fetchedAge \in 0..TTL /\ docAge \in 0..Bound /\ attemptAge \in 0..MinRefreshInterval /\ elapsed \in 0..Timeout
    BY DEF HTTPTypeOK, TypeOK
  <2>3. fetchedAge' \in 0..TTL /\ docAge' \in 0..Bound /\ attemptAge' \in 0..MinRefreshInterval /\ elapsed' \in 0..Timeout
    BY <2>1, <2>2, BoundCovers
  <2>4. HTTPTypeOK'
    BY <2>1, <2>3 DEF HTTPTypeOK, TypeOK
  <2>5. Ages'
    BY <2>1, <2>2, BoundCovers DEF Ages
  <2> QED
    BY <2>1, <2>4, <2>5 DEF Fits
<1> QED
  BY <1>1, <1>2, <1>3

(* The middleware before and after the key source: a request is answered      *)
(* without a key, asks for the kid of its token, or reads its Secret.         *)
LEMMA RequestKeeps ==
  ASSUME AuthInv, NEW r \in Requests,
         BadHeader(r) \/ Validated(r) \/ FromSecret(r) \/ \E t \in Tokens : Receive(r, t) \/ WrongMethod(r, t)
  PROVE  AuthInv' /\ \A q \in Requests : ~Answered(q)
<1> USE DEF AuthInv
<1>0. req \in [Requests -> Calls] /\ http \in [Requests -> Responses] /\ NoKid \in AllKids
  BY DEF HTTPTypeOK, TypeOK, Calls, Responses, AllKids
<1>1. CASE BadHeader(r) \/ FromSecret(r) \/ \E t \in Tokens : WrongMethod(r, t)
  <2>1. PICK status \in {"unauthorized", "next", "unknownUser", "internalError"} :
          /\ http' = [http EXCEPT ![r] = [pc |-> "idle", token |-> NoToken, status |-> status]]
          /\ UNCHANGED sourceVars
    BY <1>1 DEF BadHeader, FromSecret, WrongMethod, Respond401
  <2>2. /\ http' \in [Requests -> Responses] /\ http'[r].pc = "idle"
        /\ \A q \in Requests \ {r} : http'[q] = http[q]
    BY <1>0, <2>1 DEF Responses
  <2>3. UNCHANGED <<authnVars, cacheVars, mu, elapsed, doc, req, historyVars>>
    BY SMTT(60), <2>1 DEF sourceVars
  <2>4. HTTPTypeOK' /\ Ages' /\ keys' = delivered'
    BY SMTT(60), <2>2, <2>3 DEF HTTPTypeOK, TypeOK, Ages, authnVars, cacheVars, historyVars, Responses
  <2> QED
    BY <2>2, <2>3, <2>4 DEF Fits, Answered
<1>2. ASSUME NEW t \in Tokens, Receive(r, t) PROVE AuthInv' /\ \A q \in Requests : ~Answered(q)
  <2>1. /\ http' = [http EXCEPT ![r] = [pc |-> "validate", token |-> t, status |-> "none"]]
        /\ req' = [req EXCEPT ![r] = [pc |-> "lock", kid |-> t.kid, answer |-> Unavailable]]
        /\ req[r].pc = "idle"
        /\ UNCHANGED <<authnVars, cacheVars, mu, elapsed, doc, historyVars>>
    BY <1>2 DEF Receive, Ask
  <2>2. /\ http' \in [Requests -> Responses]
        /\ http'[r] = [pc |-> "validate", token |-> t, status |-> "none"]
        /\ \A q \in Requests \ {r} : http'[q] = http[q]
    BY <1>0, <2>1 DEF Responses
  <2>3. /\ req' \in [Requests -> Calls] /\ req'[r].pc = "lock" /\ req'[r].kid = t.kid
        /\ \A q \in Requests \ {r} : req'[q] = req[q]
    BY SMTT(60), <1>0, <2>1, TokenAssumption DEF Calls
  <2>4. HTTPTypeOK' /\ Ages' /\ keys' = delivered'
    BY SMTT(60), <2>1, <2>2, <2>3 DEF HTTPTypeOK, TypeOK, Ages, authnVars, cacheVars, historyVars, Calls, Responses
  <2> QED
    BY <2>2, <2>3, <2>4 DEF Fits, Answered
<1>3. CASE Validated(r)
  <2>1. PICK pc \in {"idle", "secret"}, status \in {"none", "unauthorized", "unavailable"} :
          /\ http' = [http EXCEPT ![r] = [pc |-> pc, token |-> NoToken, status |-> status]]
          /\ pc = "secret" => status = "none"
    BY Zenon, <1>3 DEF Validated, Validation
  <2>2. /\ req[r].pc = "done" /\ req' = [req EXCEPT ![r] = NoCall]
        /\ UNCHANGED <<authnVars, cacheVars, mu, elapsed, doc, historyVars>>
    BY <1>3 DEF Validated, Take
  <2>3. /\ http' \in [Requests -> Responses]
        /\ http'[r] = [pc |-> pc, token |-> NoToken, status |-> status]
        /\ \A q \in Requests \ {r} : http'[q] = http[q]
    BY <1>0, <2>1 DEF Responses
  <2>4. /\ req' \in [Requests -> Calls] /\ req'[r].pc = "idle"
        /\ \A q \in Requests \ {r} : req'[q] = req[q]
    BY Zenon, <1>0, <2>2 DEF Calls, NoCall
  <2>5. HTTPTypeOK' /\ Ages' /\ keys' = delivered'
    BY <2>2, <2>3, <2>4 DEF HTTPTypeOK, TypeOK, Ages, authnVars, cacheVars, historyVars, Calls, Responses
  <2> QED
    BY SMTT(60), <2>1, <2>3, <2>4, <2>5 DEF Fits, Answered
<1> QED
  BY <1>1, <1>2, <1>3

(* What an answered call may rely on: no key only if the last document does   *)
(* not resolve its kid, and a key only from a document that is young enough.  *)
Sound(q) ==
  Answered(q) => /\ Refused(q) => ~lookupLocked(delivered', req[q].kid)
                 /\ ~Refused(q) => failed' \/ docAge' < Bound

(* A call that is answered leaves the mutex free: shared by the three ways in *)
(* which PublicKey returns.                                                   *)
LEMMA AnswerKeeps ==
  ASSUME AuthInv, NEW r \in Requests, NEW set \in SUBSET AllKids, Answer(r, set),
         set = keys', keys' = delivered', mu' = Nobody, mu \in {r, Nobody}, elapsed' = 0,
         fetchedAge' \in 0..TTL, docAge' \in 0..Bound, attemptAge' \in 0..MinRefreshInterval,
         doc' \in {<<>>} \cup {<<d>> : d \in SUBSET AllKids}, failed' \in BOOLEAN,
         Ages', UNCHANGED <<authnVars, http>>,
         set # {} => failed' \/ docAge' < Bound
  PROVE  AuthInv' /\ \A q \in Requests : Sound(q)
<1>1. TypeOK
  BY SMTT(60) DEF AuthInv, HTTPTypeOK
<1>2. /\ req' \in [Requests -> Calls]
      /\ req'[r].pc = "done" /\ req'[r].kid = req[r].kid
      /\ req'[r].answer = Unavailable <=> ~lookupLocked(set, req[r].kid)
      /\ req[r].kid # NoKid => req'[r].answer \in {req[r].kid, Unavailable}
      /\ req'[r].answer # Unavailable => set # {}
      /\ \A q \in Requests \ {r} : req'[q] = req[q]
  BY SMTT(60), <1>1, AnswerOne
<1>3. \A q \in Requests : mu' = q <=> req'[q].pc = "fetch"
  BY SMTT(60), <1>1, <1>2, NamesAssumption DEF TypeOK
<1>4. TypeOK'
  <2>1. elapsed' \in 0..Timeout /\ mu' \in Requests \cup {Nobody}
    BY BoundCovers
  <2>2. published' \in Documents /\ up' \in BOOLEAN
    BY SMTT(60), <1>1 DEF TypeOK, authnVars
  <2> QED
    BY <1>2, <1>3, <2>1, <2>2 DEF TypeOK, Calls
<1>5. HTTPTypeOK'
  BY SMTT(60), <1>4 DEF AuthInv, HTTPTypeOK
<1>6. \A q \in Requests : Fits(q)'
  BY SMTT(60), <1>2 DEF AuthInv, Fits
<1>7. \A q \in Requests : Sound(q)
  BY <1>2 DEF Sound, Answered, Refused
<1> QED
  BY <1>5, <1>6, <1>7 DEF AuthInv

(* PublicKey under its mutex, and the end of a fetch. *)
LEMMA KeyStepKeeps ==
  ASSUME AuthInv, NEW r \in Requests, Only(KeyStep(r))
  PROVE  AuthInv' /\ \A q \in Requests : Sound(q)
<1>0. /\ TypeOK /\ keys = delivered /\ Ages /\ http' = http
      /\ fetchedAge \in 0..TTL /\ docAge \in 0..Bound /\ attemptAge \in 0..MinRefreshInterval
      /\ elapsed \in 0..Timeout /\ keys \in SUBSET AllKids /\ failed \in BOOLEAN
      /\ doc \in {<<>>} \cup {<<d>> : d \in SUBSET AllKids}
  BY DEF AuthInv, HTTPTypeOK, TypeOK, Only
<1>1. CASE PublicKey(r) /\ ~Fresh(r) /\ attemptAge >= MinRefreshInterval
  <2>1. /\ req[r].pc = "lock" /\ mu = Nobody /\ mu' = r /\ elapsed' = 0 /\ attemptAge' = 0
        /\ req' = [req EXCEPT ![r].pc = "fetch"]
        /\ UNCHANGED <<authnVars, keys, fetchedAge, doc, delivered, docAge, failed>>
    BY <1>1 DEF PublicKey, StartFetch
  <2>2. /\ req' \in [Requests -> Calls] /\ req'[r].pc = "fetch" /\ req'[r].kid = req[r].kid
        /\ \A q \in Requests \ {r} : req'[q] = req[q]
    BY <1>0, <2>1 DEF TypeOK, Calls
  <2>3. \A q \in Requests : mu' = q <=> req'[q].pc = "fetch"
    BY <1>0, <2>1, <2>2, NamesAssumption DEF TypeOK
  <2>4. elapsed' \in 0..Timeout /\ attemptAge' \in 0..MinRefreshInterval
    BY <2>1, BoundCovers
  <2>5. TypeOK'
    BY <1>0, <2>1, <2>2, <2>3, <2>4 DEF TypeOK, Calls, authnVars
  <2>6. Ages'
    BY SMTT(60), <1>0, <2>1, NamesAssumption, BoundCovers DEF Ages
  <2>7. \A q \in Requests : Fits(q)' /\ Sound(q)
    BY SMTT(60), <1>0, <2>2 DEF AuthInv, Fits, Sound, Answered
  <2> QED
    BY <1>0, <2>1, <2>5, <2>6, <2>7 DEF AuthInv, HTTPTypeOK
<1>2. CASE PublicKey(r) /\ (Fresh(r) \/ ~(attemptAge >= MinRefreshInterval))
  <2>1. /\ mu = Nobody /\ Answer(r, keys)
        /\ UNCHANGED <<authnVars, cacheVars, mu, elapsed, doc, historyVars>>
    BY SMTT(60), <1>2 DEF PublicKey
  <2>2. keys # {} => failed \/ docAge < Bound
    <3>1. CASE fetchedAge < TTL
      BY <1>0, <3>1, BoundCovers DEF Ages
    <3>2. CASE attemptAge < MinRefreshInterval
      BY SMTT(60), <1>0, <2>1, <3>2, BoundCovers DEF Ages
    <3> QED
      BY SMTT(60), <1>0, <1>2, <3>1, <3>2, BoundCovers DEF Fresh
  <2>3. Ages' /\ elapsed = 0
    BY SMTT(60), <1>0, <2>1 DEF Ages, cacheVars, historyVars
  <2> QED
    BY <1>0, <2>1, <2>2, <2>3, AnswerKeeps DEF cacheVars, historyVars
<1>3. CASE FetchFails(r) \/ (Fetched(r) /\ Head(doc) = {})
  <2>1. mu = r /\ Fail(r) /\ Unlock /\ UNCHANGED authnVars
    BY <1>3 DEF FetchFails, Fetched
  <2>2. /\ failed' = TRUE /\ Answer(r, keys) /\ UNCHANGED <<cacheVars, delivered, docAge>>
        /\ mu' = Nobody /\ elapsed' = 0 /\ doc' = <<>>
    BY <2>1 DEF Fail, Unlock
  <2>3. Ages'
    BY SMTT(60), <2>2 DEF Ages
  <2> QED
    BY <1>0, <2>1, <2>2, <2>3, AnswerKeeps DEF cacheVars
<1>4. CASE Fetched(r) /\ Head(doc) # {}
  <2>1. mu = r /\ doc # <<>> /\ Replace(r) /\ docAge' = elapsed /\ Unlock /\ UNCHANGED authnVars
    BY <1>4 DEF Fetched
  <2>2. Head(doc) \in SUBSET AllKids
    BY <1>0, <2>1
  <2>3. /\ keys' = Head(doc) /\ delivered' = Head(doc) /\ fetchedAge' = 0 /\ failed' = FALSE
        /\ Answer(r, keys') /\ attemptAge' = attemptAge
        /\ mu' = Nobody /\ elapsed' = 0 /\ doc' = <<>>
    BY <2>1 DEF Replace, Unlock
  <2>4. Ages'
    BY <1>0, <2>1, <2>3, BoundCovers, NamesAssumption DEF Ages
  <2>5. docAge' \in 0..Bound /\ docAge' < Bound /\ fetchedAge' \in 0..TTL
    BY <1>0, <2>1, <2>3, BoundCovers
  <2> QED
    BY Zenon, <1>0, <2>1, <2>2, <2>3, <2>4, <2>5, AnswerKeeps
<1> QED
  BY SMTT(60), <1>1, <1>2, <1>3, <1>4 DEF Only, KeyStep

(* Every step keeps the invariant and answers soundly. *)
LEMMA AuthInvNext == AuthInv /\ [Next]_vars => AuthInv' /\ \A q \in Requests : Sound(q)
<1> SUFFICES ASSUME AuthInv, [Next]_vars PROVE AuthInv' /\ \A q \in Requests : Sound(q)
  OBVIOUS
<1>1. CASE Only(AuthnStep) \/ Only(Tick) \/ Only(Respond)
  BY <1>1, OutsideKeeps DEF Sound, Answered
<1>2. ASSUME NEW r \in Requests,
             BadHeader(r) \/ Validated(r) \/ FromSecret(r) \/ \E t \in Tokens : Receive(r, t) \/ WrongMethod(r, t)
      PROVE  AuthInv' /\ \A q \in Requests : Sound(q)
  BY <1>2, RequestKeeps DEF Sound
<1>3. ASSUME NEW r \in Requests, Only(KeyStep(r)) PROVE AuthInv' /\ \A q \in Requests : Sound(q)
  BY SMTT(60), <1>3, KeyStepKeeps
<1>4. CASE UNCHANGED vars
  <2>1. UNCHANGED <<authnVars, cacheVars, mu, elapsed, doc, req, historyVars, http>>
    BY SMTT(60), <1>4 DEF vars, sourceVars
  <2> QED
    BY <2>1 DEF AuthInv, HTTPTypeOK, TypeOK, Ages, Fits, Sound, Answered, authnVars, cacheVars, historyVars
<1> QED
  BY <1>1, <1>2, <1>3, <1>4 DEF Next

(* 401 comes from a validation, and a validation sees the key of the token's  *)
(* kid, or none.                                                              *)
LEMMA RefusalIsDeserved ==
  ASSUME AuthInv, Next, NEW r \in Requests, http[r].pc # "idle", http'[r].status = "unauthorized"
  PROVE  LET t == http[r].token IN t.expired \/ t.kid = NoKid \/ t.key # t.kid
<1>0. http \in [Requests -> Responses] /\ http[r].status = "none" /\ Fits(r)
  BY DEF AuthInv, HTTPTypeOK, Responses, Fits
<1>1. http'[r] # http[r]
  BY SMTT(60), <1>0
<1>2. PICK q \in Requests :
        BadHeader(q) \/ Validated(q) \/ FromSecret(q) \/ \E t \in Tokens : Receive(q, t) \/ WrongMethod(q, t)
  BY SMTT(60), <1>1 DEF Next, Only
<1>3. q = r
  BY SMTT(60), <1>0, <1>1, <1>2 DEF BadHeader, Validated, FromSecret, Receive, WrongMethod, Respond401
<1>4. Validated(r)
  BY <1>0, <1>2, <1>3 DEF BadHeader, FromSecret, Receive, WrongMethod
<1>5. Validation(http[r].token, req[r].answer) = "unauthorized"
  BY SMTT(60), <1>0, <1>4 DEF Validated
<1>6. http[r].pc = "validate" /\ req[r].pc = "done"
  BY <1>4 DEF Validated, Take
<1> QED
  BY SMTT(60), <1>0, <1>5, <1>6 DEF Fits, Validation

-----------------------------------------------------------------------------
(* While refreshes succeed, PublicKey answers only from a document younger    *)
(* than the TTL plus one round trip, or than the refresh floor                *)
(* (jwks.go:216-234), whatever these intervals are.                           *)
THEOREM KeysAreFresh == Spec => FreshUnlessDown
<1>1. AuthInv /\ [Next]_vars
        => [\A r \in Requests : Answered(r) /\ ~Refused(r) => failed' \/ docAge' < Bound]_vars
  BY AuthInvNext DEF Sound
<1>2. AuthInv /\ [Next]_vars => AuthInv'
  BY AuthInvNext
<1> QED
  BY AuthInvInit, <1>1, <1>2, PTL DEF Spec, FreshUnlessDown

(* PublicKey refuses a kid only if the last key set authn delivered does not  *)
(* resolve it: failed and throttled refreshes leave the cache alone           *)
(* (jwks.go:225-234).                                                         *)
THEOREM OutageIsBridged == Spec => OutageKeepsKeys
<1>1. AuthInv /\ [Next]_vars
        => [\A r \in Requests : Refused(r) => ~lookupLocked(delivered', req[r].kid)]_vars
  BY AuthInvNext DEF Sound, Refused
<1>2. AuthInv /\ [Next]_vars => AuthInv'
  BY AuthInvNext
<1> QED
  BY AuthInvInit, <1>1, <1>2, PTL DEF Spec, OutageKeepsKeys

(* A genuine token that names its key is never answered 401: whatever the     *)
(* state of the key source, its error becomes 503 (validate.go:61-69,         *)
(* userconfig.go:46-58).                                                      *)
THEOREM GenuineIsAccepted == Spec => GenuineIsNotRefused
<1>1. AuthInv /\ [Next]_vars
        => [\A r \in Requests : http[r].pc # "idle" /\ http'[r].status = "unauthorized" =>
              LET t == http[r].token IN t.expired \/ t.kid = NoKid \/ t.key # t.kid]_vars
  BY RefusalIsDeserved
<1>2. AuthInv /\ [Next]_vars => AuthInv'
  BY AuthInvNext
<1> QED
  BY AuthInvInit, <1>1, <1>2, PTL DEF Spec, GenuineIsNotRefused

-----------------------------------------------------------------------------
(* What a page may read through CORS, for any configuration and any page, and *)
(* for any chain of middleware.                                               *)

-----------------------------------------------------------------------------
(* Cases *)

Text == Seq(Bytes)
HeaderName == Seq(HeaderBytes) \ {<<>>}

\* Texts of one length with the same bytes are one text.
LEMMA SameText ==
  ASSUME NEW s \in Text, NEW t \in Text, Len(s) = Len(t), \A i \in 1..Len(s) : s[i] = t[i]
  PROVE  s = t
BY DEF Text

\* One byte: its cases are bytes, and changing the case twice is changing it once.
LEMMA Cases ==
  ASSUME NEW c
  PROVE  /\ LowerOf(LowerOf(c)) = LowerOf(c) /\ UpperOf(UpperOf(c)) = UpperOf(c)
         /\ LowerOf(UpperOf(c)) = LowerOf(c) /\ UpperOf(LowerOf(c)) = UpperOf(c)
         /\ (LowerOf(c) = "-" <=> c = "-") /\ (UpperOf(c) = "-" <=> c = "-")
         /\ (LowerOf(c) = "*" <=> c = "*")
         /\ c \in Bytes => LowerOf(c) \in Bytes /\ UpperOf(c) \in Bytes
         /\ c \in HeaderBytes => LowerOf(c) \in HeaderBytes /\ UpperOf(c) \in HeaderBytes
<1>1. /\ LowerOf("a") = "a" /\ LowerOf("A") = "a" /\ LowerOf("b") = "b" /\ LowerOf("B") = "b"
      /\ UpperOf("a") = "A" /\ UpperOf("A") = "A" /\ UpperOf("b") = "B" /\ UpperOf("B") = "B"
  BY DEF LowerOf, UpperOf
<1>2. /\ "a" \in HeaderBytes /\ "A" \in HeaderBytes /\ "b" \in HeaderBytes /\ "B" \in HeaderBytes
      /\ HeaderBytes \subseteq Bytes
  BY DEF HeaderBytes, Bytes
<1>3. CASE c = "a" \/ c = "A"
  BY <1>1, <1>2, <1>3
<1>4. CASE c = "b" \/ c = "B"
  BY <1>1, <1>2, <1>4
<1>5. CASE c \notin {"a", "A", "b", "B"}
  BY <1>5 DEF LowerOf, UpperOf
<1> QED BY <1>3, <1>4, <1>5

\* Lower case, byte by byte.
LEMMA LowerText ==
  ASSUME NEW s \in Text
  PROVE  /\ DOMAIN ToLower(s) = 1..Len(s) /\ Len(ToLower(s)) = Len(s)
         /\ \A i \in 1..Len(s) : ToLower(s)[i] = LowerOf(s[i])
         /\ ToLower(s) \in Text
<1>1. DOMAIN s = 1..Len(s) /\ Len(s) \in Nat
  BY DEF Text
<1>2. ToLower(s) = [i \in 1..Len(s) |-> LowerOf(s[i])]
  BY <1>1 DEF ToLower
<1>3. ToLower(s) \in [1..Len(s) -> Bytes]
  BY <1>1, <1>2, Cases DEF Text
<1>4. ToLower(s) \in Text
  BY <1>1, <1>3 DEF Text
<1> QED BY <1>1, <1>2, <1>3, <1>4

\* Two texts are one in lower case exactly if their bytes are.
LEMMA SameLower ==
  ASSUME NEW s \in Text, NEW t \in Text
  PROVE  ToLower(s) = ToLower(t) <=> Len(s) = Len(t) /\ \A i \in 1..Len(s) : LowerOf(s[i]) = LowerOf(t[i])
<1>1. /\ ToLower(s) \in Text /\ Len(ToLower(s)) = Len(s) /\ \A i \in 1..Len(s) : ToLower(s)[i] = LowerOf(s[i])
      /\ ToLower(t) \in Text /\ Len(ToLower(t)) = Len(t) /\ \A i \in 1..Len(t) : ToLower(t)[i] = LowerOf(t[i])
  BY LowerText
<1>2. ASSUME ToLower(s) = ToLower(t)
      PROVE  Len(s) = Len(t) /\ \A i \in 1..Len(s) : LowerOf(s[i]) = LowerOf(t[i])
  BY <1>1, <1>2
<1>3. ASSUME Len(s) = Len(t), \A i \in 1..Len(s) : LowerOf(s[i]) = LowerOf(t[i])
      PROVE  ToLower(s) = ToLower(t)
  BY <1>1, <1>3, SameText
<1> QED BY <1>2, <1>3

\* The canonical form of a header name, byte by byte.
LEMMA CanonicalText ==
  ASSUME NEW s \in Text
  PROVE  /\ DOMAIN CanonicalHeaderKey(s) = 1..Len(s) /\ Len(CanonicalHeaderKey(s)) = Len(s)
         /\ CanonicalHeaderKey(s) \in Text
         /\ \A i \in 1..Len(s) :
              CanonicalHeaderKey(s)[i] = IF i = 1 \/ s[i - 1] = "-" THEN UpperOf(s[i]) ELSE LowerOf(s[i])
<1>1. DOMAIN s = 1..Len(s) /\ Len(s) \in Nat
  BY DEF Text
<1>2. CanonicalHeaderKey(s) =
        [i \in 1..Len(s) |-> IF i = 1 THEN UpperOf(s[i])
                             ELSE IF s[i - 1] = "-" THEN UpperOf(s[i]) ELSE LowerOf(s[i])]
  BY <1>1 DEF CanonicalHeaderKey
<1>3. CanonicalHeaderKey(s) \in [1..Len(s) -> Bytes]
  BY <1>1, <1>2, Cases DEF Text
<1>4. CanonicalHeaderKey(s) \in Text
  BY <1>1, <1>3 DEF Text
<1> QED BY <1>1, <1>2, <1>3, <1>4

\* Two names have one canonical form exactly if they differ in the case at most.
LEMMA SameHeader ==
  ASSUME NEW g \in Text, NEW h \in Text
  PROVE  CanonicalHeaderKey(g) = CanonicalHeaderKey(h) <=> ToLower(g) = ToLower(h)
<1> DEFINE C(s) == CanonicalHeaderKey(s)
<1>1. ASSUME C(g) = C(h) PROVE ToLower(g) = ToLower(h)
  <2>1. Len(g) = Len(h)
    BY <1>1, CanonicalText
  <2>2. ASSUME NEW i \in 1..Len(g) PROVE LowerOf(g[i]) = LowerOf(h[i])
    <3>1. C(g)[i] \in {UpperOf(g[i]), LowerOf(g[i])} /\ C(h)[i] \in {UpperOf(h[i]), LowerOf(h[i])}
      BY <2>1, CanonicalText
    <3>2. LowerOf(C(g)[i]) = LowerOf(g[i]) /\ LowerOf(C(h)[i]) = LowerOf(h[i])
      BY <3>1, Cases
    <3> QED BY <1>1, <3>2
  <2>3. DOMAIN g = DOMAIN h /\ DOMAIN g = 1..Len(g)
    BY <2>1 DEF Text
  <2> QED BY <2>2, <2>3 DEF ToLower
<1>2. ASSUME ToLower(g) = ToLower(h) PROVE C(g) = C(h)
  <2>1. Len(g) = Len(h)
    BY <1>2, LowerText
  <2>2. \A i \in 1..Len(g) : LowerOf(g[i]) = LowerOf(h[i])
    BY <1>2, <2>1, LowerText
  <2>3. \A i \in 1..Len(g) : UpperOf(g[i]) = UpperOf(h[i])
    BY <2>2, Cases
  <2>4. \A i \in 1..Len(g) : g[i] = "-" <=> h[i] = "-"
    BY <2>2, Cases
  <2>5. DOMAIN g = DOMAIN h /\ DOMAIN g = 1..Len(g) /\ Len(g) \in Nat
    BY <2>1 DEF Text
  <2>6. ASSUME NEW i \in 1..Len(g), i # 1 PROVE i - 1 \in 1..Len(g)
    BY <2>5, <2>6
  <2> QED BY <2>2, <2>3, <2>4, <2>5, <2>6 DEF CanonicalHeaderKey
<1> QED BY <1>1, <1>2

\* The canonical form of a name in it is the name itself.
LEMMA CanonicalTwice ==
  ASSUME NEW s \in Text
  PROVE  CanonicalHeaderKey(CanonicalHeaderKey(s)) = CanonicalHeaderKey(s)
<1> DEFINE t == CanonicalHeaderKey(s)
<1>1. t \in Text
  BY CanonicalText
<1>2. Len(t) = Len(s) /\ Len(s) \in Nat
       /\ \A i \in 1..Len(s) : t[i] = IF i = 1 \/ s[i - 1] = "-" THEN UpperOf(s[i]) ELSE LowerOf(s[i])
  BY CanonicalText DEF Text
<1> HIDE DEF t
<1>3. ASSUME NEW i \in 1..Len(s) PROVE t[i] = "-" <=> s[i] = "-"
  <2>1. t[i] \in {UpperOf(s[i]), LowerOf(s[i])}
    BY <1>2
  <2>2. (LowerOf(s[i]) = "-" <=> s[i] = "-") /\ (UpperOf(s[i]) = "-" <=> s[i] = "-")
    BY Cases
  <2> QED BY <2>1, <2>2
<1>4. ASSUME NEW i \in 1..Len(s) PROVE CanonicalHeaderKey(t)[i] = t[i]
  <2>1. CanonicalHeaderKey(t)[i] = IF i = 1 \/ t[i - 1] = "-" THEN UpperOf(t[i]) ELSE LowerOf(t[i])
    BY <1>1, <1>2, CanonicalText
  <2>2. i # 1 => (t[i - 1] = "-" <=> s[i - 1] = "-")
    BY <1>2, <1>3
  <2>3. UpperOf(UpperOf(s[i])) = UpperOf(s[i]) /\ LowerOf(LowerOf(s[i])) = LowerOf(s[i])
    BY Cases
  <2> QED BY <1>2, <2>1, <2>2, <2>3
<1>5. CanonicalHeaderKey(t) \in Text /\ Len(CanonicalHeaderKey(t)) = Len(s)
  BY <1>1, <1>2, CanonicalText
<1>7. CanonicalHeaderKey(t) = t
  BY <1>1, <1>2, <1>4, <1>5, SameText
<1> QED BY <1>7 DEF t

-----------------------------------------------------------------------------
(* Origins *)

\* Star finds the first star, or none.
LEMMA StarValue ==
  ASSUME NEW p \in Text
  PROVE  /\ Star(p) \in 0..Len(p)
         /\ Star(p) = 0 <=> "*" \notin Range(p)
         /\ Star(p) # 0 => p[Star(p)] = "*" /\ \A j \in 1..(Star(p) - 1) : p[j] # "*"
<1> DEFINE T == {i \in 1..Len(p) : p[i] = "*"}
           First(i) == IF "*" \in Range(p) THEN i > 0 /\ p[i] = "*" /\ \A j \in 1..(i - 1) : p[j] # "*" ELSE i = 0
<1>1. DOMAIN p = 1..Len(p) /\ Len(p) \in Nat
  BY DEF Text
<1>2. "*" \in Range(p) <=> T # {}
  BY <1>1 DEF Range
<1>3. \E i \in 0..Len(p) : First(i)
  <2>1. CASE T = {}
    BY <1>1, <1>2, <2>1
  <2>2. CASE T # {}
    <3>1. T \in SUBSET Nat
      BY <1>1
    <3>2. PICK i \in T : \A j \in T : i <= j
      BY <2>2, <3>1, LeastNatural, Zenon
    <3>3. ASSUME NEW j \in 1..(i - 1) PROVE p[j] # "*"
      BY <1>1, <3>2, <3>3
    <3> QED BY <1>1, <1>2, <2>2, <3>2, <3>3
  <2> QED BY <2>1, <2>2
<1>4. Star(p) \in 0..Len(p) /\ First(Star(p))
  BY Zenon, <1>3 DEF Star
<1> QED BY <1>1, <1>4

\* It is where it was when the pattern is in lower case.
LEMMA StarOfLower ==
  ASSUME NEW p \in Text
  PROVE  Star(ToLower(p)) = Star(p)
<1> DEFINE q == ToLower(p)
<1>1. q \in Text /\ Len(q) = Len(p) /\ \A i \in 1..Len(p) : q[i] = "*" <=> p[i] = "*"
  BY LowerText, Cases
<1>2. DOMAIN p = 1..Len(p) /\ DOMAIN q = 1..Len(p) /\ Len(p) \in Nat
  BY <1>1 DEF Text
<1> HIDE DEF q
<1>3. "*" \in Range(p) <=> "*" \in Range(q)
  BY <1>1, <1>2 DEF Range
<1>4. /\ Star(p) \in 0..Len(p) /\ (Star(p) = 0 <=> Star(q) = 0) /\ Star(q) \in 0..Len(p)
      /\ Star(p) # 0 => p[Star(p)] = "*" /\ \A j \in 1..(Star(p) - 1) : p[j] # "*"
      /\ Star(q) # 0 => q[Star(q)] = "*" /\ \A j \in 1..(Star(q) - 1) : q[j] # "*"
  BY <1>1, <1>3, StarValue
<1>5. CASE Star(p) # 0
  <2>1. ~(Star(p) < Star(q))
    BY <1>1, <1>2, <1>4, <1>5
  <2>2. ~(Star(q) < Star(p))
    BY <1>1, <1>2, <1>4, <1>5
  <2> QED BY <1>2, <1>4, <2>1, <2>2 DEF q
<1> QED BY <1>4, <1>5 DEF q

\* The beginning, a part and the end of a text.
LEMMA HeadText ==
  ASSUME NEW s \in Text, NEW n \in 0..Len(s)
  PROVE  /\ SubSeq(s, 1, n) \in Text /\ Len(SubSeq(s, 1, n)) = n
         /\ \A i \in 1..n : SubSeq(s, 1, n)[i] = s[i]
<1>1. Len(s) \in Nat /\ \A i \in 1..Len(s) : s[i] \in Bytes
  BY DEF Text
<1>2. SubSeq(s, 1, n) = [i \in 1..n |-> s[i]]
  BY <1>1 DEF Text
<1>3. n \in Nat /\ \A i \in 1..n : i \in 1..Len(s)
  BY <1>1
<1>4. SubSeq(s, 1, n) \in [1..n -> Bytes]
  BY <1>1, <1>2, <1>3, Zenon
<1> QED BY <1>2, <1>3, <1>4 DEF Text

\* The bytes of a part of a text.
LEMMA MiddleText ==
  ASSUME NEW s \in Text, NEW n \in 0..Len(s), NEW m \in 1..(n + 1)
  PROVE  /\ SubSeq(s, m, n) \in Text /\ Len(SubSeq(s, m, n)) = n - m + 1
         /\ \A i \in 1..(n - m + 1) : SubSeq(s, m, n)[i] = s[m + i - 1]
<1>1. Len(s) \in Nat /\ \A i \in 1..Len(s) : s[i] \in Bytes
  BY DEF Text
<1>2. SubSeq(s, m, n) = [i \in 1..(n - m + 1) |-> s[m + i - 1]]
  BY <1>1 DEF Text
<1>3. \A i \in 1..(n - m + 1) : m + i - 1 \in 1..Len(s)
  BY <1>1
<1>4. SubSeq(s, m, n) \in [1..(n - m + 1) -> Bytes] /\ n - m + 1 \in Nat
  BY <1>1, <1>2, <1>3
<1> QED BY <1>2, <1>4 DEF Text

\* The bytes of the end of a text.
LEMMA TailText ==
  ASSUME NEW s \in Text, NEW m \in 1..(Len(s) + 1)
  PROVE  /\ SubSeq(s, m, Len(s)) \in Text /\ Len(SubSeq(s, m, Len(s))) = Len(s) - m + 1
         /\ \A i \in 1..(Len(s) - m + 1) : SubSeq(s, m, Len(s))[i] = s[m + i - 1]
<1>1. Len(s) \in Nat /\ \A i \in 1..Len(s) : s[i] \in Bytes
  BY DEF Text
<1>2. SubSeq(s, m, Len(s)) = [i \in 1..(Len(s) - m + 1) |-> s[m + i - 1]]
  BY <1>1 DEF Text
<1>3. \A i \in 1..(Len(s) - m + 1) : m + i - 1 \in 1..Len(s)
  BY <1>1
<1>4. SubSeq(s, m, Len(s)) \in [1..(Len(s) - m + 1) -> Bytes] /\ Len(s) - m + 1 \in Nat
  BY <1>1, <1>2, <1>3
<1> QED BY <1>2, <1>4 DEF Text

\* Two texts, one after the other.
LEMMA JoinText ==
  ASSUME NEW s \in Text, NEW t \in Text
  PROVE  /\ s \o t \in Text /\ Len(s \o t) = Len(s) + Len(t)
         /\ \A i \in 1..(Len(s) + Len(t)) : (s \o t)[i] = IF i <= Len(s) THEN s[i] ELSE t[i - Len(s)]
BY DEF Text

\* A text between two others.
LEMMA JoinThree ==
  ASSUME NEW s \in Text, NEW t \in Text, NEW u \in Text
  PROVE  LET w == s \o t \o u IN
         /\ w \in Text /\ Len(w) = Len(s) + Len(t) + Len(u)
         /\ \A i \in 1..(Len(s) + Len(t) + Len(u)) :
              w[i] = IF i <= Len(s) THEN s[i]
                     ELSE IF i <= Len(s) + Len(t) THEN t[i - Len(s)] ELSE u[i - Len(s) - Len(t)]
<1> DEFINE v == s \o t
           w == v \o u
<1>0. Len(s) \in Nat /\ Len(t) \in Nat /\ Len(u) \in Nat
  BY DEF Text
<1>1. /\ v \in Text /\ Len(v) = Len(s) + Len(t)
      /\ \A i \in 1..(Len(s) + Len(t)) : v[i] = IF i <= Len(s) THEN s[i] ELSE t[i - Len(s)]
  BY JoinText
<1> HIDE DEF v
<1>2. /\ w \in Text /\ Len(w) = Len(v) + Len(u)
      /\ \A i \in 1..(Len(v) + Len(u)) : w[i] = IF i <= Len(v) THEN v[i] ELSE u[i - Len(v)]
  BY <1>1, JoinText, Zenon
<1> HIDE DEF w
<1>3. \A i \in 1..(Len(s) + Len(t) + Len(u)) :
        w[i] = IF i <= Len(s) THEN s[i]
               ELSE IF i <= Len(s) + Len(t) THEN t[i - Len(s)] ELSE u[i - Len(s) - Len(t)]
  BY <1>0, <1>1, <1>2
<1>4. w = s \o t \o u
  BY DEF w, v
<1>5. w \in Text /\ Len(w) = Len(s) + Len(t) + Len(u)
  BY <1>0, <1>1, <1>2
<1> QED BY <1>3, <1>4, <1>5

\* What match compares (cors_utils.go:14-16): the text before the star, and the text behind it.
Covers(p, at, x) ==
  /\ Len(x) >= Len(p) - 1
  /\ \A i \in 1..(at - 1) : LowerOf(x[i]) = LowerOf(p[i])
  /\ \A i \in 1..(Len(p) - at) : LowerOf(x[Len(x) - (Len(p) - at) + i]) = LowerOf(p[at + i])

\* match compares what is before and behind the star (cors_utils.go:14-16).
LEMMA MatchCovers ==
  ASSUME NEW p \in Text, NEW x \in Text, Star(p) # 0
  PROVE  match(wildcard(ToLower(p)), ToLower(x)) <=> Covers(p, Star(p), x)
<1> DEFINE q == ToLower(p)
           y == ToLower(x)
           at == Star(p)
           pre == SubSeq(q, 1, at - 1)
           suf == SubSeq(q, at + 1, Len(q))
<1>1. /\ q \in Text /\ Len(q) = Len(p) /\ \A i \in 1..Len(p) : q[i] = LowerOf(p[i])
      /\ y \in Text /\ Len(y) = Len(x) /\ \A i \in 1..Len(x) : y[i] = LowerOf(x[i])
      /\ Len(p) \in Nat /\ Len(x) \in Nat
  BY LowerText DEF Text
<1>2. at \in 1..Len(p) /\ Star(q) = at
  BY <1>1, StarValue, StarOfLower
<1>3. wildcard(q) = [prefix |-> pre, suffix |-> suf]
  BY <1>2 DEF wildcard
<1> HIDE DEF q, y, at
<1>4. /\ pre \in Text /\ Len(pre) = at - 1 /\ \A i \in 1..(at - 1) : pre[i] = q[i]
      /\ suf \in Text /\ Len(suf) = Len(p) - at /\ \A i \in 1..(Len(p) - at) : suf[i] = q[at + i]
  <2>1. PICK n, m : n = at - 1 /\ m = at + 1
    OBVIOUS
  <2>2. n \in 0..Len(q) /\ m \in 1..(Len(q) + 1)
    BY <1>1, <1>2, <2>1
  <2>3. SubSeq(q, 1, n) \in Text /\ Len(SubSeq(q, 1, n)) = n /\ \A i \in 1..n : SubSeq(q, 1, n)[i] = q[i]
    BY <1>1, <2>2, HeadText
  <2>4. /\ SubSeq(q, m, Len(q)) \in Text /\ Len(SubSeq(q, m, Len(q))) = Len(q) - m + 1
        /\ \A i \in 1..(Len(q) - m + 1) : SubSeq(q, m, Len(q))[i] = q[m + i - 1]
    BY <1>1, <2>2, TailText
  <2>5. pre = SubSeq(q, 1, n) /\ suf = SubSeq(q, m, Len(q))
    BY <2>1
  <2> HIDE DEF pre, suf
  <2>6. Len(q) - m + 1 = Len(p) - at /\ \A i \in Nat : m + i - 1 = at + i
    BY <1>1, <1>2, <2>1
  <2> QED BY <1>1, <1>2, <2>1, <2>3, <2>4, <2>5, <2>6
<1> HIDE DEF pre, suf
<1>5. Len(pre \o suf) = Len(p) - 1
  <2>1. Len(pre \o suf) = Len(pre) + Len(suf)
    BY <1>4, JoinText, Zenon
  <2> QED BY <1>1, <1>2, <1>4, <2>1
<1>6. match(wildcard(q), y) <=> Len(x) >= Len(p) - 1 /\ HasPrefix(y, pre) /\ HasSuffix(y, suf)
  BY <1>1, <1>3, <1>5 DEF match
<1>7. ASSUME Len(x) >= Len(p) - 1
      PROVE  HasPrefix(y, pre) <=> \A i \in 1..(at - 1) : LowerOf(x[i]) = LowerOf(p[i])
  <2> DEFINE z == SubSeq(y, 1, at - 1)
  <2>1. /\ at - 1 \in Nat /\ 1 <= (at - 1) + 1 /\ at - 1 <= Len(y) /\ (at - 1) - 1 + 1 = at - 1
        /\ \A i \in Nat : 1 + i - 1 = i
    BY <1>1, <1>2, <1>7
  <2>2. z \in Text /\ Len(z) = at - 1 /\ \A i \in 1..(at - 1) : z[i] = y[i]
    <3>1. PICK n : n = at - 1
      OBVIOUS
    <3>2. n \in 0..Len(y)
      BY <1>1, <2>1, <3>1
    <3>3. SubSeq(y, 1, n) \in Text /\ Len(SubSeq(y, 1, n)) = n /\ \A i \in 1..n : SubSeq(y, 1, n)[i] = y[i]
      BY <1>1, <3>2, HeadText
    <3> QED BY <3>1, <3>3
  <2>3. HasPrefix(y, pre) <=> z = pre
    BY <1>4, <2>1 DEF HasPrefix
  <2> HIDE DEF z
  <2>4. z = pre <=> \A i \in 1..(at - 1) : z[i] = pre[i]
    BY <1>4, <2>2, SameText
  <2>5. \A i \in 1..(at - 1) : z[i] = LowerOf(x[i]) /\ pre[i] = LowerOf(p[i])
    BY <1>1, <1>2, <1>4, <1>7, <2>1, <2>2
  <2> QED BY <2>3, <2>4, <2>5
<1>8. ASSUME Len(x) >= Len(p) - 1
      PROVE  HasSuffix(y, suf) <=> \A i \in 1..(Len(p) - at) : LowerOf(x[Len(x) - (Len(p) - at) + i]) = LowerOf(p[at + i])
  <2> DEFINE from == Len(y) - (Len(p) - at) + 1
             z == SubSeq(y, from, Len(y))
  <2>1. /\ from \in Nat /\ Len(y) \in Nat /\ from >= 1 /\ from <= Len(y) + 1 /\ Len(y) - from + 1 = Len(p) - at
        /\ \A i \in Nat : from + i - 1 = Len(x) - (Len(p) - at) + i
    BY <1>1, <1>2, <1>8
  <2>2. z \in Text /\ Len(z) = Len(p) - at /\ \A i \in 1..(Len(p) - at) : z[i] = y[from + i - 1]
    <3> HIDE DEF from
    <3>1. from \in 1..(Len(y) + 1)
      BY <2>1
    <3>2. z \in Text /\ Len(z) = Len(y) - from + 1 /\ \A i \in 1..(Len(y) - from + 1) : z[i] = y[from + i - 1]
      BY <1>1, <3>1, TailText
    <3> HIDE DEF z
    <3> QED BY <2>1, <3>2
  <2>3. HasSuffix(y, suf) <=> z = suf
    BY <1>1, <1>2, <1>4, <1>8, <2>1 DEF HasSuffix
  <2> HIDE DEF z, from
  <2>4. z = suf <=> \A i \in 1..(Len(p) - at) : z[i] = suf[i]
    BY <1>4, <2>2, SameText
  <2>5. ASSUME NEW i \in 1..(Len(p) - at)
        PROVE  z[i] = LowerOf(x[Len(x) - (Len(p) - at) + i]) /\ suf[i] = LowerOf(p[at + i])
    <3>1. at + i \in 1..Len(p) /\ Len(x) - (Len(p) - at) + i \in 1..Len(x) /\ i \in Nat
      BY <1>1, <1>2, <1>8
    <3> QED BY <1>1, <1>4, <2>1, <2>2, <3>1, Zenon
  <2> QED BY <2>3, <2>4, <2>5
<1>9. match(wildcard(q), y) <=> Covers(p, at, x)
  BY <1>6, <1>7, <1>8, Zenon DEF Covers
<1> QED BY <1>9, Zenon DEF q, y, at

Fill(p, i, x, j, k) == SubSeq(p, 1, i - 1) \o SubSeq(x, j + 1, k) \o SubSeq(p, i + 1, Len(p))

\* A pattern with a part of a text in the place of its star.
LEMMA FillText ==
  ASSUME NEW p \in Text, NEW x \in Text, NEW i \in 1..Len(p), NEW j \in 0..Len(x), NEW k \in 0..Len(x), j <= k
  PROVE  /\ Fill(p, i, x, j, k) \in Text /\ Len(Fill(p, i, x, j, k)) = Len(p) - 1 + (k - j)
         /\ \A t \in 1..(Len(p) - 1 + (k - j)) :
              Fill(p, i, x, j, k)[t] =
                IF t <= i - 1 THEN p[t] ELSE IF t <= i - 1 + (k - j) THEN x[j + t - (i - 1)] ELSE p[t + 1 - (k - j)]
<1>0. Len(p) \in Nat /\ Len(x) \in Nat
  BY DEF Text
<1>1. PICK n, l, m : n = i - 1 /\ l = j + 1 /\ m = i + 1
  OBVIOUS
<1>2. n \in 0..Len(p) /\ l \in 1..(k + 1) /\ m \in 1..(Len(p) + 1)
  BY <1>0, <1>1
<1> DEFINE pre == SubSeq(p, 1, n)
           mid == SubSeq(x, l, k)
           suf == SubSeq(p, m, Len(p))
<1>3. pre \in Text /\ Len(pre) = n /\ \A t \in 1..n : pre[t] = p[t]
  BY <1>2, HeadText
<1>4. mid \in Text /\ Len(mid) = k - l + 1 /\ \A t \in 1..(k - l + 1) : mid[t] = x[l + t - 1]
  BY <1>2, MiddleText
<1>5. suf \in Text /\ Len(suf) = Len(p) - m + 1 /\ \A t \in 1..(Len(p) - m + 1) : suf[t] = p[m + t - 1]
  BY <1>2, TailText
<1> DEFINE w == pre \o mid \o suf
<1>6. w = Fill(p, i, x, j, k)
  BY <1>1 DEF Fill
<1> HIDE DEF pre, mid, suf
<1>7. /\ w \in Text /\ Len(w) = Len(pre) + Len(mid) + Len(suf)
      /\ \A t \in 1..(Len(pre) + Len(mid) + Len(suf)) :
           w[t] = IF t <= Len(pre) THEN pre[t]
                  ELSE IF t <= Len(pre) + Len(mid) THEN mid[t - Len(pre)] ELSE suf[t - Len(pre) - Len(mid)]
  BY <1>3, <1>4, <1>5, JoinThree, Zenon
<1> HIDE DEF w
<1>8. Len(pre) = i - 1 /\ Len(mid) = k - j /\ Len(suf) = Len(p) - i
  BY <1>0, <1>1, <1>3, <1>4, <1>5
<1>9. ASSUME NEW t \in 1..(Len(p) - 1 + (k - j))
      PROVE  w[t] = IF t <= i - 1 THEN p[t] ELSE IF t <= i - 1 + (k - j) THEN x[j + t - (i - 1)] ELSE p[t + 1 - (k - j)]
  <2>a. t \in 1..(Len(pre) + Len(mid) + Len(suf)) /\ t \in Nat
    BY <1>0, <1>8
  <2>b. w[t] = IF t <= Len(pre) THEN pre[t]
               ELSE IF t <= Len(pre) + Len(mid) THEN mid[t - Len(pre)] ELSE suf[t - Len(pre) - Len(mid)]
    BY <1>7, <2>a
  <2>0. w[t] = IF t <= i - 1 THEN pre[t]
               ELSE IF t <= i - 1 + (k - j) THEN mid[t - (i - 1)] ELSE suf[t - (i - 1) - (k - j)]
    BY <1>8, <2>b
  <2>1. CASE t <= i - 1
    <3>1. t \in 1..n
      BY <1>0, <1>1, <2>1
    <3> QED BY <1>3, <2>0, <2>1, <3>1
  <2>2. CASE ~(t <= i - 1) /\ t <= i - 1 + (k - j)
    <3>1. t - (i - 1) \in 1..(k - l + 1) /\ l + (t - (i - 1)) - 1 = j + t - (i - 1)
      BY <1>0, <1>1, <2>2
    <3> QED BY <1>4, <2>0, <2>2, <3>1
  <2>3. CASE ~(t <= i - 1) /\ ~(t <= i - 1 + (k - j))
    <3>1. t - (i - 1) - (k - j) \in 1..(Len(p) - m + 1) /\ m + (t - (i - 1) - (k - j)) - 1 = t + 1 - (k - j)
      BY <1>0, <1>1, <2>3
    <3> QED BY <1>5, <2>0, <2>3, <3>1
  <2> QED BY <2>1, <2>2, <2>3
<1>10. Len(w) = Len(p) - 1 + (k - j)
  BY <1>0, <1>7, <1>8
<1> QED BY <1>6, <1>7, <1>9, <1>10, Zenon

\* A text is covered by a pattern exactly if it is the pattern with some text for the star.
LEMMA CoversFills ==
  ASSUME NEW p \in Text, NEW x \in Text, NEW at \in 1..Len(p)
  PROVE  Covers(p, at, x) <=>
           \E j, k \in 0..Len(x) : j <= k /\ ToLower(x) = ToLower(Fill(p, at, x, j, k))
<1>0. Len(p) \in Nat /\ Len(x) \in Nat
  BY DEF Text
<1>1. ASSUME Covers(p, at, x)
      PROVE  \E j, k \in 0..Len(x) : j <= k /\ ToLower(x) = ToLower(Fill(p, at, x, j, k))
  <2>1. PICK j, k : j = at - 1 /\ k = Len(x) - (Len(p) - at)
    OBVIOUS
  <2>2. j \in 0..Len(x) /\ k \in 0..Len(x) /\ j <= k /\ Len(p) - 1 + (k - j) = Len(x)
    BY <1>0, <1>1, <2>1 DEF Covers
  <2> DEFINE f == Fill(p, at, x, j, k)
  <2>3. /\ f \in Text /\ Len(f) = Len(x)
        /\ \A t \in 1..Len(x) :
             f[t] = IF t <= at - 1 THEN p[t] ELSE IF t <= at - 1 + (k - j) THEN x[j + t - (at - 1)] ELSE p[t + 1 - (k - j)]
    BY <2>2, FillText
  <2> HIDE DEF f
  <2>4. ASSUME NEW t \in 1..Len(x) PROVE LowerOf(x[t]) = LowerOf(f[t])
    <3>1. CASE t <= at - 1
      BY <1>0, <1>1, <2>3, <3>1 DEF Covers
    <3>2. CASE ~(t <= at - 1) /\ t <= at - 1 + (k - j)
      <4>1. j + t - (at - 1) = t
        BY <1>0, <2>1
      <4> QED BY <2>3, <3>2, <4>1
    <3>3. CASE ~(t <= at - 1) /\ ~(t <= at - 1 + (k - j))
      <4>1. PICK i : i = t - k
        OBVIOUS
      <4>2. i \in 1..(Len(p) - at) /\ Len(x) - (Len(p) - at) + i = t /\ at + i = t + 1 - (k - j)
        BY <1>0, <2>1, <2>2, <3>3, <4>1
      <4>3. LowerOf(x[Len(x) - (Len(p) - at) + i]) = LowerOf(p[at + i])
        BY <1>1, <4>2, Zenon DEF Covers
      <4> QED BY <2>3, <3>3, <4>2, <4>3
    <3> QED BY <3>1, <3>2, <3>3
  <2>5. ToLower(x) = ToLower(f)
    BY <2>3, <2>4, SameLower
  <2> QED BY <2>2, <2>5 DEF f
<1>2. ASSUME NEW j \in 0..Len(x), NEW k \in 0..Len(x), j <= k, ToLower(x) = ToLower(Fill(p, at, x, j, k))
      PROVE  Covers(p, at, x)
  <2> DEFINE f == Fill(p, at, x, j, k)
  <2>1. /\ f \in Text /\ Len(f) = Len(p) - 1 + (k - j)
        /\ \A t \in 1..(Len(p) - 1 + (k - j)) :
             f[t] = IF t <= at - 1 THEN p[t] ELSE IF t <= at - 1 + (k - j) THEN x[j + t - (at - 1)] ELSE p[t + 1 - (k - j)]
    BY <1>2, FillText
  <2>2. Len(f) = Len(x) /\ \A t \in 1..Len(x) : LowerOf(x[t]) = LowerOf(f[t])
    BY <1>2, <2>1, SameLower, Zenon
  <2> HIDE DEF f
  <2>3. Len(x) = Len(p) - 1 + (k - j)
    BY <2>1, <2>2, Zenon
  <2>4. ASSUME NEW t \in 1..(at - 1) PROVE LowerOf(x[t]) = LowerOf(p[t])
    BY <1>0, <1>2, <2>1, <2>2, <2>3
  <2>5. ASSUME NEW i \in 1..(Len(p) - at) PROVE LowerOf(x[Len(x) - (Len(p) - at) + i]) = LowerOf(p[at + i])
    <3>1. PICK t : t = Len(x) - (Len(p) - at) + i
      OBVIOUS
    <3>2. t \in 1..Len(x) /\ ~(t <= at - 1 + (k - j)) /\ ~(t <= at - 1) /\ t + 1 - (k - j) = at + i
      BY <1>0, <1>2, <2>3, <3>1
    <3>3. LowerOf(x[t]) = LowerOf(f[t]) /\ f[t] = p[t + 1 - (k - j)]
      BY <2>1, <2>2, <2>3, <3>2
    <3> QED BY Zenon, <3>1, <3>2, <3>3
  <2> QED BY <1>0, <1>2, <2>3, <2>4, <2>5 DEF Covers
<1> QED BY <1>1, <1>2

\* One pattern: what New keeps of it admits what the pattern says (cors.go:146-166).
LEMMA PatternExact ==
  ASSUME NEW p \in Text, NEW x \in Text
  PROVE  /\ Star(ToLower(p)) = 0 => (Meets(x, p) <=> ToLower(x) = ToLower(p))
         /\ Star(ToLower(p)) # 0 => (Meets(x, p) <=> match(wildcard(ToLower(p)), ToLower(x)))
<1>1. Star(ToLower(p)) = Star(p) /\ DOMAIN p = 1..Len(p) /\ Len(p) \in Nat
  BY StarOfLower DEF Text
<1>2. /\ Star(p) \in 0..Len(p) /\ (Star(p) = 0 <=> "*" \notin Range(p))
      /\ Star(p) # 0 => p[Star(p)] = "*" /\ \A n \in 1..(Star(p) - 1) : p[n] # "*"
  BY StarValue
<1>3. CASE Star(p) = 0
  BY <1>1, <1>2, <1>3 DEF Meets
<1>4. CASE Star(p) # 0
  <2>1. PICK at : at = Star(p)
    OBVIOUS
  <2>2. at \in 1..Len(p) /\ p[at] = "*" /\ \A n \in 1..(at - 1) : p[n] # "*"
    BY <1>1, <1>2, <1>4, <2>1
  <2>3. ASSUME NEW i \in 1..Len(p), p[i] = "*", \A n \in 1..(i - 1) : p[n] # "*" PROVE i = at
    BY <1>1, <2>2, <2>3
  <2>4. Meets(x, p) <=> \E i \in DOMAIN p, j, k \in 0..Len(x) :
          /\ p[i] = "*" /\ \A n \in 1..(i - 1) : p[n] # "*"
          /\ j <= k
          /\ ToLower(x) = ToLower(Fill(p, i, x, j, k))
    BY <1>2, <1>4 DEF Meets, Fill
  <2>5. Meets(x, p) <=> \E j, k \in 0..Len(x) : j <= k /\ ToLower(x) = ToLower(Fill(p, at, x, j, k))
    BY <1>1, <2>2, <2>3, <2>4
  <2>6. Meets(x, p) <=> Covers(p, at, x)
    BY <2>2, <2>5, CoversFills
  <2> QED BY <1>1, <1>4, <2>1, <2>6, MatchCovers, Zenon
<1> QED BY <1>3, <1>4, Zenon

\* A star alone is the only pattern that is one in lower case, and admits every origin.
LEMMA AllExact ==
  ASSUME NEW p \in Text, NEW x \in Text
  PROVE  /\ ToLower(p) = All <=> p = All
         /\ Meets(x, All)
<1>1. All \in Text /\ Len(All) = 1 /\ All[1] = "*"
  <2>1. "*" \in Bytes
    BY DEF Bytes
  <2> QED BY <2>1 DEF All, Text
<1>2. LowerOf("*") = "*"
  BY DEF LowerOf
<1>3. ToLower(All) \in Text /\ Len(ToLower(All)) = 1 /\ ToLower(All)[1] = "*"
  BY <1>1, <1>2, LowerText
<1>4. ToLower(All) = All
  BY <1>1, <1>3, SameText
<1>5. ASSUME ToLower(p) = All PROVE p = All
  <2>1. Len(p) = 1 /\ LowerOf(p[1]) = "*"
    BY <1>1, <1>5, LowerText
  <2>2. p[1] = "*"
    BY <2>1, Cases
  <2> QED BY <1>1, <2>1, <2>2, SameText
<1>6. Star(All) # 0 /\ Star(All) \in 0..1
  <2>1. "*" \in Range(All)
    BY <1>1 DEF Range, All
  <2> QED BY <1>1, <2>1, StarValue
<1>7. Covers(All, Star(All), x)
  <2>1. Len(x) \in Nat /\ Star(All) = 1
    BY <1>6 DEF Text
  <2> QED BY <1>1, <2>1 DEF Covers
<1>8. match(wildcard(ToLower(All)), ToLower(x))
  BY <1>1, <1>6, <1>7, MatchCovers, Zenon
<1>9. Meets(x, All)
  BY <1>1, <1>4, <1>6, <1>8, PatternExact, Zenon
<1> QED BY <1>4, <1>5, <1>9

Named(c, x) == c.originsAll \/ ToLower(x) \in c.origins \/ \E w \in c.wildcards : match(w, ToLower(x))

\* The lists that New makes of the configured origins admit what the configuration says.
LEMMA OriginsExact ==
  ASSUME NEW o, o.origins \in SUBSET Text, o.func = FALSE, NEW x \in Text
  PROVE  Named(NewCors(o), x) <=> Listed(o, x)
<1> DEFINE patterns == {ToLower(p) : p \in o.origins}
           all == IF patterns = {} THEN ~o.func ELSE All \in patterns
           c == NewCors(o)
<1>1. /\ c.originsAll = all
      /\ c.origins = IF all THEN {} ELSE {p \in patterns : Star(p) = 0}
      /\ c.wildcards = IF all THEN {} ELSE {wildcard(p) : p \in {q \in patterns : Star(q) # 0}}
  BY Zenon DEF NewCors
<1> HIDE DEF c
<1>2. CASE o.origins = {}
  <2>1. patterns = {}
    BY <1>2
  <2>2. Named(c, x)
    BY <1>1, <2>1, Zenon DEF Named
  <2> QED BY Zenon, <1>2, <2>2 DEF Listed, c
<1>3. CASE o.origins # {} /\ All \in o.origins
  <2>1. All \in patterns
    <3>1. All \in Text
      BY <1>3
    <3>2. ToLower(All) = All
      BY <3>1, AllExact
    <3> QED BY <1>3, <3>2
  <2>2. Named(c, x)
    BY <1>1, <2>1, Zenon DEF Named
  <2>3. Meets(x, All)
    BY AllExact
  <2> QED BY <1>3, <2>2, <2>3 DEF Listed, c
<1>4. CASE o.origins # {} /\ All \notin o.origins
  <2>1. patterns # {} /\ All \notin patterns
    BY <1>4, AllExact
  <2>2. ~all
    BY <2>1
  <2>3. Named(c, x) <=> \/ \E p \in o.origins : Star(ToLower(p)) = 0 /\ ToLower(x) = ToLower(p)
                        \/ \E p \in o.origins : Star(ToLower(p)) # 0 /\ match(wildcard(ToLower(p)), ToLower(x))
    <3> HIDE DEF all
    <3>1. /\ ~c.originsAll
          /\ c.origins = {p \in patterns : Star(p) = 0}
          /\ c.wildcards = {wildcard(p) : p \in {q \in patterns : Star(q) # 0}}
      BY <1>1, <2>2
    <3>2. ToLower(x) \in c.origins <=> \E p \in o.origins : Star(ToLower(p)) = 0 /\ ToLower(x) = ToLower(p)
      BY Zenon, <3>1
    <3>3. (\E w \in c.wildcards : match(w, ToLower(x))) <=>
            \E p \in o.origins : Star(ToLower(p)) # 0 /\ match(wildcard(ToLower(p)), ToLower(x))
      BY Zenon, <3>1
    <3> QED BY <3>1, <3>2, <3>3, Zenon DEF Named
  <2>4. Named(c, x) <=> \E p \in o.origins : Meets(x, p)
    BY <2>3, PatternExact, Zenon
  <2> QED BY <1>4, <2>4 DEF Listed, c
<1> QED BY Zenon, <1>2, <1>3, <1>4

-----------------------------------------------------------------------------
(* The list of headers *)

State(h, upper, out) == [h |-> h, upper |-> upper, out |-> out]
States == {State(h, upper, out) : h \in Text, upper \in BOOLEAN, out \in Seq(Text)}

\* A header's name is a text of bytes that are kept, and none of them ends it.
LEMMA NameIsText ==
  ASSUME NEW w \in HeaderName
  PROVE  /\ w \in Text /\ Len(w) \in Nat /\ Len(w) >= 1 /\ DOMAIN w = 1..Len(w)
         /\ \A i \in 1..Len(w) : w[i] \in HeaderBytes /\ w[i] \notin {",", " "}
<1>1. HeaderBytes \subseteq Bytes /\ "," \notin HeaderBytes /\ " " \notin HeaderBytes
  BY DEF HeaderBytes, Bytes
<1>2. w \in Seq(HeaderBytes) /\ w # <<>>
  BY DEF HeaderName
<1>3. Len(w) \in Nat /\ DOMAIN w = 1..Len(w) /\ \A i \in 1..Len(w) : w[i] \in HeaderBytes
  BY <1>2
<1>4. Len(w) # 0
  BY <1>2
<1>5. w \in Text
  <2>1. w \in [1..Len(w) -> HeaderBytes]
    BY <1>2
  <2>2. w \in [1..Len(w) -> Bytes]
    BY <1>1, <2>1, Zenon
  <2> QED BY <1>3, <2>2 DEF Text
<1>6. ASSUME NEW i \in 1..Len(w) PROVE w[i] \in HeaderBytes /\ w[i] \notin {",", " "}
  BY <1>1, <1>3, Zenon
<1>7. Len(w) >= 1
  BY <1>3, <1>4
<1> QED BY <1>3, <1>5, <1>6, <1>7, Zenon

\* The parts of a state.
LEMMA StateParts ==
  ASSUME NEW h, NEW upper, NEW out
  PROVE  /\ State(h, upper, out).h = h /\ State(h, upper, out).out = out
         /\ State(h, upper, out).upper = upper
BY Zenon DEF State

\* What becomes of a byte that is kept, and of one that is not.
ByteKept(h, upper, out, b) ==
  /\ b \in HeaderBytes =>
       WithByte(State(h, upper, out), b) = Append(h, IF upper THEN UpperOf(b) ELSE LowerOf(b))
  /\ b \notin HeaderBytes => WithByte(State(h, upper, out), b) = h

\* A byte of a header's name is kept, in the case its place asks for.
LEMMA KeepsByte ==
  ASSUME NEW h, NEW upper \in BOOLEAN, NEW out, NEW b
  PROVE  ByteKept(h, upper, out, b)
<1> USE DEF ByteKept
<1> DEFINE st == State(h, upper, out)
<1>a. st.h = h /\ st.upper = upper
  BY StateParts
<1> HIDE DEF st
<1>1. st.h = h /\ (st.upper <=> upper)
  <2>1. CASE upper = TRUE
    BY <1>a, <2>1, Zenon
  <2>2. CASE upper = FALSE
    BY <1>a, <2>2, Zenon
  <2> QED BY <2>1, <2>2, Zenon
<1>2. CASE b \in HeaderBytes /\ upper
  <2>1. WithByte(st, b) = Append(st.h, UpperOf(b))
    BY <1>1, <1>2, Zenon DEF WithByte
  <2>2. WithByte(st, b) = Append(h, UpperOf(b))
    BY <1>1, <2>1, Zenon
  <2> QED BY <1>2, <2>2, Zenon DEF st
<1>3. CASE b \in HeaderBytes /\ ~upper
  <2>1. WithByte(st, b) = Append(st.h, LowerOf(b))
    BY <1>1, <1>3, Zenon DEF WithByte
  <2>2. WithByte(st, b) = Append(h, LowerOf(b))
    BY <1>1, <2>1, Zenon
  <2> QED BY <1>3, <2>2, Zenon DEF st
<1>4. CASE b \notin HeaderBytes
  <2>1. WithByte(st, b) = h
    BY <1>1, <1>4, Zenon DEF WithByte
  <2> QED BY <1>4, <2>1, Zenon DEF st
<1> QED BY <1>2, <1>3, <1>4, Zenon

\* What reading a byte does, with g what the name is then: inside a name, and at its end.
ByteRead(h, upper, out, b, last, g) ==
         /\ b \notin {",", " "} /\ ~last => ReadByte(State(h, upper, out), b, last) = State(g, b = "-", out)
         /\ ~(b \notin {",", " "} /\ ~last) /\ g = <<>> =>
              ReadByte(State(h, upper, out), b, last) = State(h, upper, out)
         /\ ~(b \notin {",", " "} /\ ~last) /\ g # <<>> =>
              ReadByte(State(h, upper, out), b, last) = State(<<>>, TRUE, Append(out, g))

\* A byte is read so.
LEMMA ReadsByte ==
  ASSUME NEW h, NEW upper \in BOOLEAN, NEW out, NEW b, NEW last \in BOOLEAN
  PROVE  ByteRead(h, upper, out, b, last, WithByte(State(h, upper, out), b))
<1>0. PICK g : g = WithByte(State(h, upper, out), b)
  OBVIOUS
<1> SUFFICES ByteRead(h, upper, out, b, last, g)
  BY <1>0, Zenon
<1> USE DEF ByteRead
<1>1. State(h, upper, out).out = out
  BY StateParts
<1>2. CASE b \notin {",", " "} /\ ~last
  <2>1. ReadByte(State(h, upper, out), b, last) = [h |-> g, upper |-> b = "-", out |-> out]
    BY <1>0, <1>1, <1>2, Zenon DEF ReadByte
  <2> QED BY <1>2, <2>1, Zenon DEF State
<1>3. CASE ~(b \notin {",", " "} /\ ~last) /\ g = <<>>
  <2>1. ReadByte(State(h, upper, out), b, last) = State(h, upper, out)
    BY <1>0, <1>3, Zenon DEF ReadByte
  <2> QED BY <1>3, <2>1, Zenon
<1>4. CASE ~(b \notin {",", " "} /\ ~last) /\ g # <<>>
  <2>1. ReadByte(State(h, upper, out), b, last) = [h |-> <<>>, upper |-> TRUE, out |-> Append(out, g)]
    BY <1>0, <1>1, <1>4, Zenon DEF ReadByte
  <2> QED BY <1>4, <2>1, Zenon DEF State
<1> QED BY <1>2, <1>3, <1>4, Zenon

\* A sequence of one element.
LEMMA OneByte ==
  ASSUME NEW S, NEW x \in S
  PROVE  <<x>> \in Seq(S) /\ Len(<<x>>) = 1 /\ <<x>>[1] = x
OBVIOUS

\* The states of the reader of a header list.
LEMMA StateIn ==
  ASSUME NEW h \in Text, NEW upper \in BOOLEAN, NEW out \in Seq(Text)
  PROVE  State(h, upper, out) \in States
BY DEF States

\* Reading a byte leads from state to state (cors_utils.go:40-67).
LEMMA ReadsState ==
  ASSUME NEW st \in States, NEW b \in Bytes, NEW last \in BOOLEAN
  PROVE  ReadByte(st, b, last) \in States
<1>1. PICK h \in Text, upper \in BOOLEAN, out \in Seq(Text) : st = State(h, upper, out)
  BY DEF States
<1>2. PICK g : g = WithByte(State(h, upper, out), b)
  OBVIOUS
<1>a. ByteRead(h, upper, out, b, last, g)
  BY <1>2, ReadsByte, Zenon
<1>3. g \in Text
  <2>a. ByteKept(h, upper, out, b)
    BY KeepsByte, Zenon
  <2>1. UpperOf(b) \in Bytes /\ LowerOf(b) \in Bytes
    BY Cases
  <2>2. PICK x : x = IF upper THEN UpperOf(b) ELSE LowerOf(b)
    OBVIOUS
  <2>3. x \in Bytes
    BY <2>1, <2>2
  <2>4. Append(h, x) \in Text
    BY <2>3 DEF Text
  <2>5. CASE b \in HeaderBytes
    <3>1. WithByte(State(h, upper, out), b) = Append(h, IF upper THEN UpperOf(b) ELSE LowerOf(b))
      BY <2>5, <2>a, Zenon DEF ByteKept
    <3> QED BY <1>2, <2>2, <2>4, <3>1, Zenon
  <2>6. CASE b \notin HeaderBytes
    <3>1. WithByte(State(h, upper, out), b) = h
      BY <2>6, <2>a, Zenon DEF ByteKept
    <3> QED BY <1>2, <3>1, Zenon
  <2> QED BY <2>5, <2>6
<1>4. <<>> \in Text /\ Append(out, g) \in Seq(Text)
  <2>1. <<>> \in Text
    BY DEF Text
  <2>2. Append(out, g) \in Seq(Text)
    BY <1>3
  <2> QED BY <2>1, <2>2
<1>5. PICK dash \in BOOLEAN : dash = (b = "-")
  BY Zenon
<1>6. CASE b \notin {",", " "} /\ ~last
  <2>1. ReadByte(State(h, upper, out), b, last) = State(g, dash, out)
    BY <1>a, <1>5, <1>6, Zenon DEF ByteRead
  <2>2. State(g, dash, out) \in States
    BY <1>3, StateIn
  <2> QED BY <1>1, <2>1, <2>2, Zenon
<1>7. CASE ~(b \notin {",", " "} /\ ~last) /\ g = <<>>
  <2>1. ReadByte(State(h, upper, out), b, last) = State(h, upper, out)
    BY <1>a, <1>7, Zenon DEF ByteRead
  <2> QED BY <1>1, <2>1, Zenon
<1>8. CASE ~(b \notin {",", " "} /\ ~last) /\ g # <<>>
  <2>1. ReadByte(State(h, upper, out), b, last) = State(<<>>, TRUE, Append(out, g))
    BY <1>a, <1>8, Zenon DEF ByteRead
  <2>2. State(<<>>, TRUE, Append(out, g)) \in States
    BY <1>4, StateIn, Zenon
  <2> QED BY <1>1, <2>1, <2>2, Zenon
<1> QED BY <1>6, <1>7, <1>8, Zenon

Started == State(<<>>, TRUE, <<>>)
ParsedBy(f, list) ==
  /\ f[0] = Started
  /\ \A i \in 1..Len(list) : f[i] = ReadByte(f[i - 1], list[i], i = Len(list))
  /\ parseHeaderList(list) = f[Len(list)].out

\* The bytes of a list can be read one after another.
LEMMA ParseRecursion ==
  ASSUME NEW list \in Text
  PROVE  \E f : ParsedBy(f, list)
<1> DEFINE N == Len(list)
           F == [a \in (1..N) \X States |-> ReadByte(a[2], list[a[1]], a[1] = N)]
           P(f) == f = [i \in 0..N |-> IF i = 0 THEN Started ELSE ReadByte(f[i - 1], list[i], i = N)]
<1>1. N \in Nat /\ \A i \in 1..N : list[i] \in Bytes
  BY DEF Text
<1>2. Started \in States
  <2>1. <<>> \in Text /\ <<>> \in Seq(Text)
    BY DEF Text
  <2> QED BY <2>1, StateIn, Zenon DEF Started
<1>3. \A k \in 1..N, st \in States : ReadByte(st, list[k], k = N) \in States
  <2> TAKE k \in 1..N, st \in States
  <2>1. (k = N) \in BOOLEAN /\ list[k] \in Bytes
    BY <1>1, Zenon
  <2> QED BY <2>1, ReadsState, Zenon
<1> HIDE DEF N
<1>4. F \in Steppers(N, States) /\ \A k \in 1..N, st \in States : F[<<k, st>>] = ReadByte(st, list[k], k = N)
  BY <1>3, Zenon DEF Steppers
<1> HIDE DEF F
<1>5. PICK g : IsOrbit(g, States, Started, N, F)
  BY Zenon, <1>1, <1>2, <1>4, Orbit
<1>6. g \in [0..N -> States] /\ g[0] = Started /\ \A k \in 1..N : g[k] = F[<<k, g[k - 1]>>]
  BY <1>5 DEF IsOrbit
<1>7. \A k \in 0..N : g[k] = IF k = 0 THEN Started ELSE ReadByte(g[k - 1], list[k], k = N)
  <2> TAKE k \in 0..N
  <2>1. CASE k # 0
    <3>1. k \in 1..N /\ k - 1 \in 0..N
      BY <1>1, <2>1
    <3>2. g[k - 1] \in States /\ g[k] = F[<<k, g[k - 1]>>]
      BY <1>6, <3>1
    <3>3. g[k] = ReadByte(g[k - 1], list[k], k = N)
      BY <1>4, <3>1, <3>2, Zenon
    <3> QED BY <2>1, <3>3, Zenon
  <2> QED BY <1>6, <2>1
<1>8. P(g)
  BY <1>6, <1>7
<1>9. parseHeaderList(list) = (CHOOSE f : P(f))[N].out
  BY Zenon DEF parseHeaderList, N, Started, State
<1>10. PICK f : P(f) /\ parseHeaderList(list) = f[N].out
  <2> HIDE DEF P
  <2> QED BY <1>8, <1>9, Zenon
<1>11. \A i \in 0..N : f[i] = IF i = 0 THEN Started ELSE ReadByte(f[i - 1], list[i], i = N)
  BY <1>10, Zenon
<1>12. f[0] = Started
  BY <1>1, <1>11
<1>13. ASSUME NEW i \in 1..N PROVE f[i] = ReadByte(f[i - 1], list[i], i = N)
  <2>1. i \in 0..N /\ i # 0
    BY <1>1
  <2> QED BY <1>11, <2>1, Zenon
<1>14. ParsedBy(f, list)
  BY <1>10, <1>12, <1>13, Zenon DEF ParsedBy, N
<1> QED BY <1>14

JoinedBy(f, hs) ==
  /\ f \in [0..Len(hs) -> Text] /\ f[0] = <<>>
  /\ \A i \in 1..Len(hs) : f[i] = f[i - 1] \o (IF i = 1 THEN <<>> ELSE <<",">>) \o hs[i]
  /\ Joined(hs) = f[Len(hs)]

\* The names can be put one behind another.
LEMMA JoinRecursion ==
  ASSUME NEW hs \in Seq(HeaderName)
  PROVE  \E f : JoinedBy(f, hs)
<1> DEFINE N == Len(hs)
           Behind(s, k) == s \o (IF k = 1 THEN <<>> ELSE <<",">>) \o hs[k]
           F == [a \in (1..N) \X Text |-> Behind(a[2], a[1])]
           P(f) == f = [i \in 0..N |-> IF i = 0 THEN <<>> ELSE Behind(f[i - 1], i)]
<1>1. N \in Nat /\ \A i \in 1..N : hs[i] \in Text
  <2>1. N \in Nat /\ \A i \in 1..N : hs[i] \in HeaderName
    OBVIOUS
  <2> QED BY <2>1, NameIsText, Zenon
<1>2. <<>> \in Text /\ <<",">> \in Text
  <2>1. "," \in Bytes
    BY DEF Bytes
  <2>2. <<>> \in Seq(Bytes)
    OBVIOUS
  <2>3. <<",">> \in Seq(Bytes)
    BY <2>1, OneByte, Zenon
  <2> QED BY <2>2, <2>3, Zenon DEF Text
<1>3. \A k \in 1..N, s \in Text : Behind(s, k) \in Text
  BY <1>1, <1>2, JoinText, Zenon
<1> HIDE DEF N, Behind
<1>4. F \in Steppers(N, Text) /\ \A k \in 1..N, s \in Text : F[<<k, s>>] = Behind(s, k)
  BY <1>3, Zenon DEF Steppers
<1> HIDE DEF F
<1>5. PICK g : IsOrbit(g, Text, <<>>, N, F)
  BY <1>1, <1>2, <1>4, Orbit, Zenon
<1>6. g \in [0..N -> Text] /\ g[0] = <<>> /\ \A k \in 1..N : g[k] = F[<<k, g[k - 1]>>]
  BY <1>5 DEF IsOrbit
<1>7. \A k \in 0..N : g[k] = IF k = 0 THEN <<>> ELSE Behind(g[k - 1], k)
  <2> TAKE k \in 0..N
  <2>1. CASE k # 0
    <3>1. k \in 1..N /\ k - 1 \in 0..N
      BY <1>1, <2>1
    <3>2. g[k - 1] \in Text /\ g[k] = F[<<k, g[k - 1]>>]
      BY <1>6, <3>1
    <3> QED BY <1>4, <2>1, <3>1, <3>2
  <2> QED BY <1>6, <2>1
<1>8. P(g)
  BY <1>6, <1>7
<1>9. Joined(hs) = (CHOOSE f : P(f))[N]
  BY Zenon DEF Joined, N, Behind
<1>10. PICK f : P(f) /\ Joined(hs) = f[N]
  <2> HIDE DEF P
  <2> QED BY <1>8, <1>9, Zenon
<1>11. \A i \in 0..N : f[i] = IF i = 0 THEN <<>> ELSE Behind(f[i - 1], i)
  BY <1>10, Zenon
<1> DEFINE T == {n \in Nat : n <= N => f[n] \in Text}
<1>12. 0 \in T
  <2>a. 0 \in 0..N
    BY <1>1
  <2>1. f[0] = <<>>
    BY <1>11, <2>a, Zenon
  <2> QED BY <1>2, <2>1, Zenon
<1>13. ASSUME NEW n \in T PROVE n + 1 \in T
  <2> SUFFICES ASSUME n + 1 <= N PROVE f[n + 1] \in Text
    OBVIOUS
  <2>1. n + 1 \in 1..N /\ n + 1 \in 0..N /\ n + 1 # 0 /\ (n + 1) - 1 = n /\ n <= N
    BY <1>1
  <2>2. f[n] \in Text
    BY <2>1
  <2>3. f[n + 1] = Behind(f[n], n + 1)
    BY <1>11, <2>1
  <2> QED BY <1>3, <2>1, <2>2, <2>3
<1>14. T = Nat
  <2> HIDE DEF T
  <2>1. T \in SUBSET Nat
    BY DEF T
  <2> QED BY <1>12, <1>13, <2>1, NatSetInduction
<1>15. f \in [0..N -> Text]
  <2>1. \A i \in 0..N : f[i] \in Text
    BY <1>1, <1>14
  <2>2. f = [i \in 0..N |-> f[i]]
    BY <1>10, <1>11
  <2> QED BY <2>1, <2>2
<1>16. f[0] = <<>> /\ \A i \in 1..N : f[i] = Behind(f[i - 1], i)
  BY <1>1, <1>11
<1>17. JoinedBy(f, hs)
  BY <1>10, <1>15, <1>16, Zenon DEF JoinedBy, N, Behind
<1> QED BY <1>17

Begins(f, hs, k) == Len(f[k]) - Len(hs[k])
LaidAt(f, hs, list, k) ==
  /\ Begins(f, hs, k) \in Nat /\ Begins(f, hs, k) = (IF k = 1 THEN 0 ELSE Len(f[k - 1]) + 1)
  /\ Len(f[k]) = Begins(f, hs, k) + Len(hs[k])
  /\ k # 1 => list[Begins(f, hs, k)] = ","
  /\ \A j \in 1..Len(hs[k]) : list[Begins(f, hs, k) + j] = hs[k][j]
  /\ Len(f[k]) <= Len(list)
  /\ k = Len(hs) => Len(f[k]) = Len(list)
  /\ k < Len(hs) => Len(f[k]) < Len(list)

\* What putting a name behind the others does to them.
Follows(s, w, first, t) ==
  /\ Len(t) = Len(s) + (IF first THEN 0 ELSE 1) + Len(w)
  /\ \A i \in 1..Len(s) : t[i] = s[i]
  /\ ~first => t[Len(s) + 1] = ","
  /\ \A j \in 1..Len(w) : t[(Len(t) - Len(w)) + j] = w[j]

Parted(s, c, w, t) ==
  /\ Len(t) = Len(s) + 1 + Len(w) /\ Len(s) \in Nat /\ Len(w) \in Nat
  /\ \A i \in 1..Len(s) : t[i] = s[i]
  /\ t[Len(s) + 1] = c[1]
  /\ \A j \in 1..Len(w) : t[Len(s) + 1 + j] = w[j]

\* A text of one byte between two others.
LEMMA Between ==
  ASSUME NEW s \in Text, NEW c \in Text, NEW w \in Text, Len(c) = 1
  PROVE  Parted(s, c, w, s \o c \o w)
<1>a. PICK t : t = s \o c \o w
  BY Zenon
<1>0. PICK v : v = s \o c
  BY Zenon
<1>1. /\ v \in Text /\ Len(v) = Len(s) + Len(c)
      /\ \A i \in 1..(Len(s) + Len(c)) : v[i] = IF i <= Len(s) THEN s[i] ELSE c[i - Len(s)]
  BY <1>0, JoinText, Zenon
<1>2. t = v \o w
  BY <1>0, <1>a
<1>3. /\ Len(t) = Len(v) + Len(w)
      /\ \A i \in 1..(Len(v) + Len(w)) : t[i] = IF i <= Len(v) THEN v[i] ELSE w[i - Len(v)]
  <2>1. v \in Text
    BY <1>1
  <2>2. /\ Len(v \o w) = Len(v) + Len(w)
        /\ \A i \in 1..(Len(v) + Len(w)) : (v \o w)[i] = IF i <= Len(v) THEN v[i] ELSE w[i - Len(v)]
    BY <2>1, JoinText
  <2> QED BY <1>2, <2>2, Zenon
<1>4. PICK n, m : n = Len(s) /\ m = Len(w)
  BY Zenon
<1>5. n \in Nat /\ m \in Nat /\ Len(v) = n + 1
  BY <1>1, <1>4 DEF Text
<1>6. Len(t) = n + 1 + m
  BY <1>3, <1>4, <1>5
<1>7. \A i \in 1..n : t[i] = s[i]
  <2> TAKE i \in 1..n
  <2>1. i \in 1..(Len(v) + Len(w)) /\ i <= Len(v) /\ i \in 1..(Len(s) + Len(c)) /\ i <= Len(s)
    BY <1>4, <1>5
  <2> QED BY <1>1, <1>3, <2>1, Zenon
<1>8. t[n + 1] = c[1]
  <2>1. PICK i : i = n + 1
    OBVIOUS
  <2>2. i \in 1..(Len(v) + Len(w)) /\ i <= Len(v) /\ i \in 1..(Len(s) + Len(c)) /\ ~(i <= Len(s)) /\ i - Len(s) = 1
    BY <1>4, <1>5, <2>1
  <2>3. t[i] = c[1]
    BY <1>1, <1>3, <2>2, Zenon
  <2> QED BY <2>1, <2>3, Zenon
<1>9. ASSUME NEW j \in 1..m PROVE t[n + 1 + j] = w[j]
  <2>1. PICK i : i = n + 1 + j
    OBVIOUS
  <2>2. i \in 1..(Len(v) + Len(w)) /\ ~(i <= Len(v)) /\ i - Len(v) = j
    BY <1>4, <1>5, <2>1
  <2>3. t[i] = w[j]
    BY <1>3, <2>2, Zenon
  <2> QED BY <2>1, <2>3, Zenon
<1> QED BY <1>a, <1>4, <1>5, <1>6, <1>7, <1>8, <1>9, Zenon DEF Parted

\* A name is put behind those already joined, after a comma unless it is the first.
LEMMA PutBehind ==
  ASSUME NEW s \in Text, NEW w \in Text, NEW first \in BOOLEAN, first => s = <<>>
  PROVE  Follows(s, w, first, s \o (IF first THEN <<>> ELSE <<",">>) \o w)
<1>1. CASE first
  <2>1. s \o (IF first THEN <<>> ELSE <<",">>) \o w = w
    BY <1>1 DEF Text
  <2>2. Len(s) = 0 /\ Len(w) \in Nat
    BY <1>1 DEF Text
  <2>3. Follows(s, w, first, w)
    <3>1. Len(w) = Len(s) + (IF first THEN 0 ELSE 1) + Len(w)
      BY <1>1, <2>2
    <3>2. \A i \in 1..Len(s) : w[i] = s[i]
      BY <2>2
    <3>3. \A j \in 1..Len(w) : w[(Len(w) - Len(w)) + j] = w[j]
      BY <2>2
    <3> QED BY <1>1, <3>1, <3>2, <3>3, Zenon DEF Follows
  <2> QED BY <2>1, <2>3, Zenon
<1>2. CASE ~first
  <2>1. PICK c : c = <<",">>
    BY Zenon
  <2>2. c \in Text /\ Len(c) = 1 /\ c[1] = ","
    <3>1. "," \in Bytes
      BY DEF Bytes
    <3> QED BY <2>1, <3>1, OneByte, Zenon DEF Text
  <2>3. PICK t : t = s \o c \o w
    BY Zenon
  <2>4. /\ Len(t) = Len(s) + 1 + Len(w) /\ Len(s) \in Nat /\ Len(w) \in Nat
        /\ \A i \in 1..Len(s) : t[i] = s[i]
        /\ t[Len(s) + 1] = c[1]
        /\ \A j \in 1..Len(w) : t[Len(s) + 1 + j] = w[j]
    <3>1. Parted(s, c, w, t)
      BY <2>2, <2>3, Between, Zenon
    <3> QED BY <3>1, Zenon DEF Parted
  <2>5. Len(t) - Len(w) = Len(s) + 1
    BY <2>4
  <2>6. Follows(s, w, first, t)
    <3>1. Len(t) = Len(s) + (IF first THEN 0 ELSE 1) + Len(w)
      BY <1>2, <2>4
    <3> QED BY <2>2, <2>4, <2>5, <3>1, Zenon DEF Follows
  <2>7. s \o (IF first THEN <<>> ELSE <<",">>) \o w = t
    BY <1>2, <2>1, <2>3, Zenon
  <2> QED BY <2>6, <2>7, Zenon
<1> QED BY <1>1, <1>2, Zenon

\* A list that others were put behind still begins the same.
Leads(s, t) == Len(s) <= Len(t) /\ \A i \in 1..Len(s) : t[i] = s[i]

\* The joined names begin with those joined before.
LEMMA LeadsOn ==
  ASSUME NEW hs \in Seq(HeaderName), NEW f, JoinedBy(f, hs)
  PROVE  /\ \A k \in 1..Len(hs) : Follows(f[k - 1], hs[k], k = 1, f[k])
         /\ \A m \in 0..Len(hs), k \in 0..Len(hs) : k <= m => Leads(f[k], f[m])
<1>0. PICK N : N = Len(hs)
  OBVIOUS
<1>1. N \in Nat /\ \A k \in 1..N : hs[k] \in Text
  <2>1. N \in Nat /\ \A i \in 1..N : hs[i] \in HeaderName
    BY <1>0
  <2> QED BY <2>1, NameIsText, Zenon
<1>2. f \in [0..N -> Text] /\ f[0] = <<>>
  BY <1>0, Zenon DEF JoinedBy
<1>3. ASSUME NEW k \in 1..N PROVE Follows(f[k - 1], hs[k], k = 1, f[k])
  <2>1. k - 1 \in 0..N /\ (k = 1 => k - 1 = 0)
    BY <1>1
  <2>2. f[k - 1] \in Text /\ (k = 1 => f[k - 1] = <<>>) /\ hs[k] \in Text
    BY <1>1, <1>2, <2>1, Zenon
  <2>3. f[k] = f[k - 1] \o (IF k = 1 THEN <<>> ELSE <<",">>) \o hs[k]
    BY <1>0, Zenon DEF JoinedBy
  <2>4. (k = 1) \in BOOLEAN
    OBVIOUS
  <2>5. Follows(f[k - 1], hs[k], k = 1, f[k - 1] \o (IF k = 1 THEN <<>> ELSE <<",">>) \o hs[k])
    BY <2>2, <2>4, PutBehind, Zenon
  <2> QED BY <2>3, <2>5, Zenon
<1>4. \A k \in 0..N : f[k] \in Text /\ Len(f[k]) \in Nat
  BY <1>2 DEF Text
<1>5. \A k \in 1..N : Leads(f[k - 1], f[k])
  <2> TAKE k \in 1..N
  <2>1. k - 1 \in 0..N /\ k \in 0..N
    BY <1>1
  <2>2. Len(f[k - 1]) \in Nat /\ Len(hs[k]) \in Nat
    BY <1>1, <1>4, <2>1 DEF Text
  <2>3. Len(f[k]) = Len(f[k - 1]) + (IF k = 1 THEN 0 ELSE 1) + Len(hs[k])
    BY <1>3, Zenon DEF Follows
  <2>4. Len(f[k - 1]) <= Len(f[k])
    <3>1. PICK a, b, c : a = Len(f[k - 1]) /\ b = Len(f[k]) /\ c = Len(hs[k])
      BY Zenon
    <3>2. a \in Nat /\ c \in Nat /\ b = a + (IF k = 1 THEN 0 ELSE 1) + c
      BY <2>2, <2>3, <3>1, Zenon
    <3>3. b = a + 0 + c \/ b = a + 1 + c
      BY <3>2, Zenon
    <3>4. a <= b
      BY <3>2, <3>3
    <3> QED BY <3>1, <3>4, Zenon
  <2>5. \A i \in 1..Len(f[k - 1]) : f[k][i] = f[k - 1][i]
    BY <1>3, Zenon DEF Follows
  <2> QED BY <2>4, <2>5, Zenon DEF Leads
<1> DEFINE T == {m \in Nat : m <= N => \A k \in 0..m : Leads(f[k], f[m])}
<1>6. \A k \in 0..N : Leads(f[k], f[k])
  <2> TAKE k \in 0..N
  <2>1. Len(f[k]) <= Len(f[k])
    BY <1>4
  <2> QED BY <2>1 DEF Leads
<1>7. 0 \in T
  BY <1>1, <1>6
<1>8. ASSUME NEW m \in T PROVE m + 1 \in T
  <2> SUFFICES ASSUME m + 1 <= N, NEW k \in 0..(m + 1) PROVE Leads(f[k], f[m + 1])
    OBVIOUS
  <2>0. m \in 0..N /\ m + 1 \in 1..N /\ m + 1 \in 0..N /\ (m + 1) - 1 = m
    BY <1>1
  <2>1. CASE k = m + 1
    BY <1>6, <2>0, <2>1
  <2>2. CASE k # m + 1
    <3>1. k \in 0..m /\ k \in 0..N
      BY <1>1, <2>2
    <3>2. Leads(f[k], f[m]) /\ Leads(f[m], f[m + 1])
      BY <1>1, <1>5, <2>0, <3>1
    <3>3. Len(f[k]) \in Nat /\ Len(f[m]) \in Nat /\ Len(f[m + 1]) \in Nat
      BY <1>4, <2>0, <3>1
    <3>4. Len(f[k]) <= Len(f[m + 1])
      BY <3>2, <3>3 DEF Leads
    <3>5. ASSUME NEW i \in 1..Len(f[k]) PROVE f[m + 1][i] = f[k][i]
      <4>1. i \in 1..Len(f[m])
        BY <3>2, <3>3 DEF Leads
      <4> QED BY <3>2, <4>1, Zenon DEF Leads
    <3> QED BY <3>4, <3>5, Zenon DEF Leads
  <2> QED BY <2>1, <2>2
<1>9. T = Nat
  <2> HIDE DEF T
  <2>1. T \in SUBSET Nat
    BY DEF T
  <2> QED BY <1>7, <1>8, <2>1, NatSetInduction
<1>10. ASSUME NEW m \in 0..N, NEW k \in 0..N, k <= m PROVE Leads(f[k], f[m])
  <2>1. m \in T /\ m <= N /\ k \in 0..m
    BY <1>1, <1>9, <1>10
  <2> QED BY <2>1
<1> QED BY <1>0, <1>3, <1>10, Zenon

\* Where the names are in the list of them.
LEMMA Layout ==
  ASSUME NEW hs \in Seq(HeaderName), NEW f, JoinedBy(f, hs), NEW list, list = f[Len(hs)], NEW k \in 1..Len(hs)
  PROVE  LaidAt(f, hs, list, k)
<1>0. PICK N : N = Len(hs)
  OBVIOUS
<1>1. N \in Nat /\ \A i \in 1..N : hs[i] \in Text /\ Len(hs[i]) \in Nat /\ Len(hs[i]) >= 1
  <2>1. N \in Nat /\ \A i \in 1..N : hs[i] \in HeaderName
    BY <1>0
  <2> QED BY <2>1, NameIsText, Zenon
<1>2. \A i \in 0..N : Len(f[i]) \in Nat
  <2>1. f \in [0..N -> Text]
    BY <1>0, Zenon DEF JoinedBy
  <2> QED BY <2>1 DEF Text
<1>3. \A i \in 1..N : Follows(f[i - 1], hs[i], i = 1, f[i])
  BY <1>0, LeadsOn, Zenon
<1>4. \A i \in 0..N : i <= N => Leads(f[i], f[N])
  <2>1. N \in 0..N
    BY <1>1
  <2> QED BY <1>0, <2>1, LeadsOn, Zenon
<1>5. k \in 1..N /\ k \in 0..N /\ k - 1 \in 0..N /\ k <= N /\ N \in 0..N /\ (k = 1 => k - 1 = 0)
  BY <1>0, <1>1
<1>6. PICK a, b, c, n : a = Len(f[k - 1]) /\ b = Len(f[k]) /\ c = Len(hs[k]) /\ n = Len(list)
  BY Zenon
<1>7. a \in Nat /\ b \in Nat /\ c \in Nat /\ c >= 1 /\ n \in Nat /\ (k = 1 => a = 0)
  <2>1. f[0] = <<>>
    BY Zenon DEF JoinedBy
  <2>2. Len(f[0]) = 0
    BY <2>1
  <2>3. list = f[N]
    BY <1>0, Zenon
  <2>4. a \in Nat /\ b \in Nat /\ n \in Nat
    BY <1>2, <1>5, <1>6, <2>3, Zenon
  <2>5. c \in Nat /\ c >= 1
    BY <1>1, <1>5, <1>6, Zenon
  <2>6. k = 1 => a = 0
    BY <1>5, <1>6, <2>2, Zenon
  <2> QED BY <2>4, <2>5, <2>6
<1>8. b = a + (IF k = 1 THEN 0 ELSE 1) + c
  BY <1>3, <1>5, <1>6, Zenon DEF Follows
<1>9. b <= n /\ \A i \in 1..b : list[i] = f[k][i]
  BY <1>0, <1>4, <1>5, <1>6, Zenon DEF Leads
<1>10. Begins(f, hs, k) = b - c
  BY <1>6, Zenon DEF Begins
<1>11. PICK s : s = b - c
  OBVIOUS
<1>12. (k = 1 /\ b = a + 0 + c) \/ (k # 1 /\ b = a + 1 + c)
  BY <1>8, Zenon
<1>13. s \in Nat /\ b = s + c /\ (k = 1 => s = 0) /\ (k # 1 => s = a + 1)
  BY <1>7, <1>11, <1>12
<1>14. k # 1 => list[s] = ","
  <2>1. k # 1 => f[k][a + 1] = ","
    BY <1>3, <1>5, <1>6, Zenon DEF Follows
  <2>2. k # 1 => s \in 1..b
    BY <1>7, <1>13
  <2> QED BY <1>9, <1>13, <2>1, <2>2, Zenon
<1>15. ASSUME NEW j \in 1..c PROVE list[s + j] = hs[k][j]
  <2>1. f[k][(b - c) + j] = hs[k][j]
    BY <1>3, <1>5, <1>6, Zenon DEF Follows
  <2>2. PICK i : i = s + j
    OBVIOUS
  <2>3. i \in 1..b
    BY <1>7, <1>13, <2>2
  <2> QED BY <1>9, <1>11, <2>1, <2>2, <2>3, Zenon
<1>16. k = N => b = n
  BY <1>0, <1>6, Zenon
<1>17. ASSUME k < N PROVE b < n
  <2>1. PICK m : m = k + 1
    OBVIOUS
  <2>2. m \in 1..N /\ m \in 0..N /\ m - 1 = k /\ m <= N /\ m # 1
    BY <1>1, <1>5, <1>17, <2>1
  <2>3. PICK e, g : e = Len(f[m]) /\ g = Len(hs[m])
    BY Zenon
  <2>4. e = b + 1 + g
    BY <1>3, <1>6, <2>2, <2>3, Zenon DEF Follows
  <2>5. e <= n
    BY <1>0, <1>4, <1>6, <2>2, <2>3, Zenon DEF Leads
  <2>6. e \in Nat /\ g \in Nat
    BY <1>1, <1>2, <2>2, <2>3, Zenon
  <2> QED BY <1>7, <2>4, <2>5, <2>6
<1>18. s = IF k = 1 THEN 0 ELSE a + 1
  BY <1>13, Zenon
<1>19. /\ Begins(f, hs, k) = s /\ s \in Nat /\ s = (IF k = 1 THEN 0 ELSE Len(f[k - 1]) + 1)
       /\ Len(f[k]) = s + Len(hs[k])
  BY <1>6, <1>10, <1>11, <1>13, <1>18, Zenon
<1>20. /\ \A j \in 1..Len(hs[k]) : list[s + j] = hs[k][j]
       /\ Len(f[k]) <= Len(list)
  BY <1>6, <1>9, <1>15, Zenon
<1>21. (k = Len(hs) => Len(f[k]) = Len(list)) /\ (k < Len(hs) => Len(f[k]) < Len(list))
  BY <1>0, <1>6, <1>16, <1>17, Zenon
<1> QED BY <1>14, <1>19, <1>20, <1>21, Zenon DEF LaidAt

Lead(w, j) == [i \in 1..j |-> CanonicalHeaderKey(w)[i]]
Capital(w, j) == j = 0 \/ w[j] = "-"

\* The next byte of the name in its canonical form.
LEMMA NextByte ==
  ASSUME NEW w \in HeaderName, NEW j \in Nat, j < Len(w)
  PROVE  /\ Append(Lead(w, j), IF Capital(w, j) THEN UpperOf(w[j + 1]) ELSE LowerOf(w[j + 1])) = Lead(w, j + 1)
         /\ Lead(w, j) \in Text /\ Lead(w, j + 1) # <<>>
         /\ Lead(w, Len(w)) = CanonicalHeaderKey(w)
<1>0. PICK n : n = Len(w)
  OBVIOUS
<1>1. w \in Text /\ n \in Nat /\ n >= 1 /\ DOMAIN w = 1..n
  BY <1>0, NameIsText, Zenon
<1>2. PICK key : key = CanonicalHeaderKey(w)
  OBVIOUS
<1>3. key = [i \in 1..n |-> IF i = 1 THEN UpperOf(w[i])
                         ELSE IF w[i - 1] = "-" THEN UpperOf(w[i]) ELSE LowerOf(w[i])]
  BY <1>1, <1>2, Zenon DEF CanonicalHeaderKey
<1>4. key \in Text /\ Len(key) = n /\ DOMAIN key = 1..n
  <2>1. key \in Text
    BY <1>1, <1>2, CanonicalText
  <2>2. DOMAIN key = 1..n
    BY <1>3
  <2> QED BY <1>1, <2>1, <2>2 DEF Text
<1>5. PICK m : m = j + 1
  OBVIOUS
<1>6. m \in 1..n /\ m \in Nat /\ m - 1 = j /\ (m = 1 <=> j = 0)
  BY <1>0, <1>1, <1>5
<1>7. key[m] = IF Capital(w, j) THEN UpperOf(w[m]) ELSE LowerOf(w[m])
  <2>1. key[m] = IF m = 1 THEN UpperOf(w[m]) ELSE IF w[m - 1] = "-" THEN UpperOf(w[m]) ELSE LowerOf(w[m])
    BY <1>3, <1>6, Zenon
  <2>2. CASE j = 0
    BY <1>6, <2>1, <2>2, Zenon DEF Capital
  <2>3. CASE j # 0
    BY <1>6, <2>1, <2>3, Zenon DEF Capital
  <2> QED BY <2>2, <2>3, Zenon
<1>8. \A i \in 0..n : /\ Lead(w, i) = [h \in 1..i |-> key[h]]
                      /\ Lead(w, i) \in Text /\ Len(Lead(w, i)) = i
  <2> TAKE i \in 0..n
  <2>1. Lead(w, i) = [h \in 1..i |-> key[h]]
    BY <1>2, Zenon DEF Lead
  <2>2. \A h \in 1..i : h \in 1..n /\ key[h] \in Bytes
    BY <1>1, <1>4 DEF Text
  <2>3. Lead(w, i) \in [1..i -> Bytes] /\ i \in Nat
    BY <1>1, <2>1, <2>2
  <2> QED BY <2>1, <2>3 DEF Text
<1>9. j \in 0..n /\ m \in 0..n /\ n \in 0..n
  BY <1>0, <1>1, <1>6
<1>10. Append(Lead(w, j), key[m]) = Lead(w, m)
  <2>1. PICK x, y, z : x = Lead(w, j) /\ y = Lead(w, m) /\ z = key[m]
    OBVIOUS
  <2>2. x \in Text /\ Len(x) = j /\ y \in Text /\ Len(y) = m /\ z \in Bytes
    BY <1>4, <1>6, <1>8, <1>9, <2>1 DEF Text
  <2>3. /\ x = [h \in 1..j |-> key[h]] /\ y = [h \in 1..m |-> key[h]]
    BY <1>8, <1>9, <2>1, Zenon
  <2>4. Append(x, z) \in Text /\ Len(Append(x, z)) = m
    BY <1>5, <2>2 DEF Text
  <2>5. \A h \in 1..m : Append(x, z)[h] = y[h]
    <3> TAKE h \in 1..m
    <3>1. CASE h = m
      <4>1. Append(x, z)[m] = z
        BY <1>5, <2>2 DEF Text
      <4>2. y[m] = z
        BY <1>6, <2>1, <2>3
      <4> QED BY <3>1, <4>1, <4>2
    <3>2. CASE h # m
      <4>1. h \in 1..j
        BY <1>5, <1>6, <3>2
      <4>2. Append(x, z)[h] = x[h]
        BY <2>2, <4>1 DEF Text
      <4> QED BY <2>3, <4>1, <4>2
    <3> QED BY <3>1, <3>2, Zenon
  <2>6. Append(x, z) = y
    BY <2>2, <2>4, <2>5, SameText, Zenon
  <2> QED BY <2>1, <2>6, Zenon
<1>11. Lead(w, n) = key
  <2>1. Lead(w, n) = [h \in 1..n |-> key[h]]
    BY <1>8, <1>9, Zenon
  <2> QED BY <1>3, <2>1
<1>12. Lead(w, m) # <<>>
  <2>1. Len(Lead(w, m)) = m
    BY <1>8, <1>9
  <2> QED BY <1>6, <2>1
<1> QED BY <1>0, <1>2, <1>5, <1>7, <1>8, <1>9, <1>10, <1>11, <1>12, Zenon

Steps(f, list) ==
  \A i \in 1..Len(list) : f[i] = ReadByte(f[i - 1], list[i], i = Len(list))

NextRead(w, j, out, last, st) ==
  /\ ~last => ReadByte(st, w[j + 1], last) = State(Lead(w, j + 1), Capital(w, j + 1), out)
  /\ last => ReadByte(st, w[j + 1], last) = State(<<>>, TRUE, Append(out, Lead(w, j + 1)))

\* Reading the next byte of a name from its place in the list.
LEMMA ReadNext ==
  ASSUME NEW w \in HeaderName, NEW j \in Nat, j < Len(w), NEW out, NEW last \in BOOLEAN,
         NEW st, st = State(Lead(w, j), Capital(w, j), out)
  PROVE  NextRead(w, j, out, last, st)
<1>0. PICK b, h, big, m : b = w[j + 1] /\ h = Lead(w, j) /\ big = Capital(w, j) /\ m = j + 1
  OBVIOUS
<1>1. b \in HeaderBytes /\ b \notin {",", " "}
  <2>a. Len(w) \in Nat
    BY NameIsText, Zenon
  <2>1. j + 1 \in 1..Len(w)
    BY <2>a
  <2> QED BY <1>0, <2>1, NameIsText, Zenon
<1>2. big \in BOOLEAN
  BY <1>0 DEF Capital
<1>3. PICK g : g = WithByte(State(h, big, out), b)
  OBVIOUS
<1>4. ByteKept(h, big, out, b) /\ ByteRead(h, big, out, b, last, g)
  BY <1>2, <1>3, KeepsByte, ReadsByte, Zenon
<1>5. WithByte(State(h, big, out), b) = Append(h, IF big THEN UpperOf(b) ELSE LowerOf(b))
  BY <1>1, <1>4, Zenon DEF ByteKept
<1>6. /\ Append(h, IF big THEN UpperOf(b) ELSE LowerOf(b)) = Lead(w, m) /\ Lead(w, m) # <<>>
  BY <1>0, NextByte, Zenon
<1>7. g = Lead(w, m) /\ g # <<>>
  <2>1. PICK x : x = Append(h, IF big THEN UpperOf(b) ELSE LowerOf(b))
    BY Zenon
  <2>2. x = Lead(w, m) /\ Lead(w, m) # <<>>
    BY <1>6, <2>1, Zenon
  <2>3. g = x
    BY <1>3, <1>5, <2>1, Zenon
  <2> QED BY <2>2, <2>3, Zenon
<1>8. st = State(h, big, out)
  BY <1>0, Zenon
<1>9. ASSUME ~last PROVE ReadByte(st, b, last) = State(Lead(w, m), Capital(w, m), out)
  <2>1. ReadByte(State(h, big, out), b, last) = State(g, b = "-", out)
    BY <1>1, <1>4, <1>9, Zenon DEF ByteRead
  <2>2. Capital(w, m) = (b = "-")
    <3>1. m # 0 /\ w[m] = b
      BY <1>0
    <3> QED BY <3>1, Zenon DEF Capital
  <2> QED BY <1>7, <1>8, <2>1, <2>2, Zenon
<1>10. ASSUME last PROVE ReadByte(st, b, last) = State(<<>>, TRUE, Append(out, Lead(w, m)))
  <2>1. ReadByte(State(h, big, out), b, last) = State(<<>>, TRUE, Append(out, g))
    BY <1>4, <1>7, <1>10, Zenon DEF ByteRead
  <2> QED BY <1>7, <1>8, <2>1, Zenon
<1> QED BY <1>0, <1>9, <1>10, Zenon DEF NextRead

\* Reading the comma that ends a name.
LEMMA ReadComma ==
  ASSUME NEW h, h # <<>>, NEW big \in BOOLEAN, NEW out, NEW last \in BOOLEAN
  PROVE  ReadByte(State(h, big, out), ",", last) = State(<<>>, TRUE, Append(out, h))
<1>1. PICK b : b = ","
  BY Zenon
<1>2. PICK g : g = WithByte(State(h, big, out), b)
  OBVIOUS
<1>3. ByteKept(h, big, out, b) /\ ByteRead(h, big, out, b, last, g)
  BY <1>2, KeepsByte, ReadsByte, Zenon
<1>4. b \notin HeaderBytes /\ b \in {",", " "}
  BY <1>1, Zenon DEF HeaderBytes
<1>5. g = h
  BY <1>2, <1>3, <1>4, Zenon DEF ByteKept
<1>6. ReadByte(State(h, big, out), b, last) = State(<<>>, TRUE, Append(out, g))
  BY <1>3, <1>4, <1>5, Zenon DEF ByteRead
<1> QED BY <1>1, <1>5, <1>6, Zenon

\* Reading a whole name: it is put out in its canonical form at the end of
\* the list, and at the comma behind it otherwise.
WordAt(w, list, s) == /\ s \in Nat /\ s + Len(w) <= Len(list) /\ \A j \in 1..Len(w) : list[s + j] = w[j]

\* A name that ends with the list or at a comma is read in its canonical form.
LEMMA ReadWord ==
  ASSUME NEW w \in HeaderName, NEW list, Len(list) \in Nat, NEW s, WordAt(w, list, s),
         NEW f, Steps(f, list), NEW out, f[s] = State(<<>>, TRUE, out)
  PROVE  /\ s + Len(w) = Len(list) => f[Len(list)] = State(<<>>, TRUE, Append(out, CanonicalHeaderKey(w)))
         /\ s + Len(w) < Len(list) /\ list[s + Len(w) + 1] = "," =>
              f[s + Len(w) + 1] = State(<<>>, TRUE, Append(out, CanonicalHeaderKey(w)))
<1>0. PICK n, L : n = Len(w) /\ L = Len(list)
  BY Zenon
<1>1. n \in Nat /\ n >= 1 /\ L \in Nat /\ s \in Nat /\ s + n <= L
  BY <1>0, NameIsText, Zenon DEF WordAt
<1>2. \A j \in 1..n : list[s + j] = w[j]
  BY <1>0, Zenon DEF WordAt
<1>3. \A i \in 1..L : f[i] = ReadByte(f[i - 1], list[i], i = L)
  BY <1>0, Zenon DEF Steps
<1> DEFINE T == {j \in Nat : j <= n /\ s + j < L => f[s + j] = State(Lead(w, j), Capital(w, j), out)}
<1>4. 0 \in T
  <2>1. Lead(w, 0) = <<>>
    BY DEF Lead
  <2>2. Capital(w, 0) = TRUE
    BY Zenon DEF Capital
  <2>3. f[s] = State(Lead(w, 0), Capital(w, 0), out)
    BY <2>1, <2>2, Zenon
  <2>4. s + 0 = s
    BY <1>1
  <2> QED BY <2>3, <2>4
<1>5. ASSUME NEW j \in T, j < n, NEW last \in BOOLEAN, last = (s + j + 1 = L)
      PROVE  /\ ~last => f[s + j + 1] = State(Lead(w, j + 1), Capital(w, j + 1), out)
             /\ last => f[s + j + 1] = State(<<>>, TRUE, Append(out, Lead(w, j + 1)))
  <2>1. PICK m : m = s + j + 1
    OBVIOUS
  <2>2. j \in Nat /\ m \in 1..L /\ m - 1 = s + j /\ s + j < L /\ j + 1 \in 1..n /\ m = s + (j + 1)
    BY <1>1, <1>5, <2>1
  <2>a. j <= n
    BY <1>1, <1>5, <2>2
  <2>3. f[s + j] = State(Lead(w, j), Capital(w, j), out)
    BY <2>2, <2>a, Zenon
  <2>4. list[m] = w[j + 1]
    BY <1>2, <2>2, Zenon
  <2>5. f[m] = ReadByte(f[s + j], w[j + 1], last)
    BY <1>3, <1>5, <2>1, <2>2, <2>4, Zenon
  <2>6. j < Len(w)
    BY <1>0, <1>5
  <2>7. /\ ~last => ReadByte(f[s + j], w[j + 1], last) = State(Lead(w, j + 1), Capital(w, j + 1), out)
        /\ last => ReadByte(f[s + j], w[j + 1], last) = State(<<>>, TRUE, Append(out, Lead(w, j + 1)))
    <3>1. NextRead(w, j, out, last, f[s + j])
      BY <2>2, <2>3, <2>6, ReadNext, Zenon
    <3> QED BY <3>1, Zenon DEF NextRead
  <2> QED BY <2>1, <2>5, <2>7, Zenon
<1>6. ASSUME NEW j \in T PROVE j + 1 \in T
  <2> SUFFICES ASSUME j + 1 <= n, s + (j + 1) < L PROVE f[s + (j + 1)] = State(Lead(w, j + 1), Capital(w, j + 1), out)
    OBVIOUS
  <2>1. j \in Nat /\ j < n /\ s + j + 1 # L /\ s + (j + 1) = s + j + 1
    BY <1>1
  <2>2. PICK last \in BOOLEAN : last = (s + j + 1 = L)
    BY Zenon
  <2>3. ~last
    BY <2>1, <2>2, Zenon
  <2>4. f[s + j + 1] = State(Lead(w, j + 1), Capital(w, j + 1), out)
    BY <1>5, <2>1, <2>2, <2>3, Zenon
  <2> QED BY <2>1, <2>4, Zenon
<1>7. T = Nat
  <2> HIDE DEF T
  <2>1. T \in SUBSET Nat
    BY DEF T
  <2> QED BY <1>4, <1>6, <2>1, NatSetInduction
<1>8. PICK j : j = n - 1
  OBVIOUS
<1>9. j \in Nat /\ j < n /\ j + 1 = n /\ s + j + 1 = s + n
  BY <1>1, <1>8
<1>10. Lead(w, n) = CanonicalHeaderKey(w) /\ Lead(w, n) # <<>>
  <2>1. j < Len(w)
    BY <1>0, <1>9
  <2> QED BY <1>0, <1>9, <2>1, NextByte, Zenon
<1>11. ASSUME s + n = L PROVE f[L] = State(<<>>, TRUE, Append(out, CanonicalHeaderKey(w)))
  <2>1. PICK last \in BOOLEAN : last = (s + j + 1 = L)
    BY Zenon
  <2>2. last
    BY <1>9, <1>11, <2>1, Zenon
  <2>3. f[s + j + 1] = State(<<>>, TRUE, Append(out, Lead(w, j + 1)))
    <3> HIDE DEF T
    <3>1. j \in T
      BY <1>7, <1>9
    <3> QED BY <1>5, <1>9, <2>1, <2>2, <3>1, Zenon
  <2> QED BY <1>9, <1>10, <1>11, <2>3, Zenon
<1>12. ASSUME s + n < L, list[s + n + 1] = ","
       PROVE  f[s + n + 1] = State(<<>>, TRUE, Append(out, CanonicalHeaderKey(w)))
  <2>1. f[s + n] = State(Lead(w, n), Capital(w, n), out)
    <3>1. n \in T
      <4> HIDE DEF T
      <4> QED BY <1>1, <1>7
    <3>2. n <= n
      BY <1>1
    <3> QED BY <1>12, <3>1, <3>2, Zenon
  <2>2. PICK m : m = s + n + 1
    OBVIOUS
  <2>a. s + n < L
    BY <1>12, Zenon
  <2>3. m \in 1..L /\ m - 1 = s + n
    BY <1>1, <2>2, <2>a
  <2>4. PICK last \in BOOLEAN : last = (m = L)
    BY Zenon
  <2>5. f[m] = ReadByte(f[s + n], ",", last)
    BY <1>3, <1>12, <2>2, <2>3, <2>4, Zenon
  <2>6. Capital(w, n) \in BOOLEAN
    BY DEF Capital
  <2>7. ReadByte(State(Lead(w, n), Capital(w, n), out), ",", last) = State(<<>>, TRUE, Append(out, Lead(w, n)))
    BY <1>10, <2>6, ReadComma, Zenon
  <2> QED BY <1>10, <2>1, <2>2, <2>5, <2>7, Zenon
<1> QED BY <1>0, <1>11, <1>12, Zenon

Names(hs, k) == [i \in 1..k |-> CanonicalHeaderKey(hs[i])]

\* One name more.
LEMMA NextName ==
  ASSUME NEW hs \in Seq(HeaderName), NEW k \in 1..Len(hs)
  PROVE  Append(Names(hs, k - 1), CanonicalHeaderKey(hs[k])) = Names(hs, k)
<1>0. PICK N : N = Len(hs)
  OBVIOUS
<1>1. N \in Nat /\ \A i \in 1..N : hs[i] \in HeaderName
  BY <1>0
<1>2. \A i \in 1..N : CanonicalHeaderKey(hs[i]) \in Text
  BY <1>1, NameIsText, CanonicalText, Zenon
<1>3. PICK m, x, y, z : m = k - 1 /\ x = Names(hs, m) /\ y = Names(hs, k) /\ z = CanonicalHeaderKey(hs[k])
  OBVIOUS
<1>4. k \in 1..N /\ m \in Nat /\ k = m + 1 /\ k \in Nat
  BY <1>0, <1>1, <1>3
<1>5. \A i \in 1..k : i \in 1..N
  BY <1>1, <1>4
<1>6. x = [i \in 1..m |-> CanonicalHeaderKey(hs[i])] /\ y = [i \in 1..k |-> CanonicalHeaderKey(hs[i])]
  BY <1>3, Zenon DEF Names
<1>7. x \in [1..m -> Text] /\ y \in [1..k -> Text] /\ z \in Text
  <2>1. \A i \in 1..m : i \in 1..N
    BY <1>1, <1>4
  <2>2. x \in [1..m -> Text]
    BY <1>2, <1>6, <2>1, Zenon
  <2>3. y \in [1..k -> Text]
    BY <1>2, <1>5, <1>6, Zenon
  <2>4. z \in Text
    BY <1>2, <1>3, <1>4, Zenon
  <2> QED BY <2>2, <2>3, <2>4, Zenon
<1>8. x \in Seq(Text) /\ Len(x) = m /\ y \in Seq(Text) /\ Len(y) = k
  BY <1>4, <1>7
<1>9. Append(x, z) \in Seq(Text) /\ Len(Append(x, z)) = k
  BY <1>4, <1>7, <1>8
<1>10. \A i \in 1..k : Append(x, z)[i] = y[i]
  <2> TAKE i \in 1..k
  <2>1. y[i] = CanonicalHeaderKey(hs[i])
    BY <1>6, Zenon
  <2>2. CASE i = k
    <3>1. Append(x, z)[k] = z
      BY <1>4, <1>7, <1>8
    <3> QED BY <1>3, <2>1, <2>2, <3>1, Zenon
  <2>3. CASE i # k
    <3>1. i \in 1..m
      BY <1>4, <2>3
    <3>2. Append(x, z)[i] = x[i]
      BY <1>7, <1>8, <3>1
    <3>3. x[i] = CanonicalHeaderKey(hs[i])
      BY <1>6, <3>1, Zenon
    <3> QED BY <2>1, <3>2, <3>3, Zenon
  <2> QED BY <2>2, <2>3, Zenon
<1>11. Append(x, z) = y
  BY <1>8, <1>9, <1>10
<1> QED BY <1>3, <1>11, Zenon

\* parseHeaderList finds the names the browser joined (cors_utils.go:31-75).
LEMMA ParsesNames ==
  ASSUME NEW hs \in Seq(HeaderName)
  PROVE  parseHeaderList(Joined(hs)) = Names(hs, Len(hs))
<1>0. PICK N : N = Len(hs)
  OBVIOUS
<1>1. N \in Nat /\ \A i \in 1..N : hs[i] \in HeaderName
  BY <1>0
<1>2. PICK g : JoinedBy(g, hs)
  BY JoinRecursion
<1>3. PICK list : list = Joined(hs)
  OBVIOUS
<1>4. g \in [0..N -> Text] /\ g[0] = <<>> /\ list = g[N]
  BY <1>0, <1>2, <1>3, Zenon DEF JoinedBy
<1>5. list \in Text /\ Len(list) \in Nat
  BY <1>1, <1>4 DEF Text
<1>6. PICK f : ParsedBy(f, list)
  BY <1>5, ParseRecursion
<1>7. f[0] = State(<<>>, TRUE, <<>>) /\ Steps(f, list) /\ parseHeaderList(list) = f[Len(list)].out
  BY <1>6, Zenon DEF ParsedBy, Steps, Started
<1>8. \A k \in 1..N : LaidAt(g, hs, list, k)
  BY <1>0, <1>2, <1>4, Layout, Zenon
<1> DEFINE Ends(k) == IF k = N THEN Len(list) ELSE Len(g[k]) + 1
           T == {k \in Nat : k <= N => f[Ends(k)] = State(<<>>, TRUE, Names(hs, k))}
<1>9. ASSUME NEW k \in 1..N, NEW s, s = Begins(g, hs, k), f[s] = State(<<>>, TRUE, Names(hs, k - 1))
      PROVE  f[Ends(k)] = State(<<>>, TRUE, Names(hs, k))
  <2>0. PICK w, out : w = hs[k] /\ out = Names(hs, k - 1)
    OBVIOUS
  <2>1. w \in HeaderName
    BY <1>1, <2>0
  <2>2. /\ s \in Nat /\ Len(g[k]) = s + Len(w) /\ Len(g[k]) <= Len(list)
        /\ \A j \in 1..Len(w) : list[s + j] = w[j]
        /\ k = N => Len(g[k]) = Len(list)
        /\ k < N => Len(g[k]) < Len(list)
    BY <1>0, <1>8, <1>9, <2>0, Zenon DEF LaidAt
  <2>3. WordAt(w, list, s)
    BY <2>2, Zenon DEF WordAt
  <2>4. f[s] = State(<<>>, TRUE, out)
    BY <1>9, <2>0, Zenon
  <2>5. /\ s + Len(w) = Len(list) => f[Len(list)] = State(<<>>, TRUE, Append(out, CanonicalHeaderKey(w)))
        /\ s + Len(w) < Len(list) /\ list[s + Len(w) + 1] = "," =>
             f[s + Len(w) + 1] = State(<<>>, TRUE, Append(out, CanonicalHeaderKey(w)))
    BY <1>5, <1>7, <2>1, <2>3, <2>4, ReadWord, Zenon
  <2>6. Append(out, CanonicalHeaderKey(w)) = Names(hs, k)
    BY <1>0, <2>0, NextName, Zenon
  <2>7. CASE k = N
    BY <2>2, <2>5, <2>6, <2>7, Zenon
  <2>8. CASE k # N
    <3>1. k < N /\ k \in Nat
      BY <1>1, <2>8
    <3>2. PICK m : m = k + 1
      OBVIOUS
    <3>3. m \in 1..N /\ m # 1 /\ m - 1 = k
      BY <1>1, <3>1, <3>2
    <3>4. list[Begins(g, hs, m)] = "," /\ Begins(g, hs, m) = Len(g[k]) + 1
      BY <1>8, <3>3, Zenon DEF LaidAt
    <3>5. list[s + Len(w) + 1] = "," /\ s + Len(w) < Len(list)
      BY <2>2, <3>1, <3>4, Zenon
    <3>6. f[Len(g[k]) + 1] = State(<<>>, TRUE, Names(hs, k))
      BY <2>2, <2>5, <2>6, <3>5, Zenon
    <3> QED BY <2>8, <3>6, Zenon
  <2> QED BY <2>7, <2>8, Zenon
<1>10. Names(hs, 0) = <<>>
  BY DEF Names
<1>11. CASE N = 0
  <2>1. Len(list) = 0
    BY <1>4, <1>11
  <2>a. State(<<>>, TRUE, <<>>).out = <<>>
    BY Zenon DEF State
  <2>2. parseHeaderList(list) = <<>>
    BY <1>7, <2>1, <2>a, Zenon
  <2> QED BY <1>0, <1>3, <1>10, <1>11, <2>2, Zenon
<1>12. CASE N # 0
  <2>1. 1 \in T
    <3>1. 1 \in 1..N /\ 1 - 1 = 0
      BY <1>1, <1>12
    <3>2. Begins(g, hs, 1) = 0
      BY <1>8, <3>1, Zenon DEF LaidAt
    <3>3. f[Ends(1)] = State(<<>>, TRUE, Names(hs, 1))
      BY <1>7, <1>9, <1>10, <3>1, <3>2, Zenon
    <3> QED BY <3>3, Zenon
  <2>2. ASSUME NEW n \in {i \in Nat : i + 1 \in T} PROVE n + 1 \in {i \in Nat : i + 1 \in T}
    <3>0. n \in Nat /\ n + 1 \in Nat /\ (n + 1) + 1 \in Nat /\ n + 1 \in T
      <4> HIDE DEF T
      <4> QED OBVIOUS
    <3> SUFFICES ASSUME (n + 1) + 1 <= N PROVE f[Ends((n + 1) + 1)] = State(<<>>, TRUE, Names(hs, (n + 1) + 1))
      BY <3>0, Zenon
    <3>1. PICK k, m : k = n + 1 /\ m = (n + 1) + 1
      OBVIOUS
    <3>2. k \in 1..N /\ k <= N /\ k # N /\ m \in 1..N /\ m # 1 /\ m - 1 = k
      BY <1>1, <3>0, <3>1
    <3>3. f[Ends(k)] = State(<<>>, TRUE, Names(hs, k))
      BY <3>0, <3>1, <3>2, Zenon
    <3>4. f[Len(g[k]) + 1] = State(<<>>, TRUE, Names(hs, k))
      BY <3>2, <3>3, Zenon
    <3>5. Begins(g, hs, m) = Len(g[k]) + 1
      BY <1>8, <3>2, Zenon DEF LaidAt
    <3>6. f[Begins(g, hs, m)] = State(<<>>, TRUE, Names(hs, m - 1))
      BY <3>2, <3>4, <3>5, Zenon
    <3>7. f[Ends(m)] = State(<<>>, TRUE, Names(hs, m))
      BY <1>9, <3>2, <3>6, Zenon
    <3> QED BY <3>1, <3>7, Zenon
  <2>3. {i \in Nat : i + 1 \in T} = Nat
    <3> DEFINE U == {i \in Nat : i + 1 \in T}
    <3>a. 0 + 1 = 1 /\ 0 \in Nat
      OBVIOUS
    <3>1. 0 \in U
      BY <2>1, <3>a, Zenon
    <3>2. \A n \in U : n + 1 \in U
      BY <2>2, Zenon
    <3> HIDE DEF U
    <3>3. U \in SUBSET Nat
      BY Zenon DEF U
    <3>4. U = Nat
      BY <3>1, <3>2, <3>3, NatSetInduction
    <3> QED BY <3>4, Zenon DEF U
  <2>4. N \in T /\ N <= N
    <3> HIDE DEF T
    <3>1. PICK i : i = N - 1
      OBVIOUS
    <3>2. i \in Nat /\ i + 1 = N
      BY <1>1, <1>12, <3>1
    <3>3. i + 1 \in T
      BY <2>3, <3>2, Zenon
    <3> QED BY <1>1, <3>2, <3>3
  <2>5. f[Len(list)] = State(<<>>, TRUE, Names(hs, N))
    BY <2>4, Zenon
  <2>a. State(<<>>, TRUE, Names(hs, N)).out = Names(hs, N)
    BY Zenon DEF State
  <2>6. parseHeaderList(list) = Names(hs, N)
    BY <1>7, <2>5, <2>a, Zenon
  <2> QED BY <1>0, <1>3, <2>6, Zenon
<1> QED BY <1>11, <1>12

HeadersListed(o, hs) ==
  All \in o.headers \/ \A h \in Range(hs) : \E g \in ListedHeaders(o) : ToLower(g) = ToLower(h)

\* Every header that is listed is a text.
LEMMA ListedText ==
  ASSUME NEW o, o.headers \in SUBSET Text
  PROVE  ListedHeaders(o) \subseteq Text
<1>1. "o" \in Bytes /\ "t" \in Bytes /\ "c" \in Bytes
  BY DEF Bytes, HeaderBytes
<1>2. <<"o">> \in Text /\ <<"t">> \in Text /\ <<"c">> \in Text
  <2>1. \A b \in Bytes : <<b>> \in Text
    BY OneByte DEF Text
  <2> QED BY <1>1, <2>1, Zenon
<1> QED BY <1>2, Zenon DEF ListedHeaders

\* The headers of a preflight are allowed exactly if every one of them is
\* listed, in whatever case (cors.go:369-396).
LEMMA HeadersExact ==
  ASSUME NEW o, o.headers \in SUBSET Text, NEW hs \in Seq(HeaderName), NEW requested,
         requested = parseHeaderList(Joined(hs))
  PROVE  /\ areHeadersAllowed(NewCors(o), requested) <=> HeadersListed(o, hs)
         /\ {CanonicalHeaderKey(h) : h \in Range(hs)} = Range(requested)
<1>0. PICK N, listed : N = Len(hs) /\ listed = ListedHeaders(o)
  OBVIOUS
<1>1. N \in Nat /\ DOMAIN hs = 1..N /\ \A i \in 1..N : hs[i] \in HeaderName
  BY <1>0
<1>2. \A i \in 1..N : hs[i] \in Text
  BY <1>1, NameIsText, Zenon
<1>3. listed \subseteq Text
  BY <1>0, ListedText
<1>4. requested = [i \in 1..N |-> CanonicalHeaderKey(hs[i])]
  BY <1>0, ParsesNames, Zenon DEF Names
<1>5. DOMAIN requested = 1..N /\ \A i \in 1..N : requested[i] = CanonicalHeaderKey(hs[i])
  BY <1>4, Zenon
<1>6. \A i \in 1..N : CanonicalHeaderKey(requested[i]) = CanonicalHeaderKey(hs[i])
  BY <1>2, <1>5, CanonicalTwice, Zenon
<1>7. PICK c : c = NewCors(o)
  OBVIOUS
<1>8. (c.headersAll <=> All \in o.headers) /\ c.headers = {CanonicalHeaderKey(h) : h \in listed}
  BY <1>0, <1>7, Zenon DEF NewCors
<1>9. Range(hs) = {hs[i] : i \in 1..N} /\ Range(requested) = {requested[i] : i \in 1..N}
  BY <1>1, <1>5, Zenon DEF Range
<1>10. ASSUME NEW i \in 1..N
       PROVE  CanonicalHeaderKey(requested[i]) \in c.headers <=> \E g \in listed : ToLower(g) = ToLower(hs[i])
  <2>1. hs[i] \in Text /\ CanonicalHeaderKey(requested[i]) = CanonicalHeaderKey(hs[i])
    BY <1>2, <1>6, Zenon
  <2>2. \A g \in listed : CanonicalHeaderKey(g) = CanonicalHeaderKey(hs[i]) <=> ToLower(g) = ToLower(hs[i])
    BY <1>3, <2>1, SameHeader, Zenon
  <2>3. CanonicalHeaderKey(hs[i]) \in c.headers <=> \E g \in listed : CanonicalHeaderKey(g) = CanonicalHeaderKey(hs[i])
    BY <1>8, Zenon
  <2> QED BY <2>1, <2>2, <2>3, Zenon
<1>11. areHeadersAllowed(c, requested) <=>
         (All \in o.headers \/ \A i \in 1..N : \E g \in listed : ToLower(g) = ToLower(hs[i]))
  BY <1>5, <1>8, <1>10, Zenon DEF areHeadersAllowed
<1>12. HeadersListed(o, hs) <=>
         (All \in o.headers \/ \A i \in 1..N : \E g \in listed : ToLower(g) = ToLower(hs[i]))
  BY <1>0, <1>9, Zenon DEF HeadersListed
<1>13. {CanonicalHeaderKey(h) : h \in Range(hs)} = {CanonicalHeaderKey(hs[i]) : i \in 1..N}
  BY <1>9, Zenon
<1>14. Range(requested) = {CanonicalHeaderKey(hs[i]) : i \in 1..N}
  BY <1>5, <1>9, Zenon
<1> QED BY <1>7, <1>11, <1>12, <1>13, <1>14, Zenon

MethodListed(o, method) ==
  method \in (IF o.methods = {} THEN {"GET", "POST", "HEAD"} ELSE {ToUpper(m) : m \in o.methods}) \cup {"OPTIONS"}

\* No method in lower case is listed, and any other is its own upper case.
LEMMA MethodsExact ==
  ASSUME NEW o, NEW method
  PROVE  /\ MethodListed(o, method) => method # "patch"
         /\ method # "patch" => ToUpper(method) = method
         /\ isMethodAllowed(NewCors(o), method) <=> MethodListed(o, ToUpper(method))
<1>1. \A m : ToUpper(m) # "patch" /\ (m # "patch" => ToUpper(m) = m)
  BY DEF ToUpper
<1>2. MethodListed(o, method) => method # "patch"
  <2> SUFFICES ASSUME method = "patch", MethodListed(o, method) PROVE FALSE
    OBVIOUS
  <2>1. "patch" \notin {"GET", "POST", "HEAD"} /\ "patch" # "OPTIONS"
    OBVIOUS
  <2>2. "patch" \notin {ToUpper(m) : m \in o.methods}
    BY <1>1, Zenon
  <2> QED BY <2>1, <2>2, Zenon DEF MethodListed
<1>3. NewCors(o).methods = IF o.methods = {} THEN {"GET", "POST", "HEAD"} ELSE {ToUpper(m) : m \in o.methods}
  BY Zenon DEF NewCors
<1>4. isMethodAllowed(NewCors(o), method) <=> MethodListed(o, ToUpper(method))
  BY <1>3, Zenon DEF isMethodAllowed, MethodListed
<1> QED BY <1>1, <1>2, <1>4, Zenon

OriginListed(o, page) == IF o.func THEN page.origin \in trusted ELSE Listed(o, page.origin)

\* The origin is allowed exactly if it is configured (cors.go:319-345).
LEMMA OriginExact ==
  ASSUME NEW o, o.origins \in SUBSET Text, o.func \in BOOLEAN, NEW page, page.origin \in Text
  PROVE  isOriginAllowed(NewCors(o), page.origin) <=> OriginListed(o, page)
<1>1. PICK c : c = NewCors(o)
  OBVIOUS
<1>2. c.func = o.func
  BY <1>1, Zenon DEF NewCors
<1>3. CASE o.func = TRUE
  BY <1>1, <1>2, <1>3, Zenon DEF isOriginAllowed, OriginListed
<1>4. CASE o.func = FALSE
  <2>1. Named(c, page.origin) <=> Listed(o, page.origin)
    BY <1>1, <1>4, OriginsExact, Zenon
  <2> QED BY <1>1, <1>2, <1>4, <2>1, Zenon DEF isOriginAllowed, OriginListed, Named
<1> QED BY <1>3, <1>4, Zenon

Wellformed(o, page) ==
  /\ o.origins \in SUBSET Text /\ o.func \in BOOLEAN /\ o.headers \in SUBSET Text /\ o.credentials \in BOOLEAN
  /\ page.origin \in Text /\ page.origin # <<>> /\ page.origin # All
  /\ page.headers \in Seq(HeaderName) /\ page.credentials \in BOOLEAN

CredentialsFine(o, page) == page.credentials => o.credentials /\ ~NewCors(o).originsAll
Permits(o, page) == OriginListed(o, page) /\ MethodListed(o, page.method) /\ CredentialsFine(o, page)

\* The page accepts an answer that carries its origin or a star exactly if
\* that is enough for its credentials; it accepts none that carries neither.
LEMMA AcceptsExact ==
  ASSUME NEW o, NEW page, Wellformed(o, page), NEW answer, NEW c, c = NewCors(o)
  PROVE  /\ answer.origin = AllowOrigin(c, page.origin) /\ answer.credentials = c.credentials =>
              (Accepts(page, answer) <=> CredentialsFine(o, page))
         /\ answer.origin = <<>> => ~Accepts(page, answer)
<1>1. c.credentials = o.credentials
  BY Zenon DEF NewCors
<1>2. page.origin # <<>> /\ page.origin # All /\ page.credentials \in BOOLEAN /\ o.credentials \in BOOLEAN
  BY Zenon DEF Wellformed
<1>3. All # <<>>
  <2>1. Len(All) = 1 /\ Len(<<>>) = 0
    BY DEF All
  <2> QED BY <2>1
<1>4. ASSUME answer.origin = <<>> PROVE ~Accepts(page, answer)
  <2>1. <<>> # page.origin /\ <<>> \notin {All, page.origin}
    BY <1>2, <1>3, Zenon
  <2> QED BY <1>4, <2>1, Zenon DEF Accepts
<1>5. ASSUME answer.origin = AllowOrigin(c, page.origin), answer.credentials = c.credentials
      PROVE  Accepts(page, answer) <=> CredentialsFine(o, page)
  <2>1. CASE c.originsAll
    <3>1. answer.origin = All
      BY <1>5, <2>1, Zenon DEF AllowOrigin
    <3> QED BY <1>2, <2>1, <3>1, Zenon DEF Accepts, CredentialsFine
  <2>2. CASE ~c.originsAll
    <3>1. answer.origin = page.origin
      BY <1>5, <2>2, Zenon DEF AllowOrigin
    <3>2. CASE page.credentials
      BY <1>1, <1>5, <2>2, <3>1, <3>2, Zenon DEF Accepts, CredentialsFine
    <3>3. CASE ~page.credentials
      BY <3>1, <3>3, Zenon DEF Accepts, CredentialsFine
    <3> QED BY <3>2, <3>3
  <2> QED BY <2>1, <2>2
<1> QED BY <1>4, <1>5, Zenon

\* A preflight is approved exactly if the configuration permits the request
\* and lists its headers (cors.go:248-293).
LEMMA PreflightExact ==
  ASSUME NEW o, NEW page, Wellformed(o, page)
  PROVE  Approves(page, handlePreflight(NewCors(o), page, Joined(page.headers))) <=>
           Permits(o, page) /\ HeadersListed(o, page.headers)
<1>1. PICK c, requested, answer : /\ c = NewCors(o) /\ requested = parseHeaderList(Joined(page.headers))
                                  /\ answer = handlePreflight(c, page, Joined(page.headers))
  OBVIOUS
<1>2. /\ areHeadersAllowed(c, requested) <=> HeadersListed(o, page.headers)
      /\ {CanonicalHeaderKey(h) : h \in Range(page.headers)} = Range(requested)
  <2>1. o.headers \in SUBSET Text /\ page.headers \in Seq(HeaderName)
    BY Zenon DEF Wellformed
  <2> QED BY <1>1, <2>1, HeadersExact, Zenon
<1>3. isOriginAllowed(c, page.origin) <=> OriginListed(o, page)
  <2>1. o.origins \in SUBSET Text /\ o.func \in BOOLEAN /\ page.origin \in Text
    BY Zenon DEF Wellformed
  <2> QED BY <1>1, <2>1, OriginExact, Zenon
<1>4. /\ MethodListed(o, page.method) => page.method # "patch"
      /\ page.method # "patch" => ToUpper(page.method) = page.method
      /\ isMethodAllowed(c, page.method) <=> MethodListed(o, ToUpper(page.method))
  BY <1>1, MethodsExact, Zenon
<1>5. CASE isOriginAllowed(c, page.origin) /\ isMethodAllowed(c, page.method) /\ areHeadersAllowed(c, requested)
  <2>1. answer = [origin |-> AllowOrigin(c, page.origin), method |-> ToUpper(page.method),
                  headers |-> Range(requested), credentials |-> c.credentials]
    BY <1>1, <1>5, Zenon DEF handlePreflight
  <2>2. /\ answer.origin = AllowOrigin(c, page.origin) /\ answer.credentials = c.credentials
        /\ answer.method = ToUpper(page.method) /\ answer.headers = Range(requested)
    BY <2>1, Zenon
  <2>3. Accepts(page, answer) <=> CredentialsFine(o, page)
    BY <1>1, <2>2, AcceptsExact, Zenon
  <2>4. page.method \in {ToUpper(page.method), "GET", "POST", "HEAD"} <=> page.method # "patch"
    <3>1. "patch" \notin {"GET", "POST", "HEAD"} /\ ToUpper("patch") # "patch"
      BY DEF ToUpper
    <3> QED BY <1>4, <3>1, Zenon
  <2>5. page.method # "patch" <=> MethodListed(o, page.method)
    BY <1>4, <1>5, Zenon
  <2>6. {CanonicalHeaderKey(h) : h \in Range(page.headers)} \subseteq answer.headers
    BY <1>2, <2>2, Zenon
  <2>7. Approves(page, answer) <=> CredentialsFine(o, page) /\ MethodListed(o, page.method)
    BY <2>2, <2>3, <2>4, <2>5, <2>6, Zenon DEF Approves
  <2> QED BY <1>1, <1>2, <1>3, <1>5, <2>7, Zenon DEF Permits
<1>6. CASE ~(isOriginAllowed(c, page.origin) /\ isMethodAllowed(c, page.method) /\ areHeadersAllowed(c, requested))
  <2>1. answer = NoHeaders
    BY <1>1, <1>6, Zenon DEF handlePreflight
  <2>2. answer.origin = <<>>
    BY <2>1, Zenon DEF NoHeaders
  <2>3. ~Approves(page, answer)
    BY <1>1, <2>2, AcceptsExact, Zenon DEF Approves
  <2>4. ~(Permits(o, page) /\ HeadersListed(o, page.headers))
    BY <1>2, <1>3, <1>4, <1>6, Zenon DEF Permits
  <2> QED BY <1>1, <2>3, <2>4, Zenon
<1> QED BY <1>5, <1>6

\* The answer to the request itself can be read exactly if the configuration
\* permits it, unless its method is in lower case (cors.go:296-316).
LEMMA ActualExact ==
  ASSUME NEW o, NEW page, Wellformed(o, page), page.method # "patch"
  PROVE  Accepts(page, handleActualRequest(NewCors(o), page)) <=> Permits(o, page)
<1>1. PICK c, answer : c = NewCors(o) /\ answer = handleActualRequest(c, page)
  OBVIOUS
<1>2. isOriginAllowed(c, page.origin) <=> OriginListed(o, page)
  <2>1. o.origins \in SUBSET Text /\ o.func \in BOOLEAN /\ page.origin \in Text
    BY Zenon DEF Wellformed
  <2> QED BY <1>1, <2>1, OriginExact, Zenon
<1>3. isMethodAllowed(c, page.method) <=> MethodListed(o, page.method)
  BY <1>1, MethodsExact, Zenon
<1>4. CASE isOriginAllowed(c, page.origin) /\ isMethodAllowed(c, page.method)
  <2>1. PICK x, y : x = AllowOrigin(c, page.origin) /\ y = c.credentials
    OBVIOUS
  <2>2. answer = [NoHeaders EXCEPT !.origin = x, !.credentials = y]
    BY <1>1, <1>4, <2>1, Zenon DEF handleActualRequest
  <2>3. PICK no, none, e : no = FALSE /\ none = {} /\ e = ""
    BY Zenon
  <2>4. NoHeaders = [origin |-> <<>>, method |-> e, headers |-> none, credentials |-> no]
    BY <2>3, Zenon DEF NoHeaders
  <2>5. answer.origin = x /\ answer.credentials = y
    BY <2>2, <2>4
  <2>6. Accepts(page, answer) <=> CredentialsFine(o, page)
    BY <1>1, <2>1, <2>5, AcceptsExact, Zenon
  <2> QED BY <1>1, <1>2, <1>3, <1>4, <2>6, Zenon DEF Permits
<1>5. CASE ~(isOriginAllowed(c, page.origin) /\ isMethodAllowed(c, page.method))
  <2>1. answer = NoHeaders
    BY <1>1, <1>5, Zenon DEF handleActualRequest
  <2>2. answer.origin = <<>>
    BY <2>1, Zenon DEF NoHeaders
  <2>3. ~Accepts(page, answer)
    BY <1>1, <2>2, AcceptsExact, Zenon
  <2> QED BY <1>1, <1>2, <1>3, <1>5, <2>3, Zenon DEF Permits
<1> QED BY <1>4, <1>5

\* What the configurations and the pages are.
LEMMA AskedIsWellformed ==
  ASSUME NEW o \in CorsOptions, NEW page \in Pages
  PROVE  Wellformed(o, page)
<1>1. /\ o \in [origins : SUBSET Seq(Bytes), func : BOOLEAN, headers : SUBSET Seq(Bytes),
                methods : SUBSET STRING, credentials : BOOLEAN, passthrough : BOOLEAN]
      /\ page \in [origin : Seq(Bytes) \ {<<>>, All}, method : STRING,
                   headers : Seq(Seq(HeaderBytes) \ {<<>>}), credentials : BOOLEAN]
  BY CorsAssumption, Zenon
<1>2. o.origins \in SUBSET Seq(Bytes) /\ o.headers \in SUBSET Seq(Bytes)
  BY <1>1, Zenon
<1>3. o.func \in BOOLEAN /\ o.credentials \in BOOLEAN
  BY <1>1, Zenon
<1>4. page.origin \in Seq(Bytes) \ {<<>>, All} /\ page.headers \in Seq(Seq(HeaderBytes) \ {<<>>})
  BY <1>1, Zenon
<1>5. page.credentials \in BOOLEAN
  BY <1>1, Zenon
<1> QED BY <1>2, <1>3, <1>4, <1>5, Zenon DEF Wellformed, Text, HeaderName

Call(p, o, page, chain, stable, read, handled) ==
  [pc |-> p, options |-> o, page |-> page, chain |-> chain, stable |-> stable, read |-> read, handled |-> handled]

Grants(o, page, chain) ==
  /\ Permits(o, page)
  /\ Simple(page) \/ HeadersListed(o, page.headers)
  /\ Simple(page) \/ ~RefusesPreflight(chain)

CallInv(p, o, page, chain, stable, read, handled) ==
  /\ p = "ask" => ~Simple(page) /\ ~read
  /\ p = "send" /\ ~Simple(page) /\ stable => Grants(o, page, chain)
  /\ p = "done" /\ stable =>
       /\ read <=> Grants(o, page, chain)
       /\ Simple(page) \/ read \/ handled <= (IF o.passthrough THEN 1 ELSE 0)

CorsInv ==
  \/ web = [pc |-> "idle"]
  \/ \E p, o, page, chain, stable, read, handled :
       /\ p \in {"ask", "send", "done"} /\ o \in CorsOptions /\ page \in Pages
       /\ web = Call(p, o, page, chain, stable, read, handled) /\ CallInv(p, o, page, chain, stable, read, handled)

\* What the options grant a page in a chain is what they allow.
LEMMA GrantsIsAllowed ==
  ASSUME NEW o, NEW page, NEW chain, web.chain = chain
  PROVE  Allowed(o, page) <=> Grants(o, page, chain)
BY Zenon DEF Allowed, Grants, Permits, OriginListed, MethodListed, CredentialsFine, HeadersListed

\* What a page may read is what was granted.
LEMMA CorsInvExact == CorsInv => CorsIsExact
<1> SUFFICES ASSUME CorsInv, web.pc = "done", web.stable
             PROVE  /\ web.read <=> Allowed(web.options, web.page)
                    /\ Simple(web.page) \/ web.read \/ web.handled <= (IF web.options.passthrough THEN 1 ELSE 0)
  BY Zenon DEF CorsIsExact
<1>1. CASE web = [pc |-> "idle"]
  <2>1. web.pc = "idle"
    BY <1>1, Zenon
  <2> QED BY <2>1
<1>2. CASE web # [pc |-> "idle"]
  <2>1. PICK p, o, page, chain, stable, read, handled :
          /\ p \in {"ask", "send", "done"} /\ o \in CorsOptions /\ page \in Pages
          /\ web = Call(p, o, page, chain, stable, read, handled) /\ CallInv(p, o, page, chain, stable, read, handled)
    BY <1>2, Zenon DEF CorsInv
  <2>2. /\ web.pc = p /\ web.options = o /\ web.page = page /\ web.chain = chain
        /\ web.stable = stable /\ web.read = read /\ web.handled = handled
    <3>1. web = Call(p, o, page, chain, stable, read, handled)
      BY <2>1, Zenon
    <3> QED BY <3>1, Zenon DEF Call
  <2>3. /\ read <=> Grants(o, page, chain)
        /\ Simple(page) \/ read \/ handled <= (IF o.passthrough THEN 1 ELSE 0)
    BY <2>1, <2>2, Zenon DEF CallInv
  <2>4. Allowed(o, page) <=> Grants(o, page, chain)
    BY <2>2, GrantsIsAllowed, Zenon
  <2> QED BY <2>2, <2>3, <2>4, Zenon
<1> QED BY <1>1, <1>2

\* While AllowOriginFunc does not change its mind, grants stay.
LEMMA GrantsStays ==
  ASSUME NEW o, NEW page, NEW chain, trusted' = trusted
  PROVE  Grants(o, page, chain)' <=> Grants(o, page, chain)
BY Zenon DEF Grants, Permits, OriginListed

\* Every step of the browser and of the middleware keeps CorsInv.
LEMMA CorsStep == CorsInv /\ [CorsNext]_corsVars => CorsInv'
<1> SUFFICES ASSUME CorsInv, [CorsNext]_corsVars PROVE CorsInv'
  OBVIOUS
<1>1. ASSUME NEW p \in {"ask", "send", "done"}, NEW o \in CorsOptions, NEW page \in Pages, NEW chain, NEW stable,
             NEW read, NEW handled, web' = Call(p, o, page, chain, stable, read, handled),
             CallInv(p, o, page, chain, stable, read, handled)'
      PROVE  CorsInv'
  BY <1>1, Zenon DEF CorsInv
<1>2. ASSUME NEW o \in CorsOptions, NEW page \in Pages, NEW chain, Fetch(o, page, chain) PROVE CorsInv'
  <2>1. PICK p : p = IF Simple(page) THEN "send" ELSE "ask"
    OBVIOUS
  <2>2. web' = Call(p, o, page, chain, TRUE, FALSE, 0)
    BY <1>2, <2>1, Zenon DEF Fetch, Call
  <2>3. p \in {"ask", "send", "done"} /\ p # "done" /\ (p = "ask" => ~Simple(page)) /\ (p = "send" => Simple(page))
    BY <2>1
  <2>4. CallInv(p, o, page, chain, TRUE, FALSE, 0)'
    BY <2>3, Zenon DEF CallInv
  <2> QED BY <1>1, <2>2, <2>3, <2>4, Zenon
<1>3. CASE FetchReturns
  BY <1>3, Zenon DEF FetchReturns, CorsInv
<1>4. CASE UNCHANGED corsVars
  <2>1. web' = web /\ trusted' = trusted
    BY <1>4, Zenon DEF corsVars
  <2>2. CASE web = [pc |-> "idle"]
    BY <2>1, <2>2, Zenon DEF CorsInv
  <2>3. CASE web # [pc |-> "idle"]
    <3>1. PICK p, o, page, chain, stable, read, handled :
            /\ p \in {"ask", "send", "done"} /\ o \in CorsOptions /\ page \in Pages
            /\ web = Call(p, o, page, chain, stable, read, handled) /\ CallInv(p, o, page, chain, stable, read, handled)
      BY <2>3, Zenon DEF CorsInv
    <3>2. Grants(o, page, chain)' <=> Grants(o, page, chain)
      BY <2>1, GrantsStays, Zenon
    <3>3. CallInv(p, o, page, chain, stable, read, handled)'
      BY <3>1, <3>2, Zenon DEF CallInv
    <3> QED BY <1>1, <2>1, <3>1, <3>3, Zenon
  <2> QED BY <2>2, <2>3
<1>5. ASSUME web.pc \in {"ask", "send"}, Preflight \/ Send \/ AllowOriginFuncChanges PROVE CorsInv'
  <2>0. web # [pc |-> "idle"]
    <3>1. [pc |-> "idle"].pc = "idle"
      BY Zenon
    <3> QED BY <1>5, <3>1
  <2>1. PICK p, o, page, chain, stable, read, handled :
          /\ p \in {"ask", "send", "done"} /\ o \in CorsOptions /\ page \in Pages
          /\ web = Call(p, o, page, chain, stable, read, handled) /\ CallInv(p, o, page, chain, stable, read, handled)
    BY <2>0, Zenon DEF CorsInv
  <2>2. web = Call(p, o, page, chain, stable, read, handled)
    BY <2>1, Zenon
  <2>3. /\ web.pc = p /\ web.options = o /\ web.page = page /\ web.chain = chain
        /\ web.stable = stable /\ web.read = read /\ web.handled = handled
    BY <2>2, Zenon DEF Call
  <2>4. Wellformed(o, page)
    BY <2>1, AskedIsWellformed, Zenon
  <2>5. PICK c : c = NewCors(o)
    OBVIOUS
  <2>6. CASE AllowOriginFuncChanges
    <3>1. web' = Call(p, o, page, chain, FALSE, read, handled)
      <4>1. PICK x : x = FALSE
        BY Zenon
      <4>2. [web EXCEPT !.stable = x] = Call(p, o, page, chain, x, read, handled)
        BY <2>2 DEF Call
      <4> QED BY <2>6, <4>1, <4>2, Zenon DEF AllowOriginFuncChanges
    <3>2. p # "done"
      BY <1>5, <2>3
    <3>3. CallInv(p, o, page, chain, FALSE, read, handled)'
      BY <2>1, <3>2, Zenon DEF CallInv
    <3> QED BY <1>1, <2>1, <3>1, <3>3, Zenon
  <2>7. CASE Preflight
    <3>1. PICK approved \in BOOLEAN : approved = (~RefusesPreflight(chain) /\ Permits(o, page) /\ HeadersListed(o, page.headers))
      BY Zenon
    <3>2. PICK x, y : /\ x = (IF approved THEN "send" ELSE "done")
                      /\ y = (IF c.passthrough /\ ~RefusesPreflight(chain) THEN 1 ELSE 0)
      OBVIOUS
    <3>3. Approves(page, handlePreflight(c, page, Joined(page.headers))) <=> Permits(o, page) /\ HeadersListed(o, page.headers)
      BY <2>4, <2>5, PreflightExact, Zenon
    <3>4. p = "ask" /\ web' = [web EXCEPT !.pc = x, !.handled = y] /\ trusted' = trusted
      <4>1. /\ web.pc = "ask" /\ trusted' = trusted
            /\ web' = [web EXCEPT !.pc = IF ~RefusesPreflight(chain) /\ Approves(page, handlePreflight(c, page, Joined(page.headers)))
                                         THEN "send" ELSE "done",
                                  !.handled = IF c.passthrough /\ ~RefusesPreflight(chain) THEN 1 ELSE 0]
        BY <2>3, <2>5, <2>7, Zenon DEF Preflight
      <4>2. x = IF ~RefusesPreflight(chain) /\ Approves(page, handlePreflight(c, page, Joined(page.headers))) THEN "send" ELSE "done"
        BY <3>1, <3>2, <3>3, Zenon
      <4> QED BY <2>3, <3>2, <4>1, <4>2, Zenon
    <3>5. web' = Call(x, o, page, chain, stable, read, y)
      <4>1. [web EXCEPT !.pc = x, !.handled = y] = Call(x, o, page, chain, stable, read, y)
        <5>1. [web EXCEPT !.pc = x] = Call(x, o, page, chain, stable, read, handled)
          BY <2>2 DEF Call
        <5>2. [Call(x, o, page, chain, stable, read, handled) EXCEPT !.handled = y] = Call(x, o, page, chain, stable, read, y)
          BY DEF Call
        <5>3. [web EXCEPT !.pc = x, !.handled = y] = [[web EXCEPT !.pc = x] EXCEPT !.handled = y]
          OBVIOUS
        <5> QED BY <5>1, <5>2, <5>3, Zenon
      <4> QED BY <3>4, <4>1, Zenon
    <3>6. ~Simple(page) /\ ~read
      BY <2>1, <3>4, Zenon DEF CallInv
    <3>7. approved <=> Grants(o, page, chain)
      BY <3>1, <3>6, Zenon DEF Grants
    <3>8. y <= (IF o.passthrough THEN 1 ELSE 0)
      <4>1. c.passthrough = o.passthrough
        BY <2>5, Zenon DEF NewCors
      <4>2. y = 0 \/ (y = 1 /\ o.passthrough)
        BY <3>2, <4>1, Zenon
      <4>3. 0 <= 0 /\ 0 <= 1 /\ 1 <= 1
        OBVIOUS
      <4> QED BY <4>2, <4>3, Zenon
    <3>9. x \in {"ask", "send", "done"} /\ x # "ask" /\ (x = "send" => approved) /\ (x = "done" => ~approved)
      BY <3>2
    <3>10. Grants(o, page, chain)' <=> Grants(o, page, chain)
      BY <3>4, GrantsStays, Zenon
    <3>11. CallInv(x, o, page, chain, stable, read, y)'
      BY <3>6, <3>7, <3>8, <3>9, <3>10, Zenon DEF CallInv
    <3> QED BY <1>1, <2>1, <3>5, <3>9, <3>11, Zenon
  <2>8. CASE Send
    <3>1. PICK x, y, z : x = "done" /\ y = handled + 1 /\ z = Accepts(page, handleActualRequest(c, page))
      OBVIOUS
    <3>2. p = "send" /\ web' = [web EXCEPT !.pc = x, !.handled = y, !.read = z] /\ trusted' = trusted
      <4>1. /\ web.pc = "send" /\ trusted' = trusted
            /\ web' = [web EXCEPT !.pc = "done", !.handled = @ + 1, !.read = Accepts(page, handleActualRequest(c, page))]
        BY <2>3, <2>5, <2>8, Zenon DEF Send
      <4>2. [web EXCEPT !.pc = "done", !.handled = @ + 1, !.read = Accepts(page, handleActualRequest(c, page))]
            = [web EXCEPT !.pc = x, !.handled = web.handled + 1, !.read = z]
        BY <3>1, Zenon
      <4> QED BY <2>3, <3>1, <4>1, <4>2, Zenon
    <3>3. web' = Call(x, o, page, chain, stable, z, y)
      <4>1. [web EXCEPT !.pc = x, !.handled = y, !.read = z] = Call(x, o, page, chain, stable, z, y)
        <5>1. [web EXCEPT !.pc = x] = Call(x, o, page, chain, stable, read, handled)
          BY <2>2 DEF Call
        <5>2. [Call(x, o, page, chain, stable, read, handled) EXCEPT !.handled = y] = Call(x, o, page, chain, stable, read, y)
          BY DEF Call
        <5>3. [Call(x, o, page, chain, stable, read, y) EXCEPT !.read = z] = Call(x, o, page, chain, stable, z, y)
          BY DEF Call
        <5>4. [web EXCEPT !.pc = x, !.handled = y, !.read = z] = [[[web EXCEPT !.pc = x] EXCEPT !.handled = y] EXCEPT !.read = z]
          OBVIOUS
        <5> QED BY <5>1, <5>2, <5>3, <5>4, Zenon
      <4> QED BY <3>2, <4>1, Zenon
    <3>4. ASSUME stable PROVE z <=> Grants(o, page, chain)
      <4>1. CASE Simple(page)
        <5>1. page.method # "patch"
          <6>1. page.method \in {"GET", "POST", "HEAD"}
            BY <4>1, Zenon DEF Simple
          <6> QED BY <6>1
        <5>2. z <=> Permits(o, page)
          BY <2>4, <2>5, <3>1, <5>1, ActualExact, Zenon
        <5> QED BY <4>1, <5>2, Zenon DEF Grants
      <4>2. CASE ~Simple(page)
        <5>1. Grants(o, page, chain)
          BY <2>1, <3>2, <3>4, <4>2, Zenon DEF CallInv
        <5>2. Permits(o, page) /\ MethodListed(o, page.method)
          BY <5>1, Zenon DEF Grants, Permits
        <5>3. page.method # "patch"
          BY <5>2, MethodsExact, Zenon
        <5>4. z
          BY <2>4, <2>5, <3>1, <5>2, <5>3, ActualExact, Zenon
        <5> QED BY <5>1, <5>4, Zenon
      <4> QED BY <4>1, <4>2
    <3>5. ASSUME stable PROVE Simple(page) \/ z
      <4>1. CASE ~Simple(page)
        <5>1. Grants(o, page, chain)
          BY <2>1, <3>2, <3>5, <4>1, Zenon DEF CallInv
        <5> QED BY <3>4, <3>5, <5>1, Zenon
      <4> QED BY <4>1, Zenon
    <3>6. Grants(o, page, chain)' <=> Grants(o, page, chain)
      BY <3>2, GrantsStays, Zenon
    <3>7. x \in {"ask", "send", "done"} /\ x # "ask" /\ x # "send"
      BY <3>1
    <3>8. CallInv(x, o, page, chain, stable, z, y)'
      BY <3>4, <3>5, <3>6, <3>7, Zenon DEF CallInv
    <3> QED BY <1>1, <2>1, <3>3, <3>7, <3>8, Zenon
  <2> QED BY <1>5, <2>6, <2>7, <2>8, Zenon
<1>6. Preflight \/ Send \/ AllowOriginFuncChanges => web.pc \in {"ask", "send"}
  BY Zenon DEF Preflight, Send, AllowOriginFuncChanges
<1> QED BY <1>2, <1>3, <1>4, <1>5, <1>6, Zenon DEF CorsNext

\* CORS (server/use/cors): for any configurations, pages and chains of
\* middleware, a page reads an answer exactly if its origin, method and
\* headers are configured, while AllowOriginFunc answers the same.
THEOREM CorsAnswersExactly == CorsSpec => []CorsIsExact
<1>1. CorsInit => CorsInv
  BY Zenon DEF CorsInit, CorsInv
<1>2. CorsInv /\ [CorsNext]_corsVars => CorsInv'
  BY CorsStep
<1>3. CorsInv => CorsIsExact
  BY CorsInvExact
<1> QED BY <1>1, <1>2, <1>3, PTL DEF CorsSpec
=============================================================================
