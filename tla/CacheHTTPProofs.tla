--------------------------- MODULE CacheHTTPProofs ---------------------------
(* The HTTP client that tries again, and the TTL cache.                        *)
EXTENDS TTLCache, HTTPRequest, FiniteSetTheorems, Arithmetic

(* More time for the provers: a long module keeps their results waiting.       *)
USE SMTT(20), ZenonT(20)

-----------------------------------------------------------------------------
(* The retrying client: what a call of Do has been through.                   *)

CallFields == {"pc", "req", "set", "attempt", "unread", "code", "faults", "received", "delay", "dated", "signed",
               "ended", "result"}
IsCall(c) == c = [f \in CallFields |-> c[f]]

\* An attempt of this call cannot succeed, whatever the server does.
Hopeless(c) == BodyIsGone(c) \/ ~tlsConfigFor(c.req).trusts

BeatenCall(c) ==
  \/ c.ended \/ c.req.flaw # "none" \/ Cardinality(c.req.auth) > 1
  \/ c.faults = c.set.retries + 1
  \/ c.code # 0 /\ ~Retries(c.code)
  \/ BodyIsGone(c) \/ (c.req.cert /\ ~c.req.ca)
TrueOutcome(c) ==
  /\ c.received > 1 => c.req.verb \notin {"POST", "PATCH"}
  /\ IF c.result.status = "Success" THEN Succeeded(c.code) \/ c.code \notin FailureCodes \cup {0}
     ELSE isIdempotentMethod(c.req.verb) => BeatenCall(c)
PanicCause(c) ==
  \/ c.set.retries < 0 \/ c.set.base < 2 \/ c.set.max < 2
  \/ c.set.base * Shift[c.attempt] > MaxInt
  \/ Aws(c.req) /\ (c.req.verb = "" \/ c.req.headers = "bare")

CallTypeOK(c) ==
  /\ c.pc \in {"client", "limit", "send", "sleep", "done", "panicked"}
  /\ c.req \in RequestOptions /\ c.set \in Settings /\ c.attempt \in Nat /\ c.unread \in BOOLEAN
  /\ c.faults \in Nat /\ c.received \in Nat /\ c.code \in Nat /\ c.ended \in BOOLEAN

\* All attempts so far were made to fail, or the next ones must; one that may not be
\* repeated was not.
Progress(c) ==
  /\ c.pc \in {"client", "limit"} => c.attempt = 0 /\ c.faults = 0 /\ c.received = 0
  /\ isIdempotentMethod(c.req.verb) =>
       /\ c.pc = "send" => c.attempt <= c.set.retries /\ (Hopeless(c) \/ c.faults = c.attempt)
       /\ c.pc = "sleep" => c.attempt < c.set.retries /\ (Hopeless(c) \/ c.faults = c.attempt + 1)
  /\ ~isIdempotentMethod(c.req.verb) =>
       c.pc # "sleep" /\ c.received <= 1 /\ (c.pc = "send" => c.received = 0)

CallInv(c) ==
  /\ IsCall(c) /\ CallTypeOK(c) /\ Progress(c)
  /\ c.pc = "done" => TrueOutcome(c)
  /\ c.pc = "panicked" => PanicCause(c)
  /\ (c.pc = "sleep" /\ c.code # 429) => c.delay \in 1 .. c.set.max

UntilInv ==
  until.pc # "idle" =>
    /\ until = [pc |-> until.pc, first |-> until.first, max |-> until.max, delay |-> until.delay]
    /\ {until.first, until.max, until.delay} \subseteq Int /\ 1 <= until.first /\ until.first <= until.max
    /\ until.delay \in until.first .. until.max \/ 2 * until.max > MaxInt

HttpInv == (call = NoRequest \/ CallInv(call)) /\ UntilInv /\ second \in Nat

-----------------------------------------------------------------------------
(* Delays *)

(* A duration wraps to an integer, and to itself if it is not too large. *)
LEMMA WrapValues ==
  ASSUME NEW n \in Int PROVE Wrap(n) \in Int /\ (n \in 0..MaxInt => Wrap(n) = n)
<1> DEFINE m == 2 * (MaxInt + 1)
           a == n + MaxInt + 1
<1>1. m \in Nat /\ m > 0 /\ a \in Int /\ MaxInt \in Nat
  BY WidthAssumption
<1>2. n \in 0..MaxInt => a \in Nat /\ a < m
  BY <1>1
<1>3. a % m \in Int /\ (a \in Nat /\ a < m => a % m = a)
  <2> HIDE DEF a, m
  <2> QED
    BY <1>1
<1>4. Wrap(n) = (a % m) - (MaxInt + 1)
  BY DEF Wrap
<1> QED
  BY <1>1, <1>2, <1>3, <1>4

(* A backoff lies within its cap; there is none only for settings out of      *)
(* range.                                                                     *)
LEMMA BackoffValues ==
  ASSUME NEW attempt \in Nat, NEW base \in Int, NEW max \in Int
  PROVE  /\ backoff(attempt, base, max) \subseteq 1 .. max
         /\ backoff(attempt, base, max) = {} => base < 2 \/ max < 2 \/ base * Shift[attempt] > MaxInt
<1> DEFINE n == base * Shift[attempt]
           doubled == Wrap(n)
           d == IF doubled > max THEN max ELSE doubled
<1>1. n \in Int /\ doubled \in Int /\ d \in Int /\ d <= max /\ (d = doubled \/ d = max)
  <2>1. n \in Int
    BY ShiftValues
  <2> HIDE DEF n
  <2>2. doubled \in Int
    BY <2>1, WrapValues
  <2> HIDE DEF doubled
  <2> QED
    BY <2>1, <2>2
<1>2. base >= 2 => n >= 2
  BY ShiftValues
<1>3. n >= 2 /\ ~(n > MaxInt) => doubled = n
  BY <1>1, WrapValues, WidthAssumption
<1>4. backoff(attempt, base, max) = {Half(d) + jitter : jitter \in 0 .. Half(d) - 1}
  BY DEF backoff
<1> HIDE DEF d
<1>5. Half(d) \in Int /\ 2 * Half(d) <= d + 1 /\ (d >= 2 => Half(d) >= 1) /\ (Half(d) >= 1 => 2 * Half(d) <= d)
  BY <1>1 DEF Half
<1>6. ASSUME NEW x \in backoff(attempt, base, max) PROVE x \in 1 .. max
  BY <1>1, <1>4, <1>5
<1>7. backoff(attempt, base, max) = {} => d < 2
  <2>1. Half(d) >= 1 => Half(d) + 0 \in backoff(attempt, base, max)
    BY <1>4, <1>5
  <2> QED
    BY <1>1, <1>5, <2>1
<1> HIDE DEF doubled, n
<1>8. d < 2 => max < 2 \/ base < 2 \/ n > MaxInt
  BY <1>1, <1>2, <1>3
<1> QED
  BY <1>6, <1>7, <1>8 DEF n

-----------------------------------------------------------------------------
(* The call *)

\* Two calls differ at most in where they are, when they were dated and signed, and in their delay.
Alike(c, k) ==
  /\ IsCall(k) /\ k.req = c.req /\ k.set = c.set /\ k.attempt = c.attempt /\ k.unread = c.unread
  /\ k.faults = c.faults /\ k.received = c.received

(* The call moves on. *)
LEMMA Moved ==
  ASSUME NEW c, IsCall(c), NEW x
  PROVE  LET k == [c EXCEPT !.pc = x]
         IN  Alike(c, k) /\ k.pc = x /\ k.code = c.code /\ k.ended = c.ended
BY DEF IsCall, CallFields, Alike

(* Its headers are dated. *)
LEMMA HeadersDated ==
  ASSUME NEW c, IsCall(c), NEW x
  PROVE  LET k == [c EXCEPT !.dated = x]
         IN  Alike(c, k) /\ k.pc = c.pc /\ k.code = c.code /\ k.ended = c.ended
BY DEF IsCall, CallFields, Alike

(* It is signed. *)
LEMMA RequestSigned ==
  ASSUME NEW c, IsCall(c), NEW x
  PROVE  LET k == [c EXCEPT !.signed = x]
         IN  Alike(c, k) /\ k.pc = c.pc /\ k.code = c.code /\ k.ended = c.ended
BY DEF IsCall, CallFields, Alike

(* Its context ends. *)
LEMMA ContextEnded ==
  ASSUME NEW c, IsCall(c), NEW x
  PROVE  LET k == [c EXCEPT !.ended = x]
         IN  Alike(c, k) /\ k.pc = c.pc /\ k.code = c.code /\ k.ended = x /\ k.delay = c.delay /\ k.result = c.result
BY DEF IsCall, CallFields, Alike

(* An attempt has an outcome. *)
LEMMA CodeReceived ==
  ASSUME NEW c, IsCall(c), NEW x
  PROVE  LET k == [c EXCEPT !.code = x]
         IN  Alike(c, k) /\ k.pc = c.pc /\ k.code = x /\ k.ended = c.ended
BY DEF IsCall, CallFields, Alike

(* The call ends with a result. *)
LEMMA DoneFields ==
  ASSUME NEW c, IsCall(c), NEW code
  PROVE  LET k == Done(c, code)
         IN  /\ Alike(c, k) /\ k.pc = "done" /\ k.code = c.code /\ k.ended = c.ended
             /\ k.result = NewResponse(code)
BY Zenon DEF IsCall, CallFields, Alike, Done

(* The call waits. *)
LEMMA SleepsFields ==
  ASSUME NEW c, IsCall(c), NEW delay
  PROVE  LET k == Sleeps(c, delay)
         IN  /\ Alike(c, k) /\ k.pc = "sleep" /\ k.code = c.code /\ k.ended = c.ended /\ k.delay = delay
BY Zenon DEF IsCall, CallFields, Alike, Sleeps

(* The call ends with an answer. *)
LEMMA WithResultFields ==
  ASSUME NEW c, IsCall(c), NEW code, NEW result
  PROVE  LET k == WithResult(c, code, result)
         IN  /\ Alike(c, k) /\ k.pc = "done" /\ k.code = code /\ k.ended = c.ended /\ k.result = result
BY Zenon DEF IsCall, CallFields, Alike, WithResult

(* An attempt is made. *)
LEMMA AttemptedFields ==
  ASSUME NEW c, IsCall(c), NEW written, NEW arrived, NEW fault
  PROVE  LET k == Attempted(c, written, arrived, fault)
         IN  /\ IsCall(k) /\ k.pc = c.pc /\ k.req = c.req /\ k.set = c.set /\ k.attempt = c.attempt
             /\ k.unread = (c.unread /\ ~written) /\ k.received = c.received + (IF arrived THEN 1 ELSE 0)
             /\ k.faults = c.faults + (IF fault THEN 1 ELSE 0) /\ k.code = c.code /\ k.ended = c.ended
BY Zenon DEF IsCall, CallFields, Alike, Attempted

(* The next attempt. *)
LEMMA NextAttemptFields ==
  ASSUME NEW c, IsCall(c)
  PROVE  LET k == NextAttempt(c)
         IN  /\ IsCall(k) /\ k.pc = "send" /\ k.attempt = c.attempt + 1 /\ k.req = c.req /\ k.set = c.set
             /\ k.code = c.code /\ k.unread = c.unread /\ k.received = c.received /\ k.faults = c.faults
             /\ k.ended = c.ended
BY Zenon DEF IsCall, CallFields, Alike, NextAttempt

Once(c) == ~isIdempotentMethod(c.req.verb) => c.received <= 1

\* POST and PATCH are not idempotent, so they arrive once (retry.go:137-145).
LEMMA OnlyOnce ==
  ASSUME NEW c, Once(c), c.received \in Nat
  PROVE  c.received > 1 => c.req.verb \notin {"POST", "PATCH"}
<1>1. c.req.verb \in {"POST", "PATCH"} => ~isIdempotentMethod(c.req.verb)
  BY Zenon DEF isIdempotentMethod
<1> QED
  BY <1>1 DEF Once

(* A call may give up if it is beaten, and panic with a cause. *)
LEMMA GivesUp ==
  ASSUME NEW c, IsCall(c), CallTypeOK(c), Once(c), isIdempotentMethod(c.req.verb) => BeatenCall(c)
  PROVE  CallInv(Done(c, 500)) /\ Done(c, 500).pc = "done"
<1> DEFINE k == Done(c, 500)
<1>1. /\ Alike(c, k) /\ k.pc = "done" /\ k.code = c.code /\ k.ended = c.ended /\ k.result = NewResponse(500)
  BY DoneFields
<1>2. k.result.status = "Failure"
  BY <1>1 DEF NewResponse, FailureCodes
<1> HIDE DEF k
<1>3. IsCall(k) /\ CallTypeOK(k) /\ Progress(k)
  BY <1>1 DEF Alike, CallTypeOK, Progress, Once
<1>4. BeatenCall(c) => BeatenCall(k)
  BY <1>1 DEF Alike, BeatenCall, BodyIsGone
<1>5. TrueOutcome(k)
  <2>1. k.received > 1 => k.req.verb \notin {"POST", "PATCH"}
    BY <1>1, OnlyOnce DEF Alike, CallTypeOK
  <2>2. isIdempotentMethod(k.req.verb) => BeatenCall(k)
    BY <1>1, <1>4 DEF Alike
  <2> QED
    BY <1>2, <2>1, <2>2 DEF TrueOutcome
<1>6. CallInv(k)
  BY <1>1, <1>3, <1>5 DEF CallInv
<1> QED
  BY <1>1, <1>6 DEF k

\* A panic with a cause is an end that the invariant allows.
LEMMA MayPanic ==
  ASSUME NEW c, IsCall(c), CallTypeOK(c), Once(c), PanicCause(c)
  PROVE  CallInv(Panics(c))
<1> DEFINE k == Panics(c)
<1>1. /\ Alike(c, k) /\ k.pc = "panicked" /\ k.code = c.code /\ k.ended = c.ended
  BY Moved DEF Panics
<1> HIDE DEF k
<1>2. IsCall(k) /\ CallTypeOK(k) /\ Progress(k)
  BY <1>1 DEF Alike, CallTypeOK, Progress, Once
<1>3. PanicCause(k)
  BY <1>1, Zenon DEF Alike, PanicCause
<1>4. CallInv(k)
  BY <1>1, <1>2, <1>3 DEF CallInv
<1> QED
  BY <1>4 DEF k

(* An answer that is not retried is passed on. *)
LEMMA PassesOn ==
  ASSUME NEW c, IsCall(c), CallTypeOK(c), Once(c), NEW code \in Nat \ {0},
         isIdempotentMethod(c.req.verb) => ~Retries(code), NEW k \in WithResults(c, code)
  PROVE  CallInv(k)
<1>1. PICK w \in Results(code) : k = WithResult(c, code, w)
  BY DEF WithResults
<1>2. /\ Alike(c, k) /\ k.pc = "done" /\ k.code = code /\ k.ended = c.ended /\ k.result = w
  BY <1>1, WithResultFields
<1>3. w.status = "Success" => Succeeded(code) \/ code \notin FailureCodes
  <2>1. CASE ~Succeeded(code)
    <3>1. w \in {NewResponse(code), NewResponse(500), [code |-> code, status |-> "Failure"], [code |-> 0, status |-> ""]}
      BY <1>1, <2>1, Zenon DEF Results
    <3>2. 500 \in FailureCodes
      BY DEF FailureCodes
    <3>3. CASE w = NewResponse(code)
      <4>1. w.status = IF code \in FailureCodes THEN "Failure" ELSE "Success"
        BY <3>3 DEF NewResponse
      <4> QED
        BY <4>1
    <3>4. CASE w = NewResponse(500)
      <4>1. w.status = IF 500 \in FailureCodes THEN "Failure" ELSE "Success"
        BY <3>4 DEF NewResponse
      <4> QED
        BY <3>2, <4>1
    <3>5. CASE w = [code |-> code, status |-> "Failure"]
      <4>1. w.status = "Failure"
        BY <3>5
      <4> QED
        BY <4>1
    <3>6. CASE w = [code |-> 0, status |-> ""]
      <4>1. w.status = ""
        BY <3>6, Zenon
      <4> QED
        BY <4>1, Zenon
    <3> QED
      BY <3>1, <3>3, <3>4, <3>5, <3>6, Zenon
  <2> QED
    BY <2>1
<1>4. IsCall(k) /\ CallTypeOK(k) /\ Progress(k)
  BY <1>2 DEF Alike, CallTypeOK, Progress, Once
<1>5. isIdempotentMethod(k.req.verb) => BeatenCall(k)
  BY <1>2 DEF Alike, BeatenCall
<1>6. TrueOutcome(k)
  <2>1. k.received > 1 => k.req.verb \notin {"POST", "PATCH"}
    BY <1>2, OnlyOnce DEF Alike, CallTypeOK
  <2>2. k.result.status = "Success" => Succeeded(k.code) \/ k.code \notin FailureCodes \cup {0}
    BY <1>2, <1>3
  <2> QED
    BY <1>5, <2>1, <2>2 DEF TrueOutcome
<1> QED
  BY <1>2, <1>4, <1>6 DEF CallInv

(* After an attempt: it was made to fail, or none can succeed. *)
LEMMA AfterAttempt ==
  ASSUME NEW c, IsCall(c), CallTypeOK(c), c.pc = "send", Once(c), NEW code \in Nat,
         isIdempotentMethod(c.req.verb) =>
           /\ c.attempt <= c.set.retries
           /\ code = 0 \/ Retries(code) => Hopeless(c) \/ c.faults = c.attempt + 1,
         NEW k \in After(c, code)
  PROVE  CallInv(k)
<1>1. CASE ~isIdempotentMethod(c.req.verb)
  <2>1. k = Done(c, 500) \/ (code # 0 /\ k \in WithResults(c, code))
    BY <1>1 DEF After
  <2> QED
    BY <1>1, <2>1, GivesUp, PassesOn
<1>2. CASE isIdempotentMethod(c.req.verb) /\ code # 0 /\ ~Retries(code)
  <2>1. k \in WithResults(c, code)
    BY <1>2 DEF After
  <2> QED
    BY <1>2, <2>1, PassesOn
<1>3. CASE isIdempotentMethod(c.req.verb) /\ (code = 0 \/ Retries(code))
  <2> DEFINE l == [c EXCEPT !.code = code]
             delays == IF code = 429 THEN parseRetryAfter ELSE backoff(c.attempt, c.set.base, c.set.max)
  <2>1. k \in Again(l, delays)
    BY <1>3 DEF After
  <2>2. Alike(c, l) /\ l.pc = "send" /\ l.code = code /\ l.ended = c.ended
    BY CodeReceived
  <2>3. c.set.retries \in Int /\ c.set.base \in Int /\ c.set.max \in Int /\ c.attempt \in Nat
    BY HttpAssumption DEF CallTypeOK
  <2>4. /\ delays = {} => PanicCause(c)
        /\ code # 429 => delays \subseteq 1 .. c.set.max
    <3>1. code = 429 => delays # {}
      BY DEF parseRetryAfter
    <3>2. code # 429 => delays = backoff(c.attempt, c.set.base, c.set.max)
      OBVIOUS
    <3> HIDE DEF delays
    <3> QED
      BY <2>3, <3>1, <3>2, BackoffValues, Zenon DEF PanicCause
  <2> HIDE DEF l, delays
  <2>5. IsCall(l) /\ CallTypeOK(l) /\ Once(l)
    BY <2>2 DEF Alike, CallTypeOK, Once
  <2>6. Hopeless(l) \/ l.faults = l.attempt + 1
    BY <1>3, <2>2 DEF Alike, Hopeless, BodyIsGone
  <2>7. CASE l.attempt >= l.set.retries
    <3>1. k = Done(l, 500)
      BY <2>1, <2>7 DEF Again
    <3>2. l.attempt = l.set.retries
      BY <1>3, <2>2, <2>3, <2>7 DEF Alike
    <3>3. ~tlsConfigFor(l.req).trusts => l.req.cert /\ ~l.req.ca
      BY <2>5, HttpAssumption, Zenon DEF tlsConfigFor, CallTypeOK
    <3>4. BeatenCall(l)
      BY <2>6, <3>2, <3>3 DEF BeatenCall, Hopeless
    <3> QED
      BY <2>5, <3>1, <3>4, GivesUp
  <2>8. CASE ~(l.attempt >= l.set.retries) /\ delays = {}
    <3>1. k = Panics(l)
      BY <2>1, <2>8 DEF Again
    <3>2. PanicCause(l)
      BY <2>2, <2>4, <2>8, Zenon DEF Alike, PanicCause
    <3> QED
      BY <2>5, <3>1, <3>2, MayPanic
  <2>9. CASE ~(l.attempt >= l.set.retries) /\ delays # {}
    <3>1. PICK d \in delays : k = Sleeps(l, d)
      BY <2>1, <2>9 DEF Again
    <3>2. /\ Alike(l, k) /\ k.pc = "sleep" /\ k.code = l.code /\ k.ended = l.ended /\ k.delay = d
      BY <2>5, <3>1, SleepsFields
    <3>3. IsCall(k) /\ CallTypeOK(k)
      BY <2>5, <3>2 DEF Alike, CallTypeOK
    <3>4. k.attempt < k.set.retries
      BY <2>2, <2>3, <2>9, <3>2 DEF Alike
    <3>5. Hopeless(k) \/ k.faults = k.attempt + 1
      BY <2>6, <3>2 DEF Alike, Hopeless, BodyIsGone
    <3>6. Progress(k)
      BY <1>3, <2>2, <3>2, <3>4, <3>5 DEF Alike, Progress
    <3>7. k.code # 429 => k.delay \in 1 .. k.set.max
      BY <2>2, <2>4, <3>1, <3>2 DEF Alike
    <3> QED
      BY <3>2, <3>3, <3>6, <3>7 DEF CallInv
  <2> QED
    BY <2>7, <2>8, <2>9
<1> QED
  BY <1>1, <1>2, <1>3

(* A call that only moves on to where it may be keeps what it has been        *)
(* through.                                                                   *)
LEMMA MovesOn ==
  ASSUME NEW c, CallTypeOK(c), Progress(c), NEW k, Alike(c, k), c.pc \in {"client", "limit"},
         k.code = c.code, k.ended \in BOOLEAN,
         \/ k.pc \in {"client", "limit"}
         \/ k.pc = "send" /\ (isIdempotentMethod(c.req.verb) => 0 <= c.set.retries)
  PROVE  CallInv(k)
<1>1. IsCall(k) /\ CallTypeOK(k)
  BY DEF Alike, CallTypeOK
<1>2. k.attempt = 0 /\ k.faults = 0 /\ k.received = 0
  BY DEF Alike, Progress
<1>3. Progress(k)
  BY <1>2 DEF Alike, Progress
<1> QED
  BY <1>1, <1>3 DEF CallInv

(* A step of the call leaves the polling loop and the clock alone. *)
LEMMA CallStep ==
  ASSUME HttpInv, CallInv(call') \/ call' = NoRequest, UNCHANGED <<second, until>> PROVE HttpInv'
BY Zenon DEF HttpInv, UntilInv, CallInv, IsCall, CallTypeOK, Progress, Hopeless, BodyIsGone, TrueOutcome, BeatenCall,
   PanicCause

(* Do starts: the URL, and the headers with their date. *)
LEMMA RequestStep ==
  ASSUME HttpInv, NEW r \in RequestOptions, NEW s \in Settings, Request(r, s) PROVE HttpInv'
<1> DEFINE c == [pc |-> "client", req |-> r, set |-> s, attempt |-> 0, unread |-> TRUE, code |-> 0,
                 faults |-> 0, received |-> 0, delay |-> 0, dated |-> 0, signed |-> 0,
                 ended |-> FALSE, result |-> NewResponse(200)]
<1>2. /\ call' = (IF r.flaw = "url" THEN Done(c, 500) ELSE IF Aws(r) THEN ComputeAwsHeaders(c) ELSE c)
      /\ UNCHANGED <<second, until>>
  BY DEF Request
<1> HIDE DEF c
<1>1. /\ IsCall(c) /\ c.pc = "client" /\ c.req = r /\ c.set = s /\ c.attempt = 0 /\ c.code = 0
      /\ c.faults = 0 /\ c.received = 0 /\ c.unread \in BOOLEAN /\ c.ended \in BOOLEAN
  BY Zenon DEF IsCall, CallFields, c
<1>3. CallTypeOK(c) /\ Progress(c) /\ Once(c)
  BY <1>1 DEF CallTypeOK, Progress, Once
<1>4. CASE r.flaw = "url"
  <2>1. BeatenCall(c)
    BY <1>1, <1>4 DEF BeatenCall
  <2> QED
    BY <1>1, <1>2, <1>3, <1>4, <2>1, GivesUp, CallStep
<1>5. CASE r.flaw # "url" /\ Aws(r) /\ r.headers = "bare"
  <2>1. PanicCause(c) /\ call' = Panics(c)
    BY <1>1, <1>2, <1>5 DEF PanicCause, ComputeAwsHeaders
  <2> QED
    BY <1>1, <1>2, <1>3, <2>1, MayPanic, CallStep
<1>6. CASE r.flaw # "url" /\ Aws(r) /\ r.headers # "bare"
  <2>1. call' = [c EXCEPT !.dated = second]
    BY <1>1, <1>2, <1>6 DEF ComputeAwsHeaders
  <2>2. Alike(c, call') /\ call'.pc = c.pc /\ call'.code = c.code /\ call'.ended = c.ended
    BY <1>1, <2>1, HeadersDated
  <2>3. CallInv(call')
    BY <1>1, <1>3, <2>2, MovesOn
  <2> QED
    BY <1>2, <2>3, CallStep
<1>7. CASE r.flaw # "url" /\ ~Aws(r)
  <2>1. CallInv(c)
    BY <1>1, <1>3 DEF CallInv
  <2> QED
    BY <1>2, <1>7, <2>1, CallStep
<1> QED
  BY <1>4, <1>5, <1>6, <1>7

(* The client for the endpoint, and for AWS the signature. *)
LEMMA ClientStep == ASSUME HttpInv, HTTPClientForEndpoint PROVE HttpInv'
<1> DEFINE c == [call EXCEPT !.pc = "limit"]
<1>1. call.pc = "client" /\ CallInv(call)
  BY DEF HTTPClientForEndpoint, HttpInv, NoRequest
<1>2. IsCall(call) /\ CallTypeOK(call) /\ Progress(call) /\ Once(call)
  BY <1>1 DEF CallInv, Progress, Once
<1>3. Alike(call, c) /\ c.pc = "limit" /\ c.code = call.code /\ c.ended = call.ended
  BY <1>2, Moved
<1>4. /\ call' = IF tlsConfigFor(call.req).fails \/ Cardinality(call.req.auth) > 1 THEN Done(call, 500)
                 ELSE IF Aws(call.req) THEN ComputeAwsSignature(c) ELSE c
      /\ UNCHANGED <<second, until>>
  BY DEF HTTPClientForEndpoint
<1> HIDE DEF c
<1>5. CallInv(c)
  BY <1>1, <1>2, <1>3, MovesOn DEF CallTypeOK
<1>6. c.req = call.req /\ IsCall(c) /\ CallTypeOK(c) /\ Progress(c) /\ Once(c) /\ c.ended \in BOOLEAN
  BY <1>3, <1>5 DEF CallInv, Alike, Progress, Once, CallTypeOK
<1>7. CASE tlsConfigFor(call.req).fails \/ Cardinality(call.req.auth) > 1
  <2>1. BeatenCall(call)
    BY <1>7, Zenon DEF BeatenCall, tlsConfigFor
  <2> QED
    BY <1>2, <1>4, <1>7, <2>1, GivesUp, CallStep
<1>8. CASE ~(tlsConfigFor(call.req).fails \/ Cardinality(call.req.auth) > 1) /\ Aws(call.req)
  <2>1. CASE c.req.verb = ""
    <3>1. PanicCause(c) /\ call' = Panics(c)
      BY <1>4, <1>6, <1>8, <2>1, Zenon DEF PanicCause, ComputeAwsSignature
    <3> QED
      BY <1>4, <1>6, <3>1, MayPanic, CallStep
  <2>2. CASE c.req.verb # ""
    <3>1. call' = [c EXCEPT !.signed = second]
      BY <1>4, <1>8, <2>2, Zenon DEF ComputeAwsSignature
    <3>2. Alike(c, call') /\ call'.pc = c.pc /\ call'.code = c.code /\ call'.ended = c.ended
      BY <1>6, <3>1, RequestSigned
    <3>3. CallInv(call')
      BY <1>3, <1>6, <3>2, MovesOn
    <3> QED
      BY <1>4, <3>3, CallStep
  <2> QED
    BY <2>1, <2>2, Zenon
<1>9. CASE ~(tlsConfigFor(call.req).fails \/ Cardinality(call.req.auth) > 1) /\ ~Aws(call.req)
  BY <1>4, <1>5, <1>9, CallStep
<1> QED
  BY <1>7, <1>8, <1>9

(* The rate limiter lets the first attempt pass, if there is to be one. *)
LEMMA WaitStep == ASSUME HttpInv, Wait PROVE HttpInv'
<1>1. call.pc = "limit" /\ CallInv(call) /\ UNCHANGED <<second, until>>
  BY DEF Wait, HttpInv, NoRequest
<1>2. /\ IsCall(call) /\ CallTypeOK(call) /\ Progress(call) /\ Once(call) /\ call.set.retries \in Int
      /\ call.ended \in BOOLEAN
  BY <1>1, HttpAssumption DEF CallInv, Progress, Once, CallTypeOK
<1>3. CASE isIdempotentMethod(call.req.verb) /\ call.set.retries < 0 /\ call' = Panics(call)
  <2>1. PanicCause(call)
    BY <1>3, Zenon DEF PanicCause
  <2> QED
    BY <1>1, <1>2, <1>3, <2>1, MayPanic, CallStep
<1>4. CASE ~(isIdempotentMethod(call.req.verb) /\ call.set.retries < 0) /\ call' = [call EXCEPT !.pc = "send"]
  <2>1. Alike(call, call') /\ call'.pc = "send" /\ call'.code = call.code /\ call'.ended = call.ended
    BY <1>2, <1>4, Moved
  <2>2. CallInv(call')
    <3>1. isIdempotentMethod(call.req.verb) => 0 <= call.set.retries
      BY <1>2, <1>4
    <3> DEFINE k == call'
    <3>2. Alike(call, k) /\ k.pc = "send" /\ k.code = call.code /\ k.ended \in BOOLEAN
      BY <1>2, <2>1
    <3> HIDE DEF k
    <3>3. CallInv(k)
      BY <1>1, <1>2, <3>1, <3>2, MovesOn
    <3> QED
      BY <3>3 DEF k
  <2> QED
    BY <1>1, <2>2, CallStep
<1>5. CASE call' = Done([call EXCEPT !.ended = TRUE], 500)
  <2> DEFINE c == [call EXCEPT !.ended = TRUE]
  <2> DEFINE yes == TRUE
  <2>1. Alike(call, c) /\ c.pc = call.pc /\ c.code = call.code /\ c.ended = yes
    BY <1>2, ContextEnded
  <2> HIDE DEF c
  <2>2. IsCall(c) /\ CallTypeOK(c) /\ Once(c)
    <3>1. yes \in BOOLEAN
      OBVIOUS
    <3> HIDE DEF yes
    <3> QED
      BY <1>2, <2>1, <3>1 DEF Alike, CallTypeOK, Once
  <2>3. BeatenCall(c)
    BY <2>1 DEF BeatenCall
  <2>4. call' = Done(c, 500)
    BY <1>5 DEF c
  <2> QED
    BY <1>1, <2>2, <2>3, <2>4, GivesUp, CallStep
<1> QED
  BY <1>3, <1>4, <1>5 DEF Wait

(* Attempts: the server answers, the connection breaks, or nothing can be     *)
(* sent.                                                                      *)
LEMMA AttemptStep ==
  ASSUME HttpInv, call.pc = "send", ~BodyIsGone(call), UNCHANGED <<second, until>>, NEW code \in Nat,
         NEW written \in BOOLEAN, NEW arrived \in BOOLEAN, NEW fault \in BOOLEAN,
         code = 0 \/ Retries(code) => fault, call' \in After(Attempted(call, written, arrived, fault), code)
  PROVE  HttpInv'
<1>1. CallInv(call)
  BY DEF HttpInv, NoRequest
<1>2. IsCall(call) /\ CallTypeOK(call) /\ Progress(call) /\ call.set.retries \in Int
  BY <1>1, HttpAssumption DEF CallInv, CallTypeOK
<1> DEFINE c == Attempted(call, written, arrived, fault)
           one == IF arrived THEN 1 ELSE 0
           more == IF fault THEN 1 ELSE 0
<1>3. /\ IsCall(c) /\ c.pc = "send" /\ c.req = call.req /\ c.set = call.set /\ c.attempt = call.attempt
      /\ c.received = call.received + one /\ c.faults = call.faults + more
      /\ c.code = call.code /\ c.ended = call.ended
  BY <1>2, AttemptedFields
<1>4. c.unread \in BOOLEAN
  <2>1. c.unread = (call.unread /\ ~written)
    BY <1>2, AttemptedFields
  <2> HIDE DEF c
  <2> QED
    BY Zenon, <2>1
<1>5. one \in {0, 1} /\ more \in {0, 1} /\ (fault => more = 1)
  OBVIOUS
<1> HIDE DEF c, one, more
<1>6. CallTypeOK(c)
  BY <1>2, <1>3, <1>4, <1>5 DEF CallTypeOK
<1>7. Once(c)
  BY <1>2, <1>3, <1>5 DEF Progress, Once, CallTypeOK
<1>8. ASSUME isIdempotentMethod(c.req.verb)
      PROVE  /\ c.attempt <= c.set.retries
             /\ (code = 0 \/ Retries(code)) => Hopeless(c) \/ c.faults = c.attempt + 1
  <2>1. call.attempt <= call.set.retries /\ (Hopeless(call) \/ call.faults = call.attempt)
    BY <1>2, <1>3, <1>8 DEF Progress
  <2>2. Hopeless(call) => Hopeless(c)
    BY Zenon, <1>3 DEF Hopeless
  <2> QED
    BY Zenon, <1>3, <1>5, <2>1, <2>2
<1>9. CallInv(call')
  <2>1. call' \in After(c, code)
    BY DEF c
  <2> QED
    BY <1>3, <1>6, <1>7, <1>8, <2>1, AfterAttempt
<1> QED
  BY <1>9, CallStep

\* The server answers an attempt.
LEMMA AnswerStep == ASSUME HttpInv, NEW code \in Codes, ServerAnswers(code) PROVE HttpInv'
<1>1. code \in Nat /\ code # 0 /\ Retries(code) \in BOOLEAN
  BY HttpAssumption DEF Retries
<1>2. /\ call.pc = "send" /\ ~BodyIsGone(call) /\ UNCHANGED <<second, until>>
      /\ call' \in After(Attempted(call, TRUE, TRUE, Retries(code)), code)
  BY Zenon DEF ServerAnswers
<1>3. ASSUME NEW fault \in BOOLEAN, fault = Retries(code) PROVE HttpInv'
  <2>1. call' \in After(Attempted(call, TRUE, TRUE, fault), code)
    BY <1>2, <1>3, Zenon
  <2> QED BY <1>1, <1>2, <1>3, <2>1, AttemptStep, Zenon
<1> QED BY <1>1, <1>3, Zenon

\* The connection of an attempt breaks.
LEMMA BreaksStep ==
  ASSUME HttpInv, NEW written \in BOOLEAN, NEW received \in BOOLEAN, Breaks(written, received) PROVE HttpInv'
BY AttemptStep, Zenon DEF Breaks

\* An attempt fails for a body that is consumed or a server that is not trusted.
LEMMA FailsAloneStep == ASSUME HttpInv, FailsAlone PROVE HttpInv'
<1>1. CallInv(call) /\ call.pc = "send" /\ UNCHANGED <<second, until>> /\ Hopeless(call) /\ call' \in After(call, 0)
  BY DEF FailsAlone, HttpInv, NoRequest, Hopeless
<1>2. IsCall(call) /\ CallTypeOK(call) /\ Progress(call) /\ Once(call)
  BY <1>1 DEF CallInv, Progress, Once
<1>3. isIdempotentMethod(call.req.verb) => call.attempt <= call.set.retries
  BY <1>1, <1>2 DEF Progress
<1>4. CallInv(call')
  BY <1>1, <1>2, <1>3, AfterAttempt
<1> QED
  BY <1>1, <1>4, CallStep

(* The caller's context ends; the call notices where it waits. *)
LEMMA GivesUpStep == ASSUME HttpInv, CallerGivesUp PROVE HttpInv'
<1> DEFINE yes == TRUE
           c == [call EXCEPT !.ended = yes]
<1>1. /\ call.pc \in {"client", "limit", "send", "sleep"} /\ CallInv(call) /\ UNCHANGED <<second, until>>
      /\ call' = c /\ yes \in BOOLEAN
  BY DEF CallerGivesUp, HttpInv, NoRequest
<1> HIDE DEF yes
<1>2. Alike(call, c) /\ c.pc = call.pc /\ c.code = call.code /\ c.ended = yes /\ c.delay = call.delay
  BY <1>1, ContextEnded DEF CallInv
<1> HIDE DEF c
<1>3. IsCall(c) /\ CallTypeOK(c)
  BY Zenon, <1>1, <1>2 DEF CallInv, Alike, CallTypeOK
<1>4. Progress(c)
  BY <1>1, <1>2 DEF CallInv, Alike, Progress, Hopeless, BodyIsGone
<1>5. CallInv(c)
  BY <1>1, <1>2, <1>3, <1>4 DEF CallInv, Alike
<1> QED
  BY <1>1, <1>5, CallStep

(* A wait ends with the next attempt, or with the caller's context. *)
LEMMA SleepStep == ASSUME HttpInv, SleepEnds \/ SleepIsCut PROVE HttpInv'
<1>1. call.pc = "sleep" /\ CallInv(call) /\ UNCHANGED <<second, until>>
  BY DEF SleepEnds, SleepIsCut, HttpInv, NoRequest
<1>2. IsCall(call) /\ CallTypeOK(call) /\ Progress(call) /\ Once(call) /\ call.set.retries \in Int
  BY Zenon, <1>1, HttpAssumption DEF CallInv, Progress, Once, CallTypeOK
<1>3. CASE SleepIsCut
  <2>1. BeatenCall(call) /\ call' = Done(call, 500)
    BY <1>3 DEF SleepIsCut, BeatenCall
  <2> QED
    BY <1>1, <1>2, <2>1, GivesUp, CallStep
<1>4. CASE SleepEnds
  <2> DEFINE c == NextAttempt(call)
  <2>1. /\ IsCall(c) /\ c.pc = "send" /\ c.attempt = call.attempt + 1 /\ c.req = call.req
        /\ c.set = call.set /\ c.code = call.code /\ c.unread = call.unread
        /\ c.received = call.received /\ c.faults = call.faults /\ c.ended = call.ended
    BY <1>2, NextAttemptFields
  <2>2. call' = c
    BY <1>4 DEF SleepEnds
  <2> HIDE DEF c
  <2>3. CallTypeOK(c)
    BY <1>2, <2>1 DEF CallTypeOK
  <2>4. Hopeless(call) => Hopeless(c)
    BY <2>1 DEF Hopeless, BodyIsGone
  <2>5. /\ isIdempotentMethod(call.req.verb) /\ call.attempt < call.set.retries
        /\ Hopeless(call) \/ call.faults = call.attempt + 1
    BY <1>1, <1>2 DEF Progress
  <2>6. call.attempt \in Nat
    BY Zenon, <1>2 DEF CallTypeOK
  <2>7. Progress(c)
    BY <1>2, <2>1, <2>4, <2>5, <2>6 DEF Progress
  <2>8. CallInv(c)
    BY <2>1, <2>3, <2>7 DEF CallInv
  <2> QED
    BY Zenon, <1>1, <2>2, <2>8, CallStep
<1> QED
  BY <1>3, <1>4

(* The loop of UntilWithOptions: the delay doubles up to the largest one. *)
LEMMA UntilStep == ASSUME HttpInv, UntilNext PROVE HttpInv'
<1>1. UNCHANGED <<call, second>>
  BY DEF UntilNext, Until, Check, Waited, UntilReturns
<1>2. ASSUME NEW s \in Settings, Until(s.base, s.max) PROVE UntilInv'
  <2> DEFINE from == IF s.base <= 0 THEN 1 ELSE s.base
             to == IF s.max <= 0 THEN 30 ELSE s.max
             most == IF to < from THEN from ELSE to
             start == "check"
  <2>1. s.base \in Int /\ s.max \in Int
    BY HttpAssumption
  <2>2. from \in Int /\ most \in Int /\ 1 <= from /\ from <= most
    BY <2>1
  <2>3. until' = [pc |-> start, first |-> from, max |-> most, delay |-> from]
    BY <1>2 DEF Until
  <2> HIDE DEF from, most, start
  <2>4. until'.first = from /\ until'.max = most /\ until'.delay = from /\ until'.pc = start
    BY <2>3
  <2> QED
    BY <2>2, <2>3, <2>4 DEF UntilInv
<1>3. ASSUME until.pc # "idle", NEW pc, NEW delay \in Int,
             until' = [pc |-> pc, first |-> until.first, max |-> until.max, delay |-> delay],
             delay \in until.first .. until.max \/ 2 * until.max > MaxInt
      PROVE  UntilInv'
  <2> DEFINE f == until.first
             m == until.max
  <2>1. f \in Int /\ m \in Int /\ 1 <= f /\ f <= m
    BY <1>3 DEF HttpInv, UntilInv
  <2>2. until' = [pc |-> pc, first |-> f, max |-> m, delay |-> delay] /\ (delay \in f .. m \/ 2 * m > MaxInt)
    BY <1>3
  <2> HIDE DEF f, m
  <2>3. until'.first = f /\ until'.max = m /\ until'.delay = delay /\ until'.pc = pc
    BY <2>2
  <2> QED
    BY <2>1, <2>2, <2>3 DEF UntilInv
<1>4. ASSUME until.pc # "idle"
      PROVE  /\ until = [pc |-> until.pc, first |-> until.first, max |-> until.max, delay |-> until.delay]
             /\ until.first \in Int /\ until.max \in Int /\ until.delay \in Int
             /\ 1 <= until.first /\ until.first <= until.max
             /\ until.delay \in until.first .. until.max \/ 2 * until.max > MaxInt
  BY <1>4 DEF HttpInv, UntilInv
<1>5. ASSUME NEW ready \in BOOLEAN, Check(ready) PROVE UntilInv'
  <2> DEFINE p == IF ready THEN "ready" ELSE "wait"
             o == until.pc
             f == until.first
             m == until.max
             d == until.delay
  <2>1. until.pc # "idle" /\ until' = [until EXCEPT !.pc = p]
    BY <1>5 DEF Check
  <2>2. until = [pc |-> o, first |-> f, max |-> m, delay |-> d]
    BY <1>4, <2>1
  <2>3. until' = [pc |-> p, first |-> f, max |-> m, delay |-> d]
    <3> HIDE DEF p, o, f, m, d
    <3> QED
      BY <2>1, <2>2
  <2> QED
    BY <1>3, <1>4, <2>1, <2>3, Zenon
<1>6. ASSUME Waited PROVE UntilInv'
  <2> DEFINE o == until.pc
             f == until.first
             m == until.max
             d == until.delay
             n == Doubled(d, m)
             p == "check"
  <2>1. until.pc # "idle" /\ until' = [until EXCEPT !.pc = p, !.delay = n]
    BY <1>6 DEF Waited
  <2>2. /\ until = [pc |-> o, first |-> f, max |-> m, delay |-> d] /\ f \in Int /\ m \in Int /\ d \in Int
        /\ 1 <= f /\ f <= m /\ (d \in f .. m \/ 2 * m > MaxInt)
    BY <1>4, <2>1
  <2>3. n \in Int /\ (n \in f .. m \/ 2 * m > MaxInt)
    <3> HIDE DEF f, m, d
    <3>1. 2 * d \in Int /\ Wrap(2 * d) \in Int /\ (2 * d \in 0..MaxInt => Wrap(2 * d) = 2 * d)
      BY <2>2, WrapValues
    <3>2. MaxInt \in Nat
      BY WidthAssumption
    <3>3. d \in f .. m /\ ~(2 * m > MaxInt) => 2 * d \in 0..MaxInt
      BY <2>2, <3>2
    <3> QED
      BY <2>2, <3>1, <3>2, <3>3 DEF Doubled
  <2>4. until' = [pc |-> p, first |-> f, max |-> m, delay |-> n]
    <3> HIDE DEF p, o, f, m, d, n
    <3>1. [until EXCEPT !.pc = p] = [pc |-> p, first |-> f, max |-> m, delay |-> d]
      BY <2>2
    <3>2. until' = [[until EXCEPT !.pc = p] EXCEPT !.delay = n]
      BY <2>1
    <3> QED
      BY <3>1, <3>2, Zenon
  <2>5. /\ until' = [pc |-> p, first |-> until.first, max |-> until.max, delay |-> n]
        /\ n \in until.first .. until.max \/ 2 * until.max > MaxInt
    BY <2>3, <2>4
  <2> HIDE DEF p, n
  <2> QED
    BY <1>3, <2>1, <2>3, <2>5, Zenon
<1>7. ASSUME UntilReturns PROVE UntilInv'
  <2>1. until'.pc = "idle"
    BY <1>7 DEF UntilReturns
  <2> QED
    BY <2>1 DEF UntilInv
<1>8. UntilInv'
  <2>1. CASE \E s \in Settings : Until(s.base, s.max)
    BY <1>2, <2>1
  <2>2. CASE \E ready \in BOOLEAN : Check(ready)
    BY <1>5, <2>2, Zenon
  <2> QED
    BY <1>6, <1>7, <2>1, <2>2, Zenon DEF UntilNext
<1>9. (call = NoRequest \/ CallInv(call)) => (call' = NoRequest \/ CallInv(call'))
  BY <1>1
<1> QED
  BY <1>1, <1>8, <1>9 DEF HttpInv

(* The clock ticks; a finished call is taken away. *)
LEMMA OtherStep == ASSUME HttpInv, ClockTicks \/ Returned PROVE HttpInv'
<1>1. CASE ClockTicks
  <2>1. UNCHANGED <<call, until>> /\ second' \in Nat
    BY <1>1 DEF ClockTicks, HttpInv
  <2>2. (call = NoRequest \/ CallInv(call)) => (call' = NoRequest \/ CallInv(call'))
    BY <2>1
  <2>3. UntilInv'
    BY <2>1 DEF HttpInv, UntilInv
  <2> QED
    BY <2>1, <2>2, <2>3 DEF HttpInv
<1>2. CASE Returned
  BY <1>2, CallStep DEF Returned
<1> QED
  BY <1>1, <1>2

(* HttpInv is inductive. *)
LEMMA HttpInitial == HttpInit => HttpInv
<1> SUFFICES ASSUME HttpInit PROVE HttpInv
  OBVIOUS
<1>1. until.pc = "idle"
  BY DEF HttpInit
<1>2. UntilInv
  BY <1>1 DEF UntilInv
<1> QED
  BY <1>2 DEF HttpInit, HttpInv

\* Every step of Do and of Until keeps HttpInv.
LEMMA HttpInductive == ASSUME HttpInv, [HttpNext \/ UntilNext]_httpVars PROVE HttpInv'
<1>1. CASE UNCHANGED httpVars
  <2>1. call' = call /\ second' = second /\ until' = until
    BY <1>1 DEF httpVars
  <2>2. (call = NoRequest \/ CallInv(call)) => (call' = NoRequest \/ CallInv(call'))
    BY <2>1
  <2>3. UntilInv'
    BY <2>1 DEF HttpInv, UntilInv
  <2> QED
    BY <2>1, <2>2, <2>3 DEF HttpInv
<1>2. CASE \E r \in RequestOptions, s \in Settings : Request(r, s)
  BY <1>2, RequestStep
<1>3. CASE \E code \in Codes : ServerAnswers(code)
  BY <1>3, AnswerStep
<1>4. CASE \E written, received \in BOOLEAN : Breaks(written, received)
  BY <1>4, BreaksStep, Zenon
<1> QED
  BY Zenon, <1>1, <1>2, <1>3, <1>4, ClientStep, WaitStep, FailsAloneStep, GivesUpStep, SleepStep, OtherStep, UntilStep,
     Zenon DEF HttpNext, DoStep

(* Success is reported only of a success, a request that must not be repeated *)
(* is not, and one that may be is given up only when beaten: OutcomeIsTrue    *)
(* for every set of requests, settings, codes and numbers of retries.         *)
THEOREM OutcomesAreTrue == HttpSpec => []OutcomeIsTrue
<1>1. HttpInv => OutcomeIsTrue
  <2>1. NoRequest.pc # "done"
    BY DEF NoRequest
  <2>2. Beaten <=> BeatenCall(call)
    BY DEF Beaten, BeatenCall
  <2>3. CallInv(call) => OutcomeIsTrue
    BY <2>2 DEF CallInv, TrueOutcome, OutcomeIsTrue
  <2>4. call = NoRequest => OutcomeIsTrue
    BY <2>1 DEF OutcomeIsTrue
  <2> QED
    BY <2>3, <2>4 DEF HttpInv
<1> QED
  BY <1>1, HttpInitial, HttpInductive, PTL DEF HttpSpec

(* No backoff of the client leaves its range and none panics but for the      *)
(* settings DelaysInRange names; no delay of Until leaves its range but for   *)
(* one whose double overflows: for every width of the integers.               *)
THEOREM DelaysStayInRange == HttpSpec => []DelaysInRange
<1>1. HttpInv => DelaysInRange
  <2>1. NoRequest.pc # "sleep" /\ NoRequest.pc # "panicked"
    BY DEF NoRequest
  <2>2. until.pc = "wait" /\ UntilInv => until.delay \in until.first .. until.max \/ 2 * until.max > MaxInt
    BY DEF UntilInv
  <2>3. CallInv(call) /\ UntilInv => DelaysInRange
    BY <2>2, Zenon DEF CallInv, PanicCause, DelaysInRange
  <2>4. call = NoRequest /\ UntilInv => DelaysInRange
    BY <2>1, <2>2, Zenon DEF DelaysInRange
  <2> QED
    BY <2>3, <2>4 DEF HttpInv
<1> QED
  BY <1>1, HttpInitial, HttpInductive, PTL DEF HttpSpec

-----------------------------------------------------------------------------
(* The recency list, the size bound and the promise of the TTL cache, for   *)
(* every set of keys, every bound and every time to live.                   *)

-----------------------------------------------------------------------------
(* The recency list *)

\* The empty list.
LEMMA EmptyList == <<>> \in Seq(Keys) /\ Distinct(<<>>) /\ \A k \in Keys : ~Holds(<<>>, k)
BY DEF Distinct, Holds

\* Unlinking a listed key removes that key and nothing else.
LEMMA UnlinkedProperties ==
  ASSUME NEW s \in Seq(Keys), Distinct(s), NEW k \in Keys, Holds(s, k)
  PROVE  /\ Unlinked(s, k) \in Seq(Keys)
         /\ Distinct(Unlinked(s, k))
         /\ \A x \in Keys : Holds(Unlinked(s, k), x) <=> x # k /\ Holds(s, x)
<1> DEFINE n == Len(s)
           p == Position(s, k)
           u == Unlinked(s, k)
<1>1. n \in Nat /\ \A i \in 1..n : s[i] \in Keys
  OBVIOUS
<1>2. p \in 1..n /\ s[p] = k
  BY DEF Position, Holds
<1>3. u = [i \in 1..(n - 1) |-> IF i < p THEN s[i] ELSE s[i + 1]]
  BY DEF Unlinked
<1> HIDE DEF p, u, n
<1>4. n - 1 \in Nat /\ \A i \in 1..(n - 1) : u[i] \in Keys
  BY <1>1, <1>2, <1>3
<1>5. u \in Seq(Keys) /\ Len(u) = n - 1
  BY <1>3, <1>4
<1>6. \A i \in 1..(n - 1) : u[i] = IF i < p THEN s[i] ELSE s[i + 1]
  BY <1>3
<1>7. Distinct(u)
  BY <1>1, <1>2, <1>5, <1>6 DEF Distinct, n
<1>8. ASSUME NEW x \in Keys
      PROVE  Holds(u, x) <=> x # k /\ Holds(s, x)
  <2>1. ASSUME Holds(u, x)
        PROVE  x # k /\ Holds(s, x)
    <3>1. PICK i \in 1..(n - 1) : u[i] = x
      BY <1>5, <2>1 DEF Holds
    <3>2. PICK j \in 1..n : j # p /\ s[j] = x
      BY SMTT(60), <1>1, <1>2, <1>6, <3>1
    <3> QED BY <1>2, <3>2 DEF Holds, Distinct, n
  <2>2. ASSUME x # k, Holds(s, x)
        PROVE  Holds(u, x)
    <3>1. PICK j \in 1..n : s[j] = x
      BY <2>2 DEF Holds, n
    <3>2. j # p
      BY <1>2, <2>2, <3>1
    <3>3. CASE j < p
      <4>1. j \in 1..(n - 1) /\ u[j] = x
        BY <1>1, <1>2, <1>6, <3>1, <3>3
      <4> QED BY <1>5, <4>1 DEF Holds
    <3>4. CASE j > p
      <4>1. j - 1 \in 1..(n - 1) /\ ~(j - 1 < p) /\ (j - 1) + 1 = j
        BY <1>1, <1>2, <3>4
      <4>2. u[j - 1] = x
        BY <1>6, <3>1, <4>1
      <4> QED BY <1>5, <4>1, <4>2 DEF Holds
    <3> QED BY <1>1, <1>2, <3>2, <3>3, <3>4
  <2> QED BY <2>1, <2>2
<1> QED BY <1>5, <1>7, <1>8 DEF u

\* Pushing a key that is not listed adds that key and nothing else.
LEMMA PushFrontProperties ==
  ASSUME NEW s \in Seq(Keys), Distinct(s), NEW k \in Keys, ~Holds(s, k)
  PROVE  /\ PushFront(s, k) \in Seq(Keys)
         /\ Distinct(PushFront(s, k))
         /\ \A x \in Keys : Holds(PushFront(s, k), x) <=> x = k \/ Holds(s, x)
<1> DEFINE t == PushFront(s, k)
<1>1. t \in Seq(Keys) /\ Len(t) = Len(s) + 1 /\ t[1] = k
  BY DEF PushFront
<1>2. \A i \in 1..Len(s) : t[i + 1] = s[i]
  BY DEF PushFront
<1>3. \A i \in 2..Len(t) : i - 1 \in 1..Len(s) /\ t[i] = s[i - 1]
  <2> HIDE DEF t
  <2> TAKE i \in 2..Len(t)
  <2>1. i - 1 \in 1..Len(s) /\ (i - 1) + 1 = i
    BY <1>1
  <2> QED BY <1>2, <2>1
<1> HIDE DEF t
<1>4. Distinct(t)
  <2> SUFFICES ASSUME NEW i \in 1..Len(t), NEW j \in 1..Len(t), t[i] = t[j]
               PROVE  i = j
    BY DEF Distinct
  <2>1. ASSUME NEW a \in 2..Len(t)
        PROVE  t[a] # k
    BY <1>3 DEF Holds
  <2>2. CASE i = 1 \/ j = 1
    BY <1>1, <2>1, <2>2
  <2>3. CASE i # 1 /\ j # 1
    <3>1. i \in 2..Len(t) /\ j \in 2..Len(t)
      BY <1>1, <2>3
    <3>2. i - 1 \in 1..Len(s) /\ j - 1 \in 1..Len(s) /\ s[i - 1] = s[j - 1]
      BY <1>3, <3>1
    <3>3. i - 1 = j - 1
      BY <3>2 DEF Distinct
    <3> QED BY <3>1, <3>3
  <2> QED BY <2>2, <2>3
<1>5. ASSUME NEW x \in Keys
      PROVE  Holds(t, x) <=> x = k \/ Holds(s, x)
  <2>1. ASSUME Holds(t, x), x # k
        PROVE  Holds(s, x)
    <3>1. PICK i \in 1..Len(t) : t[i] = x
      BY <2>1 DEF Holds
    <3>2. i \in 2..Len(t)
      BY <1>1, <2>1, <3>1
    <3> QED BY SMTT(60), <1>3, <3>1, <3>2 DEF Holds
  <2>2. x = k => Holds(t, x)
    BY <1>1 DEF Holds
  <2>3. Holds(s, x) => Holds(t, x)
    <3> SUFFICES ASSUME NEW i \in 1..Len(s), s[i] = x
                 PROVE  Holds(t, x)
      BY DEF Holds
    <3>1. i + 1 \in 1..Len(t) /\ t[i + 1] = x
      BY <1>1, <1>2
    <3> QED BY <3>1 DEF Holds
  <2> QED BY <2>1, <2>2, <2>3
<1> QED BY <1>1, <1>4, <1>5 DEF t

\* Moving a listed key to the front keeps the listed keys.
LEMMA MoveToFrontProperties ==
  ASSUME NEW s \in Seq(Keys), Distinct(s), NEW k \in Keys, Holds(s, k)
  PROVE  /\ MoveToFront(s, k) \in Seq(Keys)
         /\ Distinct(MoveToFront(s, k))
         /\ \A x \in Keys : Holds(MoveToFront(s, k), x) <=> Holds(s, x)
<1>1. /\ Unlinked(s, k) \in Seq(Keys) /\ Distinct(Unlinked(s, k))
      /\ \A x \in Keys : Holds(Unlinked(s, k), x) <=> x # k /\ Holds(s, x)
  BY UnlinkedProperties
<1>2. ~Holds(Unlinked(s, k), k)
  BY <1>1
<1>3. /\ MoveToFront(s, k) \in Seq(Keys) /\ Distinct(MoveToFront(s, k))
      /\ \A x \in Keys : Holds(MoveToFront(s, k), x) <=> x = k \/ Holds(Unlinked(s, k), x)
  BY <1>1, <1>2, PushFrontProperties DEF MoveToFront
<1> QED BY <1>1, <1>3

-----------------------------------------------------------------------------
(* The map and the list stay in step *)

\* A loop that holds the mutex visits keys that are still there.
VisitsPresent == mu # "free" => \A k \in todo : items[k] # None

Consistent == TypeOK /\ OrderMatchesItems /\ VisitsPresent

\* removeEntry drops the key from the map and from the list.
LEMMA RemoveEntryStep ==
  ASSUME Consistent, NEW k \in Keys, items[k] # None, removeEntry(k)
  PROVE  /\ items' \in [Keys -> Item \cup {None}]
         /\ order' \in Seq(Keys)
         /\ OrderMatchesItems'
<1>1. Holds(order, k) /\ Distinct(order) /\ order \in Seq(Keys)
  BY DEF Consistent, TypeOK, OrderMatchesItems
<1>2. /\ order' \in Seq(Keys) /\ Distinct(order')
      /\ \A x \in Keys : Holds(order', x) <=> x # k /\ Holds(order, x)
  BY <1>1, UnlinkedProperties DEF removeEntry
<1>3. /\ items' \in [Keys -> Item \cup {None}]
      /\ \A x \in Keys : items'[x] = IF x = k THEN None ELSE items[x]
  BY DEF removeEntry, Consistent, TypeOK
<1>4. \A x \in Keys : items'[x] # None <=> Holds(order', x)
  BY Zenon, <1>2, <1>3 DEF Consistent, OrderMatchesItems
<1> QED BY Zenon, <1>2, <1>3, <1>4 DEF OrderMatchesItems, Holds, Distinct

\* A hit or an overwrite moves a listed key to the front.
LEMMA MoveToFrontStep ==
  ASSUME Consistent, NEW k \in Keys, items[k] # None, order' = MoveToFront(order, k),
         \A x \in Keys : items'[x] # None <=> items[x] # None
  PROVE  order' \in Seq(Keys) /\ OrderMatchesItems'
<1>1. Holds(order, k) /\ Distinct(order) /\ order \in Seq(Keys)
  BY DEF Consistent, TypeOK, OrderMatchesItems
<1>2. /\ order' \in Seq(Keys) /\ Distinct(order')
      /\ \A x \in Keys : Holds(order', x) <=> Holds(order, x)
  BY <1>1, MoveToFrontProperties
<1> QED BY <1>2 DEF Consistent, OrderMatchesItems, Holds, Distinct

\* What the insertion of a new key evicts is another, listed key.
LEMMA OldestIsAnother ==
  ASSUME Consistent, NEW k \in Keys, items[k] = None,
         MaxEntries > 0, Cardinality(Cached \cup {k}) > MaxEntries
  PROVE  LET x == Oldest(PushFront(order, k))
         IN  x \in Keys \ {k} /\ items[x] # None /\ Holds(PushFront(order, k), x)
<1> DEFINE s == PushFront(order, k)
<1>1. order \in Seq(Keys)
  BY DEF Consistent, TypeOK
<1>2. Len(order) # 0
  <2> SUFFICES ASSUME Len(order) = 0 PROVE FALSE
    OBVIOUS
  <2>1. Cached = {}
    BY DEF Cached, Consistent, OrderMatchesItems, Holds
  <2>2. Cardinality(Cached \cup {k}) = 1
    BY Zenon, <2>1, FS_Singleton
  <2> QED BY <2>2, CacheAssumption
<1>3. Len(s) = Len(order) + 1 /\ Len(s) \in 1..Len(s)
  BY <1>1 DEF PushFront
<1>4. s[Len(s)] = order[Len(order)]
  BY <1>1, <1>2 DEF PushFront
<1>5. Len(order) \in 1..Len(order)
  BY <1>1, <1>2
<1>6. order[Len(order)] \in Keys /\ Holds(order, order[Len(order)])
  BY <1>1, <1>5 DEF Holds
<1>7. items[order[Len(order)]] # None
  BY <1>6 DEF Consistent, OrderMatchesItems
<1> QED BY <1>3, <1>4, <1>6, <1>7 DEF Oldest, Holds

\* The insertion of a new key, with or without eviction.
LEMMA InsertedStep ==
  ASSUME Consistent, NEW k \in Keys, items[k] = None, NEW item \in Item, Inserted(k, item)
  PROVE  /\ items' \in [Keys -> Item \cup {None}]
         /\ order' \in Seq(Keys)
         /\ OrderMatchesItems'
<1> DEFINE s == PushFront(order, k)
           m == [items EXCEPT ![k] = item]
<1>1. ~Holds(order, k) /\ Distinct(order) /\ order \in Seq(Keys)
  BY DEF Consistent, TypeOK, OrderMatchesItems
<1>2. /\ s \in Seq(Keys) /\ Distinct(s)
      /\ \A x \in Keys : Holds(s, x) <=> x = k \/ Holds(order, x)
  BY <1>1, PushFrontProperties
<1>3. /\ m \in [Keys -> Item \cup {None}]
      /\ \A x \in Keys : m[x] = IF x = k THEN item ELSE items[x]
  BY DEF Consistent, TypeOK
<1>4. item # None
  BY CacheAssumption DEF Item
<1>5. \A x \in Keys : m[x] # None <=> Holds(s, x)
  BY Zenon, <1>2, <1>3, <1>4 DEF Consistent, OrderMatchesItems
<1>6. CASE MaxEntries > 0 /\ Cardinality(Cached \cup {k}) > MaxEntries
  <2> DEFINE o == Oldest(s)
  <2>1. o \in Keys \ {k} /\ Holds(s, o)
    BY <1>6, OldestIsAnother
  <2>2. items' = [m EXCEPT ![o] = None] /\ order' = Unlinked(s, o)
    BY <1>6 DEF Inserted
  <2> HIDE DEF s, m, o
  <2>3. /\ order' \in Seq(Keys) /\ Distinct(order')
        /\ \A x \in Keys : Holds(order', x) <=> x # o /\ Holds(s, x)
    BY <1>2, <2>1, <2>2, UnlinkedProperties
  <2>4. /\ items' \in [Keys -> Item \cup {None}]
        /\ \A x \in Keys : items'[x] = IF x = o THEN None ELSE m[x]
    BY Zenon, <1>3, <2>2
  <2>5. \A x \in Keys : items'[x] # None <=> Holds(order', x)
    BY <1>5, <2>3, <2>4
  <2> QED BY Zenon, <2>3, <2>4, <2>5 DEF OrderMatchesItems, Holds, Distinct
<1>7. CASE ~(MaxEntries > 0 /\ Cardinality(Cached \cup {k}) > MaxEntries)
  <2>1. items' = m /\ order' = s
    BY <1>7 DEF Inserted
  <2> HIDE DEF s, m
  <2> QED BY <1>2, <1>3, <1>5, <2>1 DEF OrderMatchesItems, Holds, Distinct
<1> QED BY <1>6, <1>7

\* A new cache is consistent: nothing is stored and nothing is listed.
LEMMA InitConsistent == Init => Consistent
<1> SUFFICES ASSUME Init PROVE Consistent
  OBVIOUS
<1>1. order \in Seq(Keys) /\ Len(order) = 0
  BY DEF Init
<1>2. OrderMatchesItems
  BY <1>1 DEF Init, OrderMatchesItems, Holds, Distinct
<1>3. now \in 0..MaxTime
  BY CacheAssumption DEF Init
<1>4. items \in [Keys -> Item \cup {None}] /\ running \in BOOLEAN
  BY CacheAssumption DEF Init
<1> QED BY Zenon, <1>1, <1>2, <1>3, <1>4 DEF Init, Consistent, TypeOK, VisitsPresent

\* Touching a key keeps the type of the recency history.
LEMMA TouchedType ==
  ASSUME TypeOK, NEW k \in Keys
  PROVE  Touched(k) \subseteq Keys \X Keys
BY DEF Touched, TypeOK

\* Every operation, and every step of a loop, keeps map and list consistent.
LEMMA ConsistentStep == Consistent /\ [Next]_vars => Consistent'
<1> SUFFICES ASSUME Consistent, [Next]_vars PROVE Consistent'
  OBVIOUS
<1> USE DEF Consistent
<1>1. CASE UNCHANGED <<items, order>> /\ TypeOK' /\ VisitsPresent'
  BY <1>1 DEF OrderMatchesItems, Holds, Distinct
<1>2. ASSUME NEW k \in Keys, NEW v \in Values, NEW ttl \in TTLs, Set(k, v, ttl)
      PROVE  Consistent'
  <2> DEFINE item == [value |-> v, expiry |-> now + ttl]
  <2>1. item \in Item /\ item # None
    BY CacheAssumption DEF Item, TypeOK
  <2>2. CASE items[k] # None
    <3>1. items' = [items EXCEPT ![k] = item] /\ order' = MoveToFront(order, k)
      BY <1>2, <2>2 DEF Set
    <3> HIDE DEF item
    <3>2. items' \in [Keys -> Item \cup {None}]
      BY <2>1, <3>1 DEF TypeOK
    <3>3. \A x \in Keys : items'[x] # None <=> items[x] # None
      BY <2>1, <2>2, <3>1 DEF TypeOK
    <3>4. order' \in Seq(Keys) /\ OrderMatchesItems'
      BY Zenon, <2>2, <3>1, <3>3, MoveToFrontStep
    <3> QED BY Zenon, <1>2, <3>2, <3>4, TouchedType DEF Set, TypeOK, VisitsPresent
  <2>3. CASE items[k] = None
    <3>1. Inserted(k, item)
      BY <1>2, <2>3 DEF Set
    <3> HIDE DEF item
    <3>2. items' \in [Keys -> Item \cup {None}] /\ order' \in Seq(Keys) /\ OrderMatchesItems'
      BY <2>1, <2>3, <3>1, InsertedStep
    <3> QED BY <1>2, <3>2, TouchedType DEF Set, TypeOK, VisitsPresent
  <2> QED BY <2>2, <2>3
<1>3. ASSUME NEW k \in Keys, Get(k)
      PROVE  Consistent'
  <2>1. CASE items[k] = None
    BY SMTT(60), <1>1, <1>3, <2>1 DEF Get, TypeOK, VisitsPresent
  <2>2. CASE items[k] # None /\ isExpired(k)
    <3>1. removeEntry(k)
      BY ZenonT(60), <1>3, <2>2 DEF Get
    <3> QED BY Zenon, <1>3, <2>2, <3>1, RemoveEntryStep DEF Get, TypeOK, VisitsPresent
  <2>3. CASE items[k] # None /\ ~isExpired(k)
    <3>1. order' = MoveToFront(order, k) /\ newer' = Touched(k) /\ items' = items
      BY Zenon, <1>3, <2>3 DEF Get
    <3>2. order' \in Seq(Keys) /\ OrderMatchesItems'
      BY <2>3, <3>1, MoveToFrontStep
    <3> QED BY <1>3, <3>1, <3>2, TouchedType DEF Get, TypeOK, VisitsPresent
  <2> QED BY Zenon, <2>1, <2>2, <2>3
<1>4. ASSUME NEW k \in Keys, Remove(k) \/ Pop(k)
      PROVE  Consistent'
  <2>1. CASE items[k] = None
    BY Zenon, <1>1, <1>4, <2>1 DEF Remove, Pop, TypeOK, VisitsPresent
  <2>2. CASE items[k] # None
    <3>1. removeEntry(k)
      BY <1>4, <2>2 DEF Remove, Pop
    <3> QED BY Zenon, <1>4, <2>2, <3>1, RemoveEntryStep DEF Remove, Pop, TypeOK, VisitsPresent
  <2> QED BY <2>1, <2>2
<1>5. CASE Clear
  <2>1. order' = <<>> /\ \A k \in Keys : items'[k] = None
    BY <1>5, Zenon DEF Clear
  <2>2. OrderMatchesItems'
    BY <2>1, EmptyList, Zenon DEF OrderMatchesItems
  <2>3. order' \in Seq(Keys)
    BY <2>1, EmptyList, Zenon
  <2> QED BY <1>5, <2>2, <2>3 DEF Clear, TypeOK, VisitsPresent
<1>6. ASSUME NEW k \in Keys, KeysVisit(k) \/ SweepVisit(k)
      PROVE  Consistent'
  <2>1. items[k] # None /\ k \in todo /\ todo' = todo \ {k} /\ mu # "free"
    BY <1>6 DEF KeysVisit, SweepVisit, VisitsPresent
  <2>2. CASE UNCHANGED <<items, order>>
    BY Zenon, <1>1, <1>6, <2>1, <2>2 DEF KeysVisit, SweepVisit, TypeOK, VisitsPresent
  <2>3. CASE removeEntry(k)
    <3>1. \A x \in todo' : items'[x] # None
      BY SMTT(60), <2>1, <2>3 DEF removeEntry, VisitsPresent, TypeOK
    <3> QED BY <1>6, <2>1, <2>3, <3>1, RemoveEntryStep
            DEF KeysVisit, SweepVisit, TypeOK, VisitsPresent
  <2> QED BY <1>6, <2>2, <2>3 DEF KeysVisit, SweepVisit
<1>7. CASE KeysBegin \/ SweepBegin \/ Unlock \/ Close \/ CleanupStops
  BY Zenon, <1>1, <1>7 DEF KeysBegin, SweepBegin, Unlock, Close, CleanupStops, TypeOK, Cached, VisitsPresent
<1>8. CASE Tick
  <2>1. now' \in 0..MaxTime
    BY <1>8, CacheAssumption DEF Tick, TypeOK
  <2> QED BY <1>1, <1>8, <2>1 DEF Tick, TypeOK, VisitsPresent
<1>9. CASE UNCHANGED vars
  BY <1>1, <1>9 DEF vars, TypeOK, VisitsPresent
<1> QED BY Zenon, <1>2, <1>3, <1>4, <1>5, <1>6, <1>7, <1>8, <1>9 DEF Next, Loop

\* The list and the map of the cache always hold the same keys.
THEOREM ListMatchesMap == Spec => []OrderMatchesItems
<1>1. Init => Consistent
  BY InitConsistent
<1>2. Consistent /\ [Next]_vars => Consistent'
  BY ConsistentStep
<1>3. Consistent => OrderMatchesItems
  BY DEF Consistent
<1> QED BY <1>1, <1>2, <1>3, PTL DEF Spec

-----------------------------------------------------------------------------
(* The size bound *)

\* The cached keys can be counted, since the keys can.
LEMMA CachedFinite == IsFiniteSet(Cached) /\ Cardinality(Cached) \in Nat
<1>1. Cached \subseteq Keys
  BY DEF Cached
<1> QED BY Zenon, <1>1, CacheAssumption, FS_Subset, FS_CardinalityType

\* Whatever only removes keys keeps the bound.
LEMMA ShrinkKeepsBound ==
  ASSUME SizeBounded, Cached' \subseteq Cached
  PROVE  SizeBounded'
<1>1. IsFiniteSet(Cached) /\ Cardinality(Cached) \in Nat
  BY CachedFinite
<1>2. Cardinality(Cached') <= Cardinality(Cached) /\ Cardinality(Cached') \in Nat
  BY <1>1, FS_Subset, FS_CardinalityType
<1> QED BY <1>1, <1>2, CacheAssumption DEF SizeBounded

\* An insertion that would exceed the bound evicts a key.
LEMMA InsertKeepsBound ==
  ASSUME Consistent, SizeBounded, NEW k \in Keys, items[k] = None, NEW item \in Item,
         Inserted(k, item)
  PROVE  SizeBounded'
<1> DEFINE s == PushFront(order, k)
           m == [items EXCEPT ![k] = item]
           o == Oldest(s)
<1>1. IsFiniteSet(Cached) /\ Cardinality(Cached) \in Nat
  BY CachedFinite
<1>2. k \notin Cached
  BY DEF Cached
<1>3. Cardinality(Cached \cup {k}) = Cardinality(Cached) + 1 /\ IsFiniteSet(Cached \cup {k})
  BY <1>1, <1>2, FS_AddElement
<1>4. \A x \in Keys : m[x] = IF x = k THEN item ELSE items[x]
  BY DEF Consistent, TypeOK
<1>5. item # None
  BY CacheAssumption DEF Item
<1>6. CASE MaxEntries > 0 /\ Cardinality(Cached \cup {k}) > MaxEntries
  <2>1. o \in Keys \ {k} /\ items[o] # None
    BY <1>6, OldestIsAnother
  <2>2. items' = [m EXCEPT ![o] = None]
    BY <1>6 DEF Inserted
  <2>3. \A x \in Keys : items'[x] = IF x = o THEN None ELSE m[x]
    <3> HIDE DEF o
    <3> QED BY <2>1, <2>2 DEF Consistent, TypeOK
  <2> HIDE DEF s, m, o
  <2>4. Cached' = (Cached \cup {k}) \ {o}
    BY <1>4, <1>5, <2>1, <2>3 DEF Cached
  <2>5. o \in Cached \cup {k}
    BY <2>1 DEF Cached
  <2>6. Cardinality(Cached') = Cardinality(Cached)
    <3>1. Cardinality((Cached \cup {k}) \ {o}) =
            IF o \in Cached \cup {k} THEN Cardinality(Cached \cup {k}) - 1
            ELSE Cardinality(Cached \cup {k})
      BY <1>3, FS_RemoveElement, Zenon
    <3>2. Cardinality(Cached') = Cardinality(Cached \cup {k}) - 1
      BY <3>1, <2>4, <2>5, Zenon
    <3> QED BY <3>2, <1>1, <1>3
  <2> QED BY <2>6 DEF SizeBounded
<1>7. CASE ~(MaxEntries > 0 /\ Cardinality(Cached \cup {k}) > MaxEntries)
  <2>1. items' = m
    BY <1>7 DEF Inserted
  <2> HIDE DEF m
  <2>2. Cached' = Cached \cup {k}
    BY Zenon, <1>4, <1>5, <2>1 DEF Cached
  <2> QED BY <1>1, <1>3, <1>7, <2>2, CacheAssumption DEF SizeBounded
<1> QED BY <1>6, <1>7

\* No operation makes the cache larger than its bound.
LEMMA BoundStep == Consistent /\ SizeBounded /\ [Next]_vars => SizeBounded'
<1> SUFFICES ASSUME Consistent, SizeBounded, [Next]_vars PROVE SizeBounded'
  OBVIOUS
<1>1. CASE Cached' \subseteq Cached
  BY <1>1, ShrinkKeepsBound
<1>2. ASSUME NEW k \in Keys, NEW v \in Values, NEW ttl \in TTLs, Set(k, v, ttl)
      PROVE  SizeBounded'
  <2> DEFINE item == [value |-> v, expiry |-> now + ttl]
  <2>1. CASE items[k] # None
    <3>1. items' = [items EXCEPT ![k] = item]
      BY <1>2, <2>1 DEF Set
    <3>2. Cached' \subseteq Cached
      BY <2>1, <3>1 DEF Cached, Consistent, TypeOK
    <3> QED BY <1>1, <3>2
  <2>2. CASE items[k] = None
    <3>1. item \in Item
      BY CacheAssumption DEF Item, Consistent, TypeOK
    <3>2. Inserted(k, item)
      BY <1>2, <2>2 DEF Set
    <3> QED BY Zenon, <2>2, <3>1, <3>2, InsertKeepsBound
  <2> QED BY <2>1, <2>2
<1>3. CASE \A x \in Keys : items'[x] = items[x] \/ items'[x] = None
  BY <1>1, <1>3 DEF Cached
<1>4. CASE \E k \in Keys : Get(k) \/ Remove(k) \/ Pop(k) \/ KeysVisit(k) \/ SweepVisit(k)
  BY Zenon, <1>3, <1>4 DEF Get, Remove, Pop, KeysVisit, SweepVisit, removeEntry, Consistent, TypeOK
<1>5. CASE Clear
  BY <1>3, <1>5 DEF Clear
<1>6. CASE UNCHANGED items
  BY <1>3, <1>6
<1>7. CASE KeysBegin \/ SweepBegin \/ Unlock \/ Close \/ CleanupStops \/ Tick \/ UNCHANGED vars
  BY <1>6, <1>7 DEF KeysBegin, SweepBegin, Unlock, Close, CleanupStops, Tick, vars
<1> QED BY <1>2, <1>4, <1>5, <1>7 DEF Next, Loop

\* The cache never outgrows WithMaxEntries.
THEOREM SizeIsBounded == Spec => []SizeBounded
<1>1. Init => Consistent /\ SizeBounded
  <2> SUFFICES ASSUME Init PROVE SizeBounded
    BY InitConsistent
  <2>1. Cached = {}
    BY DEF Init, Cached
  <2> QED BY <2>1, FS_EmptySet, CacheAssumption DEF SizeBounded
<1>2. Consistent /\ SizeBounded /\ [Next]_vars => (Consistent /\ SizeBounded)'
  BY ConsistentStep, BoundStep
<1> QED BY <1>1, <1>2, PTL DEF Spec

-----------------------------------------------------------------------------
(* The cache is the map it promises to be *)

\* Removing one present key is what the abstract map calls forgetting it.
LEMMA RemoveIsForget ==
  ASSUME TypeOK, NEW k \in Keys, removeEntry(k)
  PROVE  items' = Promise!Forget({k})
BY Zenon DEF removeEntry, TypeOK, Promise!Forget

\* A Set that overwrites, inserts or evicts stores the key and may push another out.
LEMMA SetIsPut ==
  ASSUME Consistent, NEW k \in Keys, NEW v \in Values, NEW ttl \in TTLs, Set(k, v, ttl)
  PROVE  Promise!Put(k, v, ttl)
<1> DEFINE item == [value |-> v, expiry |-> now + ttl]
           m == [items EXCEPT ![k] = item]
           s == PushFront(order, k)
           o == Oldest(s)
<1>1. items = Promise!Forget({})
  BY DEF Consistent, TypeOK, Promise!Forget
<1>2. reply' = None /\ now' = now
  BY DEF Set
<1>3. CASE items' = m
  <2>1. items' = [Promise!Forget({}) EXCEPT ![k] = item]
    BY <1>1, <1>3
  <2> QED BY <1>2, <2>1 DEF Promise!Put
<1>4. CASE items' # m
  <2>1. items[k] = None /\ Inserted(k, item)
    BY <1>4 DEF Set
  <2>2. MaxEntries > 0 /\ Cardinality(Cached \cup {k}) > MaxEntries
    BY <1>4, <2>1 DEF Inserted
  <2>3. o \in Keys \ {k}
    BY Zenon, <2>1, <2>2, OldestIsAnother
  <2>4. items' = [m EXCEPT ![o] = None]
    BY <2>1, <2>2 DEF Inserted
  <2> HIDE DEF item, o
  <2>5. [m EXCEPT ![o] = None] = [Promise!Forget({o}) EXCEPT ![k] = item]
    BY Zenon, <2>3 DEF Consistent, TypeOK, Promise!Forget
  <2>6. {o} \in SUBSET (Keys \ {k})
    BY <2>3
  <2> QED BY Zenon, <1>2, <2>4, <2>5, <2>6 DEF Promise!Put, item
<1> QED BY <1>3, <1>4

\* A Get or a Pop is a lookup.
LEMMA GetIsLookup ==
  ASSUME Consistent, NEW k \in Keys, Get(k) \/ Pop(k)
  PROVE  Promise!Lookup(k)
<1>1. items[k] \in Item \cup {None} /\ now \in Int
  BY DEF Consistent, TypeOK
<1>2. items' \in {items, Promise!Forget({k})} /\ now' = now
  BY Zenon, RemoveIsForget DEF Get, Pop, Consistent
<1>3. CASE items[k] = None
  <2>1. reply' = Result(k, None, FALSE)
    BY Zenon, <1>3 DEF Get, Pop
  <2> QED BY Zenon, <1>2, <1>3, <2>1 DEF Promise!Lookup, Promise!Fresh, Result
<1>4. CASE items[k] # None
  <2>1. items[k].value \in Values /\ items[k].expiry \in Int
    BY <1>1, <1>4 DEF Item
  <2>2. reply' = Result(k, items[k].value, ~isExpired(k))
    BY Zenon, <1>4 DEF Get, Pop, Result, isExpired
  <2>3. Promise!Fresh(k) <=> ~isExpired(k)
    BY <1>1, <1>4, <2>1 DEF Promise!Fresh, isExpired
  <2>4. CASE isExpired(k)
    <3>1. reply' = [key |-> k, value |-> items[k].value, ok |-> FALSE]
      BY Zenon, <2>2, <2>4 DEF Result
    <3> QED BY Zenon, <1>2, <2>1, <2>3, <2>4, <3>1 DEF Promise!Lookup
  <2>5. CASE ~isExpired(k)
    <3>1. reply' = [key |-> k, value |-> items[k].value, ok |-> TRUE]
      BY Zenon, <2>2, <2>5 DEF Result
    <3> QED BY Zenon, <1>2, <2>3, <2>5, <3>1 DEF Promise!Lookup
  <2> QED BY <2>4, <2>5
<1> QED BY <1>3, <1>4

\* Every step of the cache is a step of the abstract map, or leaves it unchanged.
LEMMA PromiseStep == Consistent /\ [Next]_vars => [Promise!Next]_(Promise!vars)
<1> SUFFICES ASSUME Consistent, [Next]_vars PROVE [Promise!Next]_(Promise!vars)
  OBVIOUS
<1> USE DEF Promise!vars
<1>1. CASE \E k \in Keys, v \in Values, ttl \in TTLs : Set(k, v, ttl)
  BY <1>1, SetIsPut DEF Promise!Next
<1>2. CASE \E k \in Keys : Get(k) \/ Pop(k)
  BY <1>2, GetIsLookup DEF Promise!Next
<1>3. ASSUME NEW k \in Keys, Remove(k)
      PROVE  Promise!Next
  <2>1. CASE items[k] # None
    <3>1. Promise!Drop({k})
      BY <1>3, <2>1, RemoveIsForget DEF Remove, Consistent, Promise!Drop
    <3> QED BY <3>1 DEF Promise!Next
  <2>2. CASE items[k] = None
    <3>1. items = Promise!Forget({})
      BY DEF Consistent, TypeOK, Promise!Forget
    <3>2. Promise!Drop({})
      BY <1>3, <2>2, <3>1 DEF Remove, Promise!Drop
    <3> QED BY <3>2 DEF Promise!Next
  <2> QED BY <2>1, <2>2
<1>4. CASE Clear
  <2>1. Promise!Forget(Keys) = [k \in Keys |-> None]
    BY DEF Promise!Forget
  <2>2. Promise!Drop(Keys)
    BY Zenon, <1>4, <2>1 DEF Clear, Promise!Drop
  <2> QED BY <2>2 DEF Promise!Next
<1>5. ASSUME NEW k \in Keys, KeysVisit(k) \/ SweepVisit(k)
      PROVE  [Promise!Next]_(Promise!vars)
  <2>1. CASE UNCHANGED <<items, now, reply>>
    BY <2>1
  <2>2. CASE removeEntry(k) /\ reply' = None /\ now' = now
    <3>1. Promise!Drop({k})
      BY Zenon, <2>2, RemoveIsForget DEF Consistent, Promise!Drop
    <3> QED BY <3>1 DEF Promise!Next
  <2> QED BY <1>5, <2>1, <2>2 DEF KeysVisit, SweepVisit
<1>6. CASE KeysBegin \/ SweepBegin \/ Unlock \/ Close \/ CleanupStops \/ UNCHANGED vars
  BY <1>6 DEF KeysBegin, SweepBegin, Unlock, Close, CleanupStops, vars
<1>7. CASE Tick
  BY <1>7 DEF Tick, Promise!Tick, Promise!Next
<1> QED BY Zenon, <1>1, <1>2, <1>3, <1>4, <1>5, <1>6, <1>7 DEF Next, Loop

\* The cache implements the map that its users rely on: a hit is the last value
\* stored under the key, within its ttl and not removed since.
THEOREM CacheKeepsPromise == Spec => RefinesExpiringMap
<1>1. Init => Consistent /\ Promise!Init
  BY InitConsistent DEF Init, Promise!Init
<1>2. Consistent /\ [Next]_vars => Consistent'
  BY ConsistentStep
<1>3. Consistent /\ [Next]_vars => [Promise!Next]_(Promise!vars)
  BY Zenon, PromiseStep
<1> QED BY <1>1, <1>2, <1>3, PTL DEF Spec, RefinesExpiringMap, Promise!Spec

-----------------------------------------------------------------------------
(* The list is in the order of use *)

Ordered(s, r) == \A i, j \in 1..Len(s) : i < j => <<s[i], s[j]>> \in r
UseOrdered == Ordered(order, newer)

\* Unlinking a key leaves the others in their order.
LEMMA UnlinkedOrdered ==
  ASSUME NEW s \in Seq(Keys), NEW k \in Keys, Holds(s, k), NEW r, Ordered(s, r)
  PROVE  Ordered(Unlinked(s, k), r)
<1> DEFINE n == Len(s)
           p == Position(s, k)
           u == Unlinked(s, k)
<1>1. n \in Nat
  OBVIOUS
<1>2. p \in 1..n
  BY DEF Position, Holds
<1>3. u = [i \in 1..(n - 1) |-> IF i < p THEN s[i] ELSE s[i + 1]]
  BY DEF Unlinked
<1> HIDE DEF p, u, n
<1>4. n - 1 \in Nat /\ Len(u) = n - 1
  BY <1>1, <1>2, <1>3
<1>5. \A i \in 1..(n - 1) : u[i] = s[IF i < p THEN i ELSE i + 1]
  BY Zenon, <1>3
<1>6. ASSUME NEW i \in 1..(n - 1), NEW j \in 1..(n - 1), i < j PROVE <<u[i], u[j]>> \in r
  <2> DEFINE a == IF i < p THEN i ELSE i + 1
             b == IF j < p THEN j ELSE j + 1
  <2>1. a \in 1..n /\ b \in 1..n /\ a < b
    BY <1>1, <1>2, <1>6
  <2>2. u[i] = s[a] /\ u[j] = s[b]
    BY Zenon, <1>5
  <2> HIDE DEF a, b
  <2> QED BY <2>1, <2>2 DEF Ordered, n
<1> QED BY <1>4, <1>6 DEF Ordered, u

\* The key that is pushed in front is the one that is used.
LEMMA PushFrontOrdered ==
  ASSUME NEW s \in Seq(Keys), NEW k \in Keys, ~Holds(s, k), Ordered(s, newer)
  PROVE  Ordered(PushFront(s, k), Touched(k))
<1> DEFINE t == PushFront(s, k)
           n == Len(s)
<1>1. n \in Nat /\ Len(t) = n + 1 /\ t[1] = k /\ \A i \in 1..n : t[i + 1] = s[i] /\ s[i] \in Keys \ {k}
  BY DEF PushFront, Holds
<1>2. ASSUME NEW i \in 1..(n + 1), NEW j \in 1..(n + 1), i < j PROVE <<t[i], t[j]>> \in Touched(k)
  <2> HIDE DEF t, n
  <2> DEFINE b == j - 1
             a == i - 1
  <2>1. b \in 1..n /\ b + 1 = j /\ a \in 0..n /\ a + 1 = i /\ a < b
    BY <1>1, <1>2
  <2>2. t[j] = s[b] /\ s[b] \in Keys \ {k}
    BY Zenon, <1>1, <2>1
  <2>3. CASE i = 1
    BY Zenon, <1>1, <2>2, <2>3 DEF Touched
  <2>4. CASE i # 1
    <3>1. a \in 1..n /\ t[i] = s[a]
      BY <1>1, <2>1, <2>4
    <3> HIDE DEF a, b
    <3>2. <<s[a], s[b]>> \in newer
      BY <2>1, <3>1 DEF Ordered, n
    <3> QED BY Zenon, <2>2, <3>1, <3>2 DEF Touched
  <2> QED BY <2>3, <2>4
<1> QED BY Zenon, <1>1, <1>2 DEF Ordered

\* A hit or an overwrite makes the key the most recently used one.
LEMMA MoveToFrontOrdered ==
  ASSUME Consistent, UseOrdered, NEW k \in Keys, items[k] # None
  PROVE  Ordered(MoveToFront(order, k), Touched(k))
<1>1. order \in Seq(Keys) /\ Distinct(order) /\ Holds(order, k)
  BY DEF Consistent, TypeOK, OrderMatchesItems
<1>2. Ordered(Unlinked(order, k), newer) /\ Unlinked(order, k) \in Seq(Keys) /\ ~Holds(Unlinked(order, k), k)
  BY <1>1, UnlinkedOrdered, UnlinkedProperties DEF UseOrdered
<1> QED BY <1>2, PushFrontOrdered DEF MoveToFront

\* An insertion puts the key in front of the others.
LEMMA InsertedOrdered ==
  ASSUME Consistent, UseOrdered, NEW k \in Keys, items[k] = None
  PROVE  /\ PushFront(order, k) \in Seq(Keys)
         /\ \A x \in Keys : Holds(PushFront(order, k), x) <=> x = k \/ Holds(order, x)
         /\ Ordered(PushFront(order, k), Touched(k))
<1>1. order \in Seq(Keys) /\ Distinct(order) /\ ~Holds(order, k)
  BY Zenon DEF Consistent, TypeOK, OrderMatchesItems
<1> QED BY <1>1, PushFrontProperties, PushFrontOrdered DEF UseOrdered

\* Removing an entry keeps the order of the others.
LEMMA RemoveOrdered ==
  ASSUME Consistent, UseOrdered, NEW k \in Keys, items[k] # None, removeEntry(k), newer' = newer
  PROVE  UseOrdered'
<1>1. order \in Seq(Keys) /\ Holds(order, k)
  BY DEF Consistent, TypeOK, OrderMatchesItems
<1>2. Ordered(Unlinked(order, k), newer)
  BY <1>1, UnlinkedOrdered DEF UseOrdered
<1> QED BY <1>2 DEF removeEntry, UseOrdered, Ordered

\* Every operation keeps the list in the order of use.
LEMMA UseOrderedStep == Consistent /\ UseOrdered /\ [Next]_vars => UseOrdered'
<1> SUFFICES ASSUME Consistent, UseOrdered, [Next]_vars PROVE UseOrdered'
  OBVIOUS
<1>1. ASSUME UNCHANGED <<order, newer>> PROVE UseOrdered'
  BY <1>1 DEF UseOrdered, Ordered
<1>2. ASSUME NEW s, NEW k \in Keys, Ordered(s, Touched(k)), order' = s, newer' = Touched(k) PROVE UseOrdered'
  BY <1>2 DEF UseOrdered, Ordered
<1>3. ASSUME NEW k \in Keys, NEW v \in Values, NEW ttl \in TTLs, Set(k, v, ttl) PROVE UseOrdered'
  <2> DEFINE s == PushFront(order, k)
             o == Oldest(s)
             item == [value |-> v, expiry |-> now + ttl]
  <2>1. newer' = Touched(k)
    BY <1>3 DEF Set
  <2>2. CASE items[k] # None
    BY Zenon, <1>2, <1>3, <2>1, <2>2, MoveToFrontOrdered DEF Set
  <2>3. CASE items[k] = None
    <3>1. s \in Seq(Keys) /\ Ordered(s, Touched(k))
      BY <2>3, InsertedOrdered
    <3>2. Inserted(k, item)
      BY <1>3, <2>3 DEF Set
    <3>3. CASE MaxEntries > 0 /\ Cardinality(Cached \cup {k}) > MaxEntries
      <4>1. order' = Unlinked(s, o) /\ o \in Keys /\ Holds(s, o)
        BY Zenon, <2>3, <3>2, <3>3, OldestIsAnother DEF Inserted
      <4> HIDE DEF s, o
      <4> QED BY Zenon, <1>2, <2>1, <3>1, <4>1, UnlinkedOrdered
    <3>4. CASE ~(MaxEntries > 0 /\ Cardinality(Cached \cup {k}) > MaxEntries)
      BY Zenon, <1>2, <2>1, <3>1, <3>2, <3>4 DEF Inserted
    <3> QED BY <3>3, <3>4
  <2> QED BY <2>2, <2>3
<1>4. ASSUME NEW k \in Keys, Get(k) PROVE UseOrdered'
  <2>1. CASE items[k] = None
    BY Zenon, <1>1, <1>4, <2>1 DEF Get
  <2>2. CASE items[k] # None /\ isExpired(k)
    <3>1. removeEntry(k) /\ newer' = newer
      BY ZenonT(60), <1>4, <2>2 DEF Get
    <3> QED BY <2>2, <3>1, RemoveOrdered
  <2>3. CASE items[k] # None /\ ~isExpired(k)
    <3>1. order' = MoveToFront(order, k) /\ newer' = Touched(k)
      BY Zenon, <1>4, <2>3 DEF Get
    <3> QED BY <1>2, <2>3, <3>1, MoveToFrontOrdered
  <2> QED BY <2>1, <2>2, <2>3
<1>5. ASSUME NEW k \in Keys, Remove(k) \/ Pop(k) PROVE UseOrdered'
  BY Zenon, <1>1, <1>5, RemoveOrdered DEF Remove, Pop
<1>6. ASSUME NEW k \in Keys, KeysVisit(k) \/ SweepVisit(k) PROVE UseOrdered'
  <2>1. items[k] # None /\ newer' = newer
    BY <1>6 DEF KeysVisit, SweepVisit, Consistent, VisitsPresent
  <2> QED BY Zenon, <1>1, <1>6, <2>1, RemoveOrdered DEF KeysVisit, SweepVisit
<1>7. CASE Clear
  <2>1. Len(order') = 0
    BY Zenon, <1>7 DEF Clear
  <2> QED BY <2>1 DEF UseOrdered, Ordered
<1>8. CASE KeysBegin \/ SweepBegin \/ Unlock \/ Close \/ CleanupStops \/ Tick \/ UNCHANGED vars
  BY Zenon, <1>1, <1>8 DEF KeysBegin, SweepBegin, Unlock, Close, CleanupStops, Tick, vars
<1> QED BY Zenon, <1>3, <1>4, <1>5, <1>6, <1>7, <1>8 DEF Next, Loop

\* What a Set drops is the last key of the list.
LEMMA EvictionStep == Consistent /\ UseOrdered => EvictedIsOldest
<1> SUFFICES ASSUME Consistent, UseOrdered, NEW k \in Keys, NEW v \in Values, NEW ttl \in TTLs, Set(k, v, ttl),
                    NEW gone \in Keys, NEW kept \in Keys,
                    items[gone] # None, items'[gone] = None, items'[kept] # None
             PROVE  <<kept, gone>> \in newer'
  BY Zenon DEF EvictedIsOldest
<1> DEFINE item == [value |-> v, expiry |-> now + ttl]
           m == [items EXCEPT ![k] = item]
           s == PushFront(order, k)
           o == Oldest(s)
<1>1. item # None /\ newer' = Touched(k)
  <2>1. newer' = Touched(k)
    BY Zenon DEF Set
  <2>2. item # None
    BY CacheAssumption DEF Consistent, TypeOK, Item
  <2> QED BY <2>1, <2>2, Zenon
<1>2. m \in [Keys -> {item} \cup Item \cup {None}] /\ \A x \in Keys : m[x] = IF x = k THEN item ELSE items[x]
  BY DEF Consistent, TypeOK
<1>3. items' # m
  BY Zenon, <1>1, <1>2
<1>4. items[k] = None /\ Inserted(k, item)
  BY Zenon, <1>3 DEF Set
<1>5. MaxEntries > 0 /\ Cardinality(Cached \cup {k}) > MaxEntries /\ items' = [m EXCEPT ![o] = None]
  BY <1>3, <1>4 DEF Inserted
<1>6. o \in Keys \ {k}
  BY Zenon, <1>4, <1>5, OldestIsAnother
<1>7. gone = o /\ kept # o /\ m[kept] # None
  <2> HIDE DEF item, m, o
  <2> QED BY Zenon, <1>1, <1>2, <1>5, <1>6
<1>8. /\ s \in Seq(Keys) /\ Ordered(s, Touched(k))
      /\ \A x \in Keys : Holds(s, x) <=> x = k \/ Holds(order, x)
  BY Zenon, <1>4, InsertedOrdered
<1>9. Holds(s, kept)
  BY Zenon, <1>2, <1>7, <1>8 DEF Consistent, OrderMatchesItems
<1> HIDE DEF s
<1>10. PICK i \in 1..Len(s) : s[i] = kept
  BY Zenon, <1>9 DEF Holds
<1>11. i < Len(s) /\ Len(s) \in 1..Len(s) /\ s[Len(s)] = gone
  BY <1>7, <1>8, <1>10 DEF Oldest
<1> QED BY Zenon, <1>1, <1>8, <1>10, <1>11 DEF Ordered

\* A key that Set evicts was used before every key that stays, whatever the size
\* and whatever was read, expired, removed or swept in between.
THEOREM OldestIsEvicted == Spec => EvictsLeastRecentlyUsed
<1>1. Init => Consistent /\ UseOrdered
  <2>1. Init => Len(order) = 0
    BY DEF Init
  <2> QED BY <2>1, InitConsistent DEF UseOrdered, Ordered
<1>2. Consistent /\ UseOrdered /\ [Next]_vars => (Consistent /\ UseOrdered)'
  BY ConsistentStep, UseOrderedStep
<1>3. Consistent /\ UseOrdered /\ [Next]_vars => [EvictedIsOldest]_vars
  BY EvictionStep
<1> QED BY <1>1, <1>2, <1>3, PTL DEF Spec, EvictsLeastRecentlyUsed
=============================================================================
