----------------------------- MODULE HTTPRequest -----------------------------
(* request.Do: one call of an endpoint, through the client that is built for *)
(* it and a RetryClient of its own; and the polling loop wait.Until.         *)
(*                                                                           *)
(* A request has a verb ("" when the caller sets none), a body or not, and   *)
(* headers: proper ones, or one without a colon. An endpoint has any of the   *)
(* three kinds of credentials, perhaps a flaw (a URL, or a proxy or a client *)
(* certificate, that cannot be read), and a client certificate and a CA or   *)
(* not. Durations are integers of a small width.                             *)
EXTENDS Integers, FiniteSets, Bits

CONSTANTS
  RequestOptions, \* [verb, body, headers, auth, flaw, cert, ca]
  Settings,      \* [retries, base, max]: what the CLIENT_ variables configure
  Codes,         \* the status codes servers answer with
  RetryAfters,   \* the delays they ask for, past dates included
  MaxInt,        \* the largest duration
  MaxSeconds     \* bound on the wall clock

ASSUME WidthAssumption == MaxInt \in Nat /\ \E w \in 1 .. 64 : MaxInt + 1 = 2 ^ w
ASSUME HttpAssumption ==
  /\ \A r \in RequestOptions : {r.body, r.cert, r.ca} \subseteq BOOLEAN
  /\ Settings \subseteq [retries : Int, base : Int, max : Int]
  /\ Codes \subseteq Nat \ {0} /\ RetryAfters \subseteq Int

VARIABLES
  call,          \* the call of Do
  second,        \* wall clock, in seconds
  until          \* the call of UntilWithOptions

httpVars == <<call, second, until>>

-----------------------------------------------------------------------------
(* Delays *)

Wrap(n) == ((n + MaxInt + 1) % (2 * (MaxInt + 1))) - (MaxInt + 1)
Half(n) == IF n < 0 THEN -((-n) \div 2) ELSE n \div 2

\* The delays backoff may return; none when rand.Int63n panics.
UncappedBackoff(attempt, base, max) ==
  LET d == Wrap(base * Shift[attempt]) IN {Half(d) + jitter : jitter \in 0 .. Half(d) - 1}
backoff(attempt, base, max) ==
  LET doubled == Wrap(base * Shift[attempt])
      d == IF doubled > max THEN max ELSE doubled
  IN {Half(d) + jitter : jitter \in 0 .. Half(d) - 1}

\* Seconds, or until a date, which may be past; two seconds if there is neither.
parseRetryAfter == RetryAfters \cup {2}

-----------------------------------------------------------------------------
(* The result *)

FailureCodes == {400, 401, 403, 404, 405, 406, 409, 410, 413, 415, 422, 500, 501, 503}
NewResponse(code) == [code |-> code, status |-> IF code \in FailureCodes THEN "Failure" ELSE "Success"]
Succeeded(code) == code \in 200 .. 299

NoRequest == [pc |-> "idle"]
Done(c, code) == [c EXCEPT !.pc = "done", !.result = NewResponse(code)]
Panics(c) == [c EXCEPT !.pc = "panicked"]

\* What Do makes of an answer: the body of an error is passed on if it is
\* JSON, whether or not it is a Status.
Results(code) ==
  IF Succeeded(code) THEN {NewResponse(406), NewResponse(500), NewResponse(200), NewResponse(204)}
  ELSE {NewResponse(code), NewResponse(500), [code |-> code, status |-> "Failure"], [code |-> 0, status |-> ""]}
WithResult(c, code, r) == [c EXCEPT !.pc = "done", !.code = code, !.result = r]
WithResults(c, code) == {WithResult(c, code, r) : r \in Results(code)}

-----------------------------------------------------------------------------
(* The client *)

isIdempotentMethod(verb) == verb \in {"", "GET", "HEAD", "OPTIONS", "PUT", "DELETE"}
Aws(r) == "aws" \in r.auth

\* A pool of CAs that stays empty trusts no server.
tlsConfigFor(r) == [fails |-> r.flaw = "endpoint", trusts |-> ~r.cert \/ r.ca]

HttpInit ==
  /\ call = NoRequest /\ second = 0
  /\ until = [pc |-> "idle"]

ClockTicks == second < MaxSeconds /\ second' = second + 1 /\ UNCHANGED <<call, until>>

\* The headers are made, and for AWS dated; each must have a colon then.
ComputeAwsHeaders(c) ==
  IF c.req.headers = "bare" THEN Panics(c) ELSE [c EXCEPT !.dated = second]
Request(r, s) ==
  LET c == [pc |-> "client", req |-> r, set |-> s, attempt |-> 0, unread |-> TRUE, code |-> 0,
            faults |-> 0, received |-> 0, delay |-> 0, dated |-> 0, signed |-> 0,
            ended |-> FALSE, result |-> NewResponse(200)]
  IN /\ call.pc = "idle"
     /\ call' = IF r.flaw = "url" THEN Done(c, 500)
                ELSE IF Aws(r) THEN ComputeAwsHeaders(c) ELSE c
     /\ UNCHANGED <<second, until>>

\* The signature is made from the time of its own making, and the verb the
\* caller has set.
ComputeAwsSignature(c) == IF c.req.verb = "" THEN Panics(c) ELSE [c EXCEPT !.signed = second]
HTTPClientForEndpoint ==
  LET c == [call EXCEPT !.pc = "limit"]
  IN /\ call.pc = "client"
     /\ call' = IF tlsConfigFor(call.req).fails \/ Cardinality(call.req.auth) > 1 THEN Done(call, 500)
                ELSE IF Aws(call.req) THEN ComputeAwsSignature(c) ELSE c
     /\ UNCHANGED <<second, until>>

\* The rate limiter refuses when the context has ended, or would before a
\* token is free; without an attempt the response is nil.
Wait ==
  /\ call.pc = "limit"
  /\ call' \in {IF isIdempotentMethod(call.req.verb) /\ call.set.retries < 0 THEN Panics(call)
                ELSE [call EXCEPT !.pc = "send"], Done([call EXCEPT !.ended = TRUE], 500)}
  /\ UNCHANGED <<second, until>>

Retries(code) == code >= 500 \/ code = 429

Sleeps(c, d) == [c EXCEPT !.pc = "sleep", !.delay = d]

\* After an attempt: code is the answer, or 0 for a network error.
AgainButLast(c, delays) ==
  IF c.attempt + 1 >= c.set.retries THEN {Done(c, 500)}
  ELSE IF delays = {} THEN {Panics(c)}
  ELSE {Sleeps(c, d) : d \in delays}
Again(c, delays) ==
  IF c.attempt >= c.set.retries THEN {Done(c, 500)}
  ELSE IF delays = {} THEN {Panics(c)}
  ELSE {Sleeps(c, d) : d \in delays}
After(c, code) ==
  LET set == c.set
      backoffs == backoff(c.attempt, set.base, set.max)
  IN IF ~isIdempotentMethod(c.req.verb) THEN IF code = 0 THEN {Done(c, 500)} ELSE WithResults(c, code)
     ELSE IF code # 0 /\ ~Retries(code) THEN WithResults(c, code)
     ELSE Again([c EXCEPT !.code = code], IF code = 429 THEN parseRetryAfter ELSE backoffs)

\* The clone shares the body with the request: once an attempt has written
\* it, the next one finds it at its end, and the transport refuses to send.
BodyIsGone(c) == c.req.body /\ ~c.unread

Attempted(c, written, arrived, fault) ==
  [c EXCEPT !.unread = c.unread /\ ~written,
            !.received = c.received + (IF arrived THEN 1 ELSE 0),
            !.faults = c.faults + (IF fault THEN 1 ELSE 0)]

\* The request arrives and is answered; the wrong signature is refused.
ServerAnswers(code) ==
  /\ call.pc = "send" /\ ~BodyIsGone(call) /\ tlsConfigFor(call.req).trusts
  /\ Aws(call.req) /\ call.dated # call.signed => code = 403
  /\ call' \in After(Attempted(call, TRUE, TRUE, Retries(code)), code)
  /\ UNCHANGED <<second, until>>

\* The connection fails before, while or after the request is written.
Breaks(written, received) ==
  /\ call.pc = "send" /\ ~BodyIsGone(call) /\ (received => written)
  /\ written => tlsConfigFor(call.req).trusts
  /\ call' \in After(Attempted(call, written, received, TRUE), 0)
  /\ UNCHANGED <<second, until>>

\* The attempt fails without the environment's doing.
FailsAlone ==
  /\ call.pc = "send" /\ (BodyIsGone(call) \/ ~tlsConfigFor(call.req).trusts)
  /\ call' \in After(call, 0)
  /\ UNCHANGED <<second, until>>

CallerGivesUp ==
  /\ call.pc \in {"client", "limit", "send", "sleep"} /\ ~call.ended
  /\ call' = [call EXCEPT !.ended = TRUE]
  /\ UNCHANGED <<second, until>>

NextAttempt(c) == [c EXCEPT !.pc = "send", !.attempt = c.attempt + 1]
SleepEnds ==
  /\ call.pc = "sleep"
  /\ call' = NextAttempt(call)
  /\ UNCHANGED <<second, until>>
SleepIsCut ==
  /\ call.pc = "sleep" /\ call.ended
  /\ call' = Done(call, 500)
  /\ UNCHANGED <<second, until>>

Returned ==
  /\ call.pc \in {"done", "panicked"}
  /\ call' = NoRequest
  /\ UNCHANGED <<second, until>>

DoStep ==
  \/ HTTPClientForEndpoint \/ Wait \/ FailsAlone \/ SleepEnds \/ SleepIsCut
  \/ \E code \in Codes : ServerAnswers(code)
  \/ \E written, received \in BOOLEAN : Breaks(written, received)

-----------------------------------------------------------------------------
(* UntilWithOptions *)

Until(initial, max) ==
  LET from == IF initial <= 0 THEN 1 ELSE initial
      to == IF max <= 0 THEN 30 ELSE max
  IN /\ until.pc = "idle"
     /\ until' = [pc |-> "check", first |-> from, max |-> IF to < from THEN from ELSE to, delay |-> from]
     /\ UNCHANGED <<call, second>>
Check(ready) ==
  /\ until.pc = "check"
  /\ until' = [until EXCEPT !.pc = IF ready THEN "ready" ELSE "wait"]
  /\ UNCHANGED <<call, second>>
Doubled(delay, max) == IF Wrap(2 * delay) > max THEN max ELSE Wrap(2 * delay)
Waited ==
  /\ until.pc = "wait"
  /\ until' = [until EXCEPT !.pc = "check", !.delay = Doubled(@, until.max)]
  /\ UNCHANGED <<call, second>>
UntilReturns ==  \* ready, or its context has ended
  /\ until.pc \in {"ready", "wait"}
  /\ until' = [pc |-> "idle"]
  /\ UNCHANGED <<call, second>>
UntilNext ==
  \/ \E s \in Settings : Until(s.base, s.max)
  \/ \E ready \in BOOLEAN : Check(ready)
  \/ Waited \/ UntilReturns

HttpNext ==
  \/ \E r \in RequestOptions, s \in Settings : Request(r, s)
  \/ DoStep \/ CallerGivesUp \/ ClockTicks \/ Returned

HttpSpec == HttpInit /\ [][HttpNext \/ UntilNext]_httpVars

-----------------------------------------------------------------------------
(* A request that must not be repeated reaches the server at most once, and   *)
(* success is reported only if the last answer was a success: except for the  *)
(* error codes response.New does not list, which it reports as success. A     *)
(* request that may be repeated is given up only when all its attempts were   *)
(* made to fail, or when the server answered for good, as it does to a        *)
(* signature made in another second than the date header: except that a body  *)
(* is written once only, and an endpoint with a certificate but no CA trusts  *)
(* nobody.                                                                    *)
Beaten ==
  \/ call.ended \/ call.req.flaw # "none" \/ Cardinality(call.req.auth) > 1
  \/ call.faults = call.set.retries + 1
  \/ call.code # 0 /\ ~Retries(call.code)
  \/ BodyIsGone(call) \/ (call.req.cert /\ ~call.req.ca)
OutcomeIsTrue == call.pc = "done" =>
  /\ call.received > 1 => call.req.verb \notin {"POST", "PATCH"}
  /\ IF call.result.status = "Success" THEN Succeeded(call.code) \/ call.code \notin FailureCodes \cup {0}
     ELSE isIdempotentMethod(call.req.verb) => Beaten

(* A backoff stays within its cap, and only settings out of range (a negative *)
(* number of retries, a delay below two units, a doubling past the largest    *)
(* duration) or an AWS request without a verb or with a header that has no    *)
(* colon end in a panic; Until's delays stay between the initial and the      *)
(* largest one unless doubling that one overflows.                            *)
DelaysInRange ==
  /\ (call.pc = "sleep" /\ call.code # 429) => call.delay \in 1 .. call.set.max
  /\ call.pc = "panicked" =>
       \/ call.set.retries < 0 \/ call.set.base < 2 \/ call.set.max < 2
       \/ call.set.base * Shift[call.attempt] > MaxInt
       \/ Aws(call.req) /\ (call.req.verb = "" \/ call.req.headers = "bare")
  /\ until.pc = "wait" => until.delay \in until.first .. until.max \/ 2 * until.max > MaxInt

(* A call whose context ends is answered.                                     *)
DoReturns == []<>(call.pc \in {"idle", "done", "panicked"})
=============================================================================
