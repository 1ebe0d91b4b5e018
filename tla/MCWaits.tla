------------------------------- MODULE MCWaits ------------------------------
(* Parts of the library whose calls wait for others: requests to the API     *)
(* server and to any endpoint, polling, publications on the bus, discovery.  *)
(* They share no state: a behaviour is one of theirs.                        *)
EXTENDS SignUp, HTTPRequest, EventBus, RuntimeKinds

VARIABLE part

waitsVars == <<part, signUpVars, httpVars, vars, kindVars>>

MCRequest(verb, body, auth) ==
  [verb |-> verb, body |-> body, headers |-> "proper", auth |-> auth,
   flaw |-> "none", cert |-> FALSE, ca |-> FALSE]
MCRequestOptions ==
  {MCRequest("", FALSE, {"token"}), MCRequest("PUT", TRUE, {"basic"}), MCRequest("POST", FALSE, {}),
   MCRequest("GET", FALSE, {"aws"}), MCRequest("", FALSE, {"aws"}), MCRequest("GET", FALSE, {"aws", "basic"}),
   [MCRequest("GET", FALSE, {"aws"}) EXCEPT !.headers = "bare"],
   [MCRequest("DELETE", FALSE, {}) EXCEPT !.cert = TRUE]} \cup
  {[MCRequest("GET", FALSE, {}) EXCEPT !.flaw = f] : f \in {"url", "endpoint"}}
MCSettings ==
  {[retries |-> 2, base |-> 2, max |-> 2], [retries |-> 3, base |-> 16, max |-> 40],
   [retries |-> 1, base |-> 1, max |-> 0], [retries |-> -1, base |-> 2, max |-> 3]}
MCRetryAfters == {-1}

-----------------------------------------------------------------------------
WaitsInit ==
  /\ part \in {"signup", "http", "until", "bus", "kinds"}
  /\ SignUpInit /\ HttpInit /\ Init /\ KindsInit

Only(p, self, others) == part = p /\ UNCHANGED <<part, others>> /\ self
SigningUp(A) == Only("signup", A, <<httpVars, vars, kindVars>>)
Http(p, A) == Only(p, A, <<signUpVars, vars, kindVars>>)
Bus(A) == Only("bus", A, <<signUpVars, httpVars, kindVars>>)
Kinds(A) == Only("kinds", A, <<signUpVars, httpVars, vars>>)

WaitsNext ==
  \/ SigningUp(SignUpNext) \/ Http("http", HttpNext) \/ Http("until", UntilNext) \/ Bus(Next) \/ Kinds(KindsNext)

\* A sign-up that has begun goes on and its waits end; so does a request once
\* its caller's context has ended, as it does in the end; the goroutines of the
\* bus are scheduled and its contexts end, but a handler may hang; time passes.
Fairness ==
  /\ \A s \in Signers : WF_waitsVars(SigningUp(SignUpStep(s)))
  /\ WF_waitsVars(Http("http", CallerGivesUp))
  /\ WF_waitsVars(Http("http", call.pc # "idle" /\ call.ended /\ DoStep))
  /\ \A p \in Publications : WF_waitsVars(Bus(Collector(p))) /\ WF_waitsVars(Bus(ContextEnds(p)))
  /\ WF_waitsVars(Kinds(TimePasses))

WaitsSpec == WaitsInit /\ [][WaitsNext]_waitsVars /\ Fairness

(* Whoever calls is answered: a sign-up although the signer never does or     *)
(* others re-create the request it waits to see gone, request.Do although the *)
(* server keeps failing, and a publication although a handler hangs.          *)
EveryCallReturns == SignUpEnds /\ DoReturns /\ PublishReturns
=============================================================================
