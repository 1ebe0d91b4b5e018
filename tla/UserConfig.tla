----------------------------- MODULE UserConfig ------------------------------
(***************************************************************************)
(* server/use.UserConfig over a JWKSKeySource: a bearer token is verified, *)
(* the user's Endpoint is read from a Secret, and the request is passed on *)
(* or answered 401, 500 or 503.                                            *)
(***************************************************************************)
EXTENDS KeySource

CONSTANT Tokens

ASSUME TokenAssumption ==
  \A t \in Tokens : /\ t.kid \in AllKids /\ t.key \in AllKids
                    /\ {t.rsa, t.expired} \subseteq BOOLEAN

VARIABLE http  \* the requests

vars == <<sourceVars, http>>

NoToken == [kid |-> NoKid, key |-> NoKid, rsa |-> FALSE, expired |-> FALSE]

HTTPTypeOK ==
  /\ TypeOK
  /\ http \in [Requests -> [pc : {"idle", "validate", "secret"}, token : Tokens \cup {NoToken},
                            status : {"none", "next", "unauthorized", "unknownUser",
                                      "unavailable", "internalError"}]]

Init ==
  /\ SourceInit
  /\ http = [r \in Requests |-> [pc |-> "idle", token |-> NoToken, status |-> "none"]]

Respond401(r) ==
  http' = [http EXCEPT ![r] = [pc |-> "idle", token |-> NoToken, status |-> "unauthorized"]]

\* No header, or one that is not a bearer token.
BadHeader(r) ==
  /\ http[r].pc = "idle"
  /\ Respond401(r)
  /\ UNCHANGED sourceVars

\* A token of another algorithm is refused before any key is looked up.
WrongMethod(r, t) ==
  /\ http[r].pc = "idle" /\ ~t.rsa
  /\ Respond401(r)
  /\ UNCHANGED sourceVars

Receive(r, t) ==
  /\ http[r].pc = "idle" /\ t.rsa
  /\ http' = [http EXCEPT ![r] = [pc |-> "validate", token |-> t, status |-> "none"]]
  /\ Ask(r, t.kid)

\* Mutant: a key that could not be resolved makes the token invalid.
ValidationFlattened(t, answer) ==
  IF answer = Unavailable \/ answer # t.key \/ t.expired THEN "unauthorized" ELSE "none"

\* ValidateWithKeySource once the key source has answered, as the status of the response.
Validation(t, answer) ==
  IF answer = Unavailable THEN "unavailable"
  ELSE IF answer # t.key \/ t.expired THEN "unauthorized" ELSE "none"

Validated(r) ==
  /\ http[r].pc = "validate"
  /\ Take(r)
  /\ LET status == Validation(http[r].token, req[r].answer) IN
       http' = [http EXCEPT ![r] = [pc |-> IF status = "none" THEN "secret" ELSE "idle",
                                    token |-> NoToken, status |-> status]]

\* endpoints.FromSecret: the user's Secret is there, is missing, or is malformed or unreadable.
FromSecret(r) ==
  /\ http[r].pc = "secret"
  /\ \E status \in {"next", "unknownUser", "internalError"} :
       http' = [http EXCEPT ![r] = [pc |-> "idle", token |-> NoToken, status |-> status]]
  /\ UNCHANGED sourceVars

\* A step of the key source, of authn or of the clock.
Only(A) == A /\ UNCHANGED http

Next ==
  \/ Only(AuthnStep) \/ Only(Tick) \/ Only(Respond)
  \/ \E r \in Requests : \/ BadHeader(r) \/ Validated(r) \/ FromSecret(r) \/ Only(KeyStep(r))
                         \/ \E t \in Tokens : Receive(r, t) \/ WrongMethod(r, t)

\* The clock goes on; nothing is asked of the requests or of authn.
Fairness == WF_vars(Only(Tick))

Spec == Init /\ [][Next]_vars /\ Fairness

-----------------------------------------------------------------------------
Answered(r) == req[r].pc # "done" /\ req'[r].pc = "done"
Refused(r) == Answered(r) /\ req'[r].answer = Unavailable

(* A key is answered only from a document that is younger than the cache's  *)
(* TTL plus one round trip (or than the refresh floor, if that is longer),  *)
(* unless a refresh has failed since: authn's withdrawal of a key reaches   *)
(* every validator in bounded time while authn can be reached.              *)
FreshUnlessDown ==
  [][\A r \in Requests : Answered(r) /\ ~Refused(r) => failed' \/ docAge' < Bound]_vars

(* A call is refused only when the last key set authn delivered does not    *)
(* resolve its kid: "A brief authn outage does not invalidate tokens that   *)
(* were already verifiable" (jwks.go:106-107).                              *)
OutageKeepsKeys == [][\A r \in Requests : Refused(r) => ~lookupLocked(delivered', req[r].kid)]_vars

(* A token that is well signed, unexpired and names its key is never        *)
(* answered 401 for a key that was missing, stale or throttled: that is     *)
(* answered 503 (validate.go:61-64, userconfig.go:46-48).                   *)
GenuineIsNotRefused ==
  [][\A r \in Requests : http[r].pc # "idle" /\ http'[r].status = "unauthorized" =>
       LET t == http[r].token IN t.expired \/ t.kid = NoKid \/ t.key # t.kid]_vars

(* Once authn stays up and keeps publishing a key, tokens that name it are  *)
(* in the end no longer answered "unavailable": key rotation needs neither  *)
(* a restart nor a redeploy.                                                *)
RotatedKeyServed ==
  \A k \in Kids : <>[](up /\ published[k] = "RS256")
                    => <>[][\A r \in Requests : req[r].kid = k => ~Refused(r)]_vars
=============================================================================
