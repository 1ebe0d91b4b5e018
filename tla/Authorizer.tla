----------------------------- MODULE Authorizer ------------------------------
(***************************************************************************)
(* kubeutil/rbac.Authorizer: UserCan answers from a TTL cache, then from a  *)
(* rules review per namespace, then from an access review per target. The   *)
(* cache is what ExpiringMap promises: a hit is not older than its time to  *)
(* live, and a key may be forgotten at any time. An entry holds the time it *)
(* has left; the ages of grants and refusals stop growing beyond TTL.       *)
(***************************************************************************)
EXTENDS Naturals, FiniteSets

CONSTANTS
  Checkers,  \* goroutines that call UserCan
  Users,     \* endpoints
  Requests,  \* the sets of targets that a call may ask about
  Targets,   \* [verb, group, resource, namespace]
  Policies,  \* what a user may be granted: sets of [namespace, verbs, groups, resources, names]
  TTL        \* the cache TTL while it is not disabled

ASSUME AuthorizerAssumption == TTL \in Nat \ {0} /\ Requests \subseteq SUBSET Targets

VARIABLES
  policy,           \* API server: the rules of a user
  allowedAge, deniedAge,  \* history: how long ago a target was last granted or refused
  cacheTTL, decisions,    \* Authorizer: the setting and the cache
  check                   \* the calls

rbacVars == <<policy, allowedAge, deniedAge, cacheTTL, decisions, check>>

userCanCacheKey == Users \X Targets
Pairs == Users \X Targets

newUserCanCacheKey(u, t) == <<u, t>>

stringSliceContains(values, wanted) == "*" \in values \/ wanted \in values

rulesAllowTarget(rules, t) ==
  \E rule \in rules :
    /\ rule.namespace = t.namespace /\ rule.names = {}
    /\ stringSliceContains(rule.verbs, t.verb)
    /\ stringSliceContains(rule.groups, t.group)
    /\ stringSliceContains(rule.resources, t.resource)

\* The API server's own answer to an access review.
Granted(u, t) == rulesAllowTarget(policy[u], t)

NoCall ==
  [pc |-> "idle", user |-> CHOOSE u \in Users : TRUE, ttl |-> 0,
   targets |-> {}, todo |-> {}, pending |-> {}, access |-> {}, allowed |-> {}, denied |-> {}, failed |-> FALSE]

RBACTypeOK ==
  /\ policy \in [Users -> Policies]
  /\ allowedAge \in [Pairs -> 0..(TTL + 1)] /\ deniedAge \in [Pairs -> 0..(TTL + 1)]
  /\ cacheTTL \in {0, TTL}
  /\ decisions \in [userCanCacheKey -> {<<>>} \cup {<<[allowed |-> a, left |-> l]>> : a \in BOOLEAN, l \in 0..TTL}]
  /\ \A c \in Checkers :
       /\ check[c].pc \in {"idle", "lookup", "review"} /\ check[c].ttl \in {0, TTL}
       /\ check[c].todo \cup check[c].pending \cup check[c].access \cup check[c].allowed \cup check[c].denied
            \subseteq check[c].targets
       /\ check[c].allowed \cap check[c].denied = {}

RBACInit ==
  /\ policy \in [Users -> Policies]
  /\ allowedAge = [p \in Pairs |-> IF Granted(p[1], p[2]) THEN 0 ELSE TTL + 1]
  /\ deniedAge = [p \in Pairs |-> IF Granted(p[1], p[2]) THEN TTL + 1 ELSE 0]
  /\ cacheTTL = TTL /\ decisions = [k \in userCanCacheKey |-> <<>>]
  /\ check = [c \in Checkers |-> NoCall]

-----------------------------------------------------------------------------
(* The API server, the clock and the cache.                                 *)

\* An administrator changes a user's rules.
Regrant(u, rules) ==
  /\ policy' = [policy EXCEPT ![u] = rules]
  /\ allowedAge' = [p \in Pairs |-> IF p[1] = u /\ rulesAllowTarget(rules, p[2]) THEN 0 ELSE allowedAge[p]]
  /\ deniedAge' = [p \in Pairs |-> IF p[1] = u /\ ~rulesAllowTarget(rules, p[2]) THEN 0 ELSE deniedAge[p]]
  /\ UNCHANGED <<cacheTTL, decisions, check>>

RBACTick ==
  LET older(age) == IF age > TTL THEN age ELSE age + 1
      aged(e) == IF e = <<>> \/ e[1].left = 0 THEN <<>> ELSE <<[e[1] EXCEPT !.left = @ - 1]>> IN
  /\ allowedAge' = [p \in Pairs |-> IF Granted(p[1], p[2]) THEN 0 ELSE older(allowedAge[p])]
  /\ deniedAge' = [p \in Pairs |-> IF Granted(p[1], p[2]) THEN older(deniedAge[p]) ELSE 0]
  /\ decisions' = [k \in userCanCacheKey |-> aged(decisions[k])]
  /\ UNCHANGED <<policy, cacheTTL, check>>

Evict(k) ==
  /\ decisions[k] # <<>> /\ decisions' = [decisions EXCEPT ![k] = <<>>]
  /\ UNCHANGED <<policy, allowedAge, deniedAge, cacheTTL, check>>

SetCacheTTL(ttl) ==
  /\ cacheTTL' = ttl
  /\ decisions' = IF ttl = 0 THEN [k \in userCanCacheKey |-> <<>>] ELSE decisions
  /\ UNCHANGED <<policy, allowedAge, deniedAge, check>>

-----------------------------------------------------------------------------
(* UserCan.                                                                 *)

environment == <<policy, allowedAge, deniedAge, cacheTTL>>

\* The TTL is read once, and used for the whole call.
UserCan(c, u, ts) ==
  /\ check[c].pc = "idle" /\ ts # {}
  /\ check' = [check EXCEPT ![c] =
       [NoCall EXCEPT !.pc = "lookup", !.user = u, !.ttl = cacheTTL, !.targets = ts, !.todo = ts]]
  /\ UNCHANGED <<environment, decisions>>

\* The targets are visited in the order of the request.
First(ts) == CHOOSE t \in ts : TRUE

Lookup(c) ==
  LET t == First(check[c].todo)  key == newUserCanCacheKey(check[c].user, t) IN
  /\ check[c].pc = "lookup" /\ check[c].todo # {}
  /\ check' =
       IF check[c].ttl = 0 \/ decisions[key] = <<>>
       THEN [check EXCEPT ![c].todo = @ \ {t}, ![c].pending = @ \cup {t}]
       ELSE IF decisions[key][1].allowed
       THEN [check EXCEPT ![c].todo = @ \ {t}, ![c].allowed = @ \cup {t}]
       ELSE [check EXCEPT ![c].todo = @ \ {t}, ![c].denied = @ \cup {t}]
  /\ UNCHANGED <<environment, decisions>>

\* Without a clientset every pending target stays false.
Clientset(c) ==
  /\ check[c].pc = "lookup" /\ check[c].todo = {} /\ check[c].pending # {}
  /\ \/ check' = [check EXCEPT ![c].pc = "review"]
     \/ check' = [check EXCEPT ![c].pending = {}, ![c].failed = TRUE]
  /\ UNCHANGED <<environment, decisions>>

\* storeCache for the targets just decided.
storeCache(c, yes, no) ==
  decisions' =
    IF check[c].ttl = 0 THEN decisions
    ELSE LET keys(ts) == {newUserCanCacheKey(check[c].user, t) : t \in ts} IN
         [k \in userCanCacheKey |->
            IF k \in keys(yes) \cup keys(no)
            THEN <<[allowed |-> k \in keys(yes), left |-> check[c].ttl]>> ELSE decisions[k]]

Items(c, ns) == {t \in check[c].pending : t.namespace = ns}

\* The review of a namespace fails, and its targets are left to access reviews.
RulesReviewFails(c, ns) ==
  /\ check[c].pc = "review" /\ check[c].access = {} /\ Items(c, ns) # {}
  /\ check' = [check EXCEPT ![c].pending = @ \ Items(c, ns), ![c].access = Items(c, ns)]
  /\ UNCHANGED <<environment, decisions>>

\* Mutant: an incomplete review is read as a complete one.
RulesReviewTrusted(c, ns, listed, incomplete) ==
  LET items == Items(c, ns)  yes == {t \in items : rulesAllowTarget(listed, t)} IN
  /\ check[c].pc = "review" /\ check[c].access = {} /\ items # {}
  /\ check' = [check EXCEPT ![c].pending = @ \ items, ![c].allowed = @ \cup yes,
                            ![c].denied = @ \cup (items \ yes)]
  /\ storeCache(c, yes, items \ yes)
  /\ UNCHANGED environment

\* The rules listed decide what they allow; a complete list also decides what they do not.
RulesReview(c, ns, listed, incomplete) ==
  LET items == Items(c, ns)
      yes == {t \in items : rulesAllowTarget(listed, t)}
      no == IF incomplete THEN {} ELSE items \ yes IN
  /\ check[c].pc = "review" /\ check[c].access = {} /\ items # {}
  /\ check' = [check EXCEPT ![c].pending = @ \ items, ![c].allowed = @ \cup yes,
                            ![c].denied = @ \cup no, ![c].access = items \ (yes \cup no)]
  /\ storeCache(c, yes, no)
  /\ UNCHANGED environment

AccessReview(c) ==
  LET t == First(check[c].access) IN
  /\ check[c].pc = "review" /\ check[c].access # {}
  /\ IF Granted(check[c].user, t)
     THEN check' = [check EXCEPT ![c].access = @ \ {t}, ![c].allowed = @ \cup {t}] /\ storeCache(c, {t}, {})
     ELSE check' = [check EXCEPT ![c].access = @ \ {t}, ![c].denied = @ \cup {t}] /\ storeCache(c, {}, {t})
  /\ UNCHANGED environment

AccessReviewFails(c) ==
  /\ check[c].pc = "review" /\ check[c].access # {}
  /\ check' = [check EXCEPT ![c].access = @ \ {First(@)}, ![c].failed = TRUE]
  /\ UNCHANGED <<environment, decisions>>

Finished(c) == check[c].pc # "idle" /\ check[c].todo \cup check[c].pending \cup check[c].access = {}

buildUserCanResult(c) ==
  /\ Finished(c)
  /\ check' = [check EXCEPT ![c] = NoCall]
  /\ UNCHANGED <<environment, decisions>>

ReviewSteps(c) ==
  LET u == check[c].user IN
  \E ns \in {t.namespace : t \in Targets} :
    \/ RulesReviewFails(c, ns)
    \/ RulesReview(c, ns, policy[u], FALSE)
    \/ \E listed \in SUBSET policy[u] : RulesReview(c, ns, listed, TRUE)

RBACNext ==
  \/ \E c \in Checkers :
       \/ \E u \in Users, ts \in Requests : UserCan(c, u, ts)
       \/ Lookup(c) \/ AccessReview(c) \/ AccessReviewFails(c)
       \/ Clientset(c) \/ ReviewSteps(c) \/ buildUserCanResult(c)
  \/ \E u \in Users, rules \in Policies : Regrant(u, rules)
  \/ \E k \in userCanCacheKey : Evict(k)
  \/ \E ttl \in {0, TTL} : SetCacheTTL(ttl)
  \/ RBACTick

-----------------------------------------------------------------------------
\* The answers that a step adds to a call are recent, and a call that has finished
\* has answered everything it could.
RealAnswers(c) ==
  LET Recent(age, answers) == \A t \in answers : age[<<check[c].user, t>>] <= TTL IN
  /\ Recent(allowedAge, check'[c].allowed \ check[c].allowed)
  /\ Recent(deniedAge, check'[c].denied \ check[c].denied)
  /\ Finished(c) => check[c].failed \/ check[c].targets = check[c].allowed \cup check[c].denied

(* What UserCan answers, yes or no, was the API server's answer for this    *)
(* very user and target at most one TTL before it is taken, whatever others *)
(* asked, whenever the rules changed and the TTL was set. A call leaves a   *)
(* target out only if a request of its own failed: a failed or incomplete   *)
(* rules review alone refuses nothing (rbac.go:45-52, 155-160, 205-216).    *)
AnswersAreReal == [][\A c \in Checkers : RealAnswers(c)]_rbacVars
=============================================================================
