------------------------------- MODULE MCKube --------------------------------
(* The three Kubernetes helpers share no state: a behaviour is one of theirs. *)
EXTENDS Authorizer, ObjectClient, EventRecorder

VARIABLE part

kubeVars == <<part, rbacVars, objectVars, recorderVars>>

MCTarget(verb, ns) == [verb |-> verb, group |-> "", resource |-> "pods", namespace |-> ns]
MCTargets == {MCTarget("get", "a"), MCTarget("get", "b")}
MCRequests == {MCTargets}
MCRule(verbs, ns, names) ==
  [namespace |-> ns, verbs |-> verbs, groups |-> {""}, resources |-> {"*"}, names |-> names]
\* Everything in one namespace, and in the other one named object or reading.
MCPolicies == {{MCRule({"*"}, "a", {}), MCRule(verbs[1], "b", verbs[2])} :
                 verbs \in {<<{"get"}, {"one"}>>, <<{"get", "list"}, {}>>}}

KubeInit ==
  /\ part \in {"rbac", "object", "events"}
  /\ RBACInit /\ (part = "rbac" \/ policy = [u \in Users |-> CHOOSE p \in Policies : TRUE])
  /\ ObjectInit /\ (part = "object" \/ stored = NotFound)
  /\ RecorderInit /\ (part = "events" \/ topic = [s \in Streams |-> CHOOSE m \in Messages : TRUE])

Rest(others) == UNCHANGED <<part, others>>

KubeNext ==
  \/ part = "rbac" /\ RBACNext /\ Rest(<<objectVars, recorderVars>>)
  \/ part = "object" /\ ObjectNext /\ Rest(<<rbacVars, recorderVars>>)
  \/ part = "events" /\ RecorderNext /\ Rest(<<rbacVars, objectVars>>)

\* Running calls go on, time passes, and every stream is reported again and again.
Events(A) == part = "events" /\ A /\ Rest(<<rbacVars, objectVars>>)
KubeFairness ==
  /\ WF_kubeVars(Events(RecorderTick))
  /\ \A c \in Reporters : WF_kubeVars(Events(RecorderStep(c)))
  /\ \A s \in Streams : WF_kubeVars(Events(\E c \in Reporters : Eventf(c, s)))

KubeSpec == KubeInit /\ [][KubeNext]_kubeVars /\ KubeFairness

(* RepeatedIsVisible, of the behaviours of the recorder. *)
EventsVisible == part = "events" => RepeatedIsVisible
=============================================================================
