----------------------------- MODULE MCReconcile -----------------------------
(* Instances of Reconcile: two children, a ConfigMap-like custom resource in *)
(* a krateo.io group and a Secret written through stringData.               *)
EXTENDS Reconcile

CONSTANTS custom, secret, a, b, helm, srv, tp1, tp2, none

Plain(v)  == [data |-> v, stringData |-> none, label |-> none, traceparent |-> none, owner |-> none]
Secret(v) == [data |-> none, stringData |-> v, label |-> none, traceparent |-> none, owner |-> none]
Labelled(v, l) == [Plain(v) EXCEPT !.label = l]

AtVersion(n, o) == [version |-> n, object |-> o]

Chart(x, y) == [c \in {custom, secret} |-> IF c = custom THEN x ELSE y]

Base       == Chart(AtVersion(1, Plain(a)), AtVersion(1, Secret(a)))
OnlyCustom == Chart(AtVersion(1, Plain(a)), none)
Fighting   == Chart(AtVersion(1, Labelled(a, b)), AtVersion(1, Secret(b)))
Bumped     == Chart(AtVersion(2, Plain(a)), AtVersion(1, Secret(a)))
Traced     == Chart(AtVersion(1, Plain(a)), AtVersion(1, [Secret(a) EXCEPT !.traceparent = tp1]))
OnlySecret == Chart(none, AtVersion(1, Secret(a)))

SteadyCharts == {Base, OnlyCustom, Fighting}
BumpCharts   == {Base, Bumped}
SafeCharts   == {Base, Fighting, Bumped, Traced, OnlySecret}
PruneCharts  == {Base, Bumped, OnlySecret}
=============================================================================
