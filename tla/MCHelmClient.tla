---------------------------- MODULE MCHelmClient -----------------------------
EXTENDS HelmClient, TLC

CONSTANTS k1, k2, c1, c2

Chart(kinds) == [kinds |-> kinds, duplicate |-> FALSE, application |-> TRUE, complete |-> TRUE,
                 update |-> FALSE]

\* A chart of both kinds, and two that lack a dependency: one renders a resource twice.
MCCharts == {Chart({k1, k2}), [Chart({k2}) EXCEPT !.duplicate = TRUE, !.complete = FALSE, !.update = TRUE],
             [Chart({k1}) EXCEPT !.complete = FALSE]}

CallerSymmetry == Permutations(Callers)
=============================================================================
