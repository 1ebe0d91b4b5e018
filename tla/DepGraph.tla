------------------------------ MODULE DepGraph ------------------------------
(* deps/deps.go: a graph of dependencies that refuses cycles, and its topological sort.       *)
(* A depmap is a function from the keys the Go map has to sets of nodes: that a key is present *)
(* with an empty set and that it is absent are different states, as Leaves tells them apart.  *)
(* The graph is not locked: one goroutine uses it.                                            *)
EXTENDS Naturals, Sequences, FiniteSets

CONSTANT Nodes

ASSUME NodesAssumption == IsFiniteSet(Nodes)

VARIABLES graph,      \* what DependOn has built: nodes, dependencies, dependents
          shrinking,  \* TopoSortedLayers: the clone that loses its leaves
          leaves,     \* the leaves of the current round that are still to be removed
          layers,     \* the layers found so far, each a set (the order of a map is random)
          sort        \* "no", "look", "remove" or "done"

graphVars == <<graph, shrinking, leaves, layers, sort>>

IsDepmap(dm) == \E K \in SUBSET Nodes : dm \in [K -> SUBSET Nodes]
IsGraph(g) ==
  /\ g = [nodes |-> g.nodes, dependencies |-> g.dependencies, dependents |-> g.dependents]
  /\ g.nodes \in SUBSET Nodes /\ IsDepmap(g.dependencies) /\ IsDepmap(g.dependents)

GraphTypeOK ==
  /\ IsGraph(graph) /\ IsGraph(shrinking)
  /\ leaves \in SUBSET Nodes
  /\ layers \in Seq(SUBSET Nodes)
  /\ sort \in {"no", "look", "remove", "done"}

\* Looking up a missing key of a Go map yields the empty set.
At(dm, key) == IF key \in DOMAIN dm THEN dm[key] ELSE {}

NoEdges == [n \in {} |-> {}]
New == [nodes |-> {}, dependencies |-> NoEdges, dependents |-> NoEdges]

addNodeToNodeset(dm, key, node) ==
  [k \in DOMAIN dm \cup {key} |-> IF k = key THEN At(dm, key) \cup {node} ELSE dm[k]]

IsSingle(S) == \E x \in S : S = {x}

\* Mutant: the entry of a node without dependencies left stays, empty.
removeKeepsEmpty(dm, keys, node) ==
  [k \in DOMAIN dm |-> IF k \in keys THEN dm[k] \ {node} ELSE dm[k]]

\* The loops of remove call removeFromDepmap for every key of a set. An entry with one
\* element goes away whatever that element is.
removeFromDepmap(dm, keys, node) ==
  [k \in {k \in DOMAIN dm : ~(k \in keys /\ IsSingle(dm[k]))} |->
     IF k \in keys THEN dm[k] \ {node} ELSE dm[k]]

Delete(dm, key) == [k \in DOMAIN dm \ {key} |-> dm[k]]

remove(g, node) ==
  LET dependencies == removeFromDepmap(g.dependencies, At(g.dependents, node), node)
      dependents == Delete(g.dependents, node)
  IN  [nodes |-> g.nodes \ {node},
       dependencies |-> Delete(dependencies, node),
       dependents |-> removeFromDepmap(dependents, At(dependencies, node), node)]

Closed(dm, S) == \A n \in S : At(dm, n) \subseteq S

\* The nodes that no closed set with root's edges can lack.
Reachable(dm, root) ==
  {n \in Nodes : \A S \in SUBSET Nodes : At(dm, root) \subseteq S /\ Closed(dm, S) => n \in S}

\* What the search from root discovers; DiscoveryIsComplete compares it with the search itself.
buildTransitive(g, dm, root) == IF root \in g.nodes THEN Reachable(dm, root) ELSE {}

deps(g, child) == buildTransitive(g, g.dependencies, child)
dependsOn(g, child, parent) == parent \in deps(g, child)

\* Mutant: the search starts at the wrong end.
MayDependOnSwapped(child, parent) == child # parent /\ ~dependsOn(graph, child, parent)

\* The guard of DependOn: neither a self-reference nor a cycle.
MayDependOn(child, parent) == child # parent /\ ~dependsOn(graph, parent, child)

\* A refused call changes nothing.
DependOn(child, parent) ==
  /\ sort = "no"
  /\ MayDependOn(child, parent)
  /\ graph' = [nodes |-> graph.nodes \cup {parent, child},
               dependencies |-> addNodeToNodeset(graph.dependencies, child, parent),
               dependents |-> addNodeToNodeset(graph.dependents, parent, child)]
  /\ UNCHANGED <<shrinking, leaves, layers, sort>>

Leaves(g) == {n \in g.nodes : n \notin DOMAIN g.dependencies}

TopoSorted ==
  /\ sort = "no"
  /\ shrinking' = graph /\ sort' = "look"
  /\ UNCHANGED <<graph, leaves, layers>>

Look ==
  /\ sort = "look"
  /\ leaves' = Leaves(shrinking)
  /\ IF Leaves(shrinking) = {}
       THEN sort' = "done" /\ UNCHANGED layers
       ELSE sort' = "remove" /\ layers' = Append(layers, Leaves(shrinking))
  /\ UNCHANGED <<graph, shrinking>>

RemoveLeaf(n) ==
  /\ sort = "remove"
  /\ n \in leaves
  /\ shrinking' = remove(shrinking, n)
  /\ leaves' = leaves \ {n}
  /\ sort' = IF leaves = {n} THEN "look" ELSE "remove"
  /\ UNCHANGED <<graph, layers>>

\* The caller has the order and goes on with the graph.
Sorted ==
  /\ sort = "done"
  /\ sort' = "no" /\ layers' = <<>> /\ shrinking' = New
  /\ UNCHANGED <<graph, leaves>>

GraphInit == graph = New /\ shrinking = New /\ leaves = {} /\ layers = <<>> /\ sort = "no"

GraphNext ==
  \/ \E child, parent \in Nodes : DependOn(child, parent)
  \/ TopoSorted \/ Look \/ Sorted
  \/ \E n \in Nodes : RemoveLeaf(n)

GraphSpec == GraphInit /\ [][GraphNext]_graphVars

-----------------------------------------------------------------------------
\* Mutant: the nodes discovered last are not searched.
SearchOneLayer(dm, root) == At(dm, root) \cup UNION {At(dm, n) : n \in At(dm, root)}

\* The search of buildTransitive, layer by layer: what it has found and where it goes on.
Search(dm, root) ==
  LET found[k \in 0..Cardinality(Nodes)] ==
        IF k = 0 THEN [out |-> {}, next |-> {root}]
        ELSE LET new == (UNION {At(dm, n) : n \in found[k - 1].next}) \ found[k - 1].out
             IN  [out |-> found[k - 1].out \cup new, next |-> new]
  IN  found[Cardinality(Nodes)].out

\* The search of buildTransitive finds every node that is reachable and nothing else, so that
\* dependsOn, which guards DependOn, decides reachability.
DiscoveryIsComplete ==
  \A n \in graph.nodes : Search(graph.dependencies, n) = deps(graph, n)

\* Whatever DependOn accepts, no node ever depends on itself, directly or through others.
Acyclic == \A n \in graph.nodes : ~dependsOn(graph, n, n)

MirroredIn(g) ==
  /\ \A n, m \in Nodes : m \in At(g.dependencies, n) <=> n \in At(g.dependents, m)
  /\ \A n \in DOMAIN g.dependencies : g.dependencies[n] # {} /\ n \in g.nodes
  /\ \A m \in DOMAIN g.dependents : g.dependents[m] # {} /\ m \in g.nodes

\* The two maps are each other's inverse, in the graph and at every moment of the sort: the
\* only element of an entry that removeFromDepmap deletes is the node it is asked to remove.
Mirrored == MirroredIn(graph) /\ MirroredIn(shrinking)

\* A topological order: every node comes after all it depends on.
DependenciesFirst ==
  \A i \in 1..Len(layers) : \A n \in layers[i] : \A m \in At(graph.dependencies, n) :
    \E j \in 1..(i - 1) : m \in layers[j]

\* When the sort is done each node of the graph is in exactly one layer.
EveryNodeSorted ==
  sort = "done" => \A n \in Nodes :
    Cardinality({i \in 1..Len(layers) : n \in layers[i]}) = IF n \in graph.nodes THEN 1 ELSE 0

\* TopoSortedLayers returns a topological order of the whole graph: no node comes before one it
\* depends on, and none is left out or listed twice.
SortIsTopological == DependenciesFirst /\ EveryNodeSorted
=============================================================================
