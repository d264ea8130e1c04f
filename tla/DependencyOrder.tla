--------------------------- MODULE DependencyOrder ---------------------------
(***************************************************************************)
(* The order in which Kustomizations and HelmReleases are processed        *)
(* (flux.TopologicalSort, internal/flux/substitute.go): Kahn's algorithm   *)
(* over dependsOn, and what its two callers make of a dependency cycle.    *)
(* An item is a record [ns, name, deps]; deps is the list of its dependsOn *)
(* entries <<ns or None, name>>.  The result is a sequence of positions of *)
(* items.                                                                  *)
(***************************************************************************)
EXTENDS SequencesExt, Integers

CONSTANT None

Ident(item) == <<item.ns, item.name>>

(* An entry without a namespace means the item's own.                      *)
DepKeys(item) ==
  [k \in DOMAIN item.deps |-> IF item.deps[k][1] = None THEN <<item.ns, item.deps[k][2]>> ELSE item.deps[k]]

(* idxMap: of several items with one identity the last one is meant; 0 if  *)
(* there is none.                                                          *)
Index(items, key) == SelectLastInSeq(items, LAMBDA item : Ident(item) = key)

Meant(items, i, k) == Index(items, DepKeys(items[i])[k])

(* The entries of item i that mean an item: each is an edge into it.       *)
Requires(items, i) == {k \in DOMAIN items[i].deps : Meant(items, i, k) # 0}
Edges(items, j, i) == Cardinality({k \in Requires(items, i) : Meant(items, i, k) = j})

Positions(items) == [i \in DOMAIN items |-> i]

(* The positions of a set, appended one by one in the order of the list.   *)
Queued(items, ready) ==
  FoldLeft(LAMBDA queue, i : IF i \in ready THEN Append(queue, i) ELSE queue, <<>>, Positions(items))

(* One round: the head of the queue is done; items whose last requirement  *)
(* it was become ready, in the order of the list.                          *)
Pop(items, k) ==
  LET done     == Head(k.queue)
      inDegree == [i \in DOMAIN items |-> k.inDegree[i] - Edges(items, done, i)]
      ready    == {i \in DOMAIN items : k.inDegree[i] > 0 /\ inDegree[i] = 0}
  IN  [queue |-> Tail(k.queue) \o Queued(items, ready),
       sorted |-> Append(k.sorted, done), inDegree |-> inDegree]

(* A repeated dependsOn entry counts twice, here and in Edges.             *)
InDegree_Once(items, i) == IF Requires(items, i) = {} THEN 0 ELSE 1
InDegree(items, i) == Cardinality(Requires(items, i))

Sorted(items) ==
  LET inDegree == [i \in DOMAIN items |-> InDegree(items, i)]
      start    == [queue |-> Queued(items, {i \in DOMAIN items : inDegree[i] = 0}),
                   sorted |-> <<>>, inDegree |-> inDegree]
  IN  FoldLeft(LAMBDA k, i : IF k.queue = <<>> THEN k ELSE Pop(items, k), start, Positions(items)).sorted

(* What is left of a cycle is an error, and the list is nil.               *)
Circular(items)        == Len(Sorted(items)) # Len(items)
TopologicalSort(items) == IF Circular(items) THEN <<>> ELSE Sorted(items)

(* hr_inflation.go goes back to the list it had; build.go has assigned the *)
(* nil to the variable its warning is about.                               *)
ReleaseOrder(items)       == IF Circular(items) THEN Positions(items) ELSE TopologicalSort(items)
KustomizationOrder(items) == TopologicalSort(items)

-----------------------------------------------------------------------------
(* What the order is for.  An entry means the last item of its namespace   *)
(* and name.                                                               *)
DependsOn(items, i) ==
  {j \in DOMAIN items :
     /\ \E d \in ToSet(items[i].deps) :
          items[j].name = d[2] /\ items[j].ns = IF d[1] = None THEN items[i].ns ELSE d[1]
     /\ \A k \in (j + 1)..Len(items) : Ident(items[k]) # Ident(items[j])}

HasCycle(items) ==
  \E S \in SUBSET DOMAIN items : S # {} /\ \A i \in S : DependsOn(items, i) \cap S # {}

InDependencyOrder(items, releases, kustomizations) ==
  /\ HasCycle(items) => releases = Positions(items)
  /\ ~HasCycle(items) => kustomizations = releases
  /\ Len(releases) = Len(items) /\ ToSet(releases) = DOMAIN items
  /\ ~HasCycle(items) =>
       \A p, q \in DOMAIN items : releases[q] \in DependsOn(items, releases[p]) => q < p
=============================================================================
