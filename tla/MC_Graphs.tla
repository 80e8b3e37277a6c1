------------------------------ MODULE MC_Graphs ------------------------------
(***************************************************************************)
(* The graph algorithms of src/core/classical_graph.go and src/graph       *)
(* checked against reference definitions on every graph of 1 to           *)
(* MaxVertices vertices without self-loops, with every order of every      *)
(* adjacency list.  Neither graph Nezha builds has a self-loop: the rank   *)
(* graph skips a transaction's own key, the conflict graph its own index.  *)
(***************************************************************************)
EXTENDS AlGraph, JohnsonCE

MaxVertices == 4

(* Every adjacency-list graph on 0..n-1 without self-loops or duplicates.  *)
Graphs ==
  UNION {{adj \in [0 .. n - 1 -> UNION {SetToSeqs(S) : S \in SUBSET (0 .. n - 1)}] :
            \A v \in 0 .. n - 1 : v \notin Range(adj[v])} : n \in 1 .. MaxVertices}

VARIABLES adj, result

Init ==
  /\ adj \in Graphs
  /\ result = [done |-> FALSE]

(* Run every algorithm on the graph once.                                  *)
Analyse ==
  /\ ~result.done
  /\ LET ats  == AdvancedTopologicalSort(adj)
         sccs == SCCs(adj)
     IN  result' = [done    |-> TRUE,
                    order   |-> ats.order,
                    panic   |-> ats.panic,
                    sccs    |-> sccs,
                    cycles  |-> [i \in DOMAIN sccs |-> FindCycles(adj, sccs[i])],
                    invalid |-> Run(adj)]
  /\ UNCHANGED adj

Done ==
  /\ result.done
  /\ UNCHANGED <<adj, result>>

Spec == Init /\ [][Analyse \/ Done]_<<adj, result>>

-----------------------------------------------------------------------------
Arc(u, v) == v \in Range(adj[u])

RECURSIVE Closure(_, _, _)
(* S and every vertex outside X reached from it in at most k arcs through *)
(* vertices outside X.                                                     *)
Closure(S, X, k) ==
  IF k = 0 THEN S
  ELSE Closure(S \cup {v \in Vertices(adj) \ X : \E u \in S : Arc(u, v)}, X, k - 1)

(* The vertices reached from u in one or more arcs avoiding X.             *)
ReachableFrom(u, X) ==
  Closure({v \in Vertices(adj) \ X : Arc(u, v)}, X, Cardinality(Vertices(adj)))

(* Acyclic once the vertices of X are taken out: no vertex left reaches  *)
(* itself through vertices left.                                           *)
AcyclicWithout(X) ==
  \A v \in Vertices(adj) \ X : v \notin ReachableFrom(v, X)

(* AdvancedTopologicalSort returns every vertex exactly once, cycles or   *)
(* not: QueuesSort relies on it to visit every queue once.                 *)
SortIsPermutation ==
  result.done =>
    /\ ~result.panic
    /\ Len(result.order) = Cardinality(Vertices(adj))
    /\ Range(result.order) = Vertices(adj)

(* On an acyclic graph AdvancedTopologicalSort is a topological order.    *)
SortRespectsArcs ==
  result.done /\ AcyclicWithout({}) =>
    \A i, j \in DOMAIN result.order :
      Arc(result.order[j], result.order[i]) => j < i

(* tarjanscc returns the strongly connected components: every vertex in   *)
(* exactly one, two vertices together iff each reaches the other, every   *)
(* component sorted (Vertices is sorted by ById).                          *)
SCCsAreComponents ==
  result.done =>
    LET R == [u \in Vertices(adj) |-> ReachableFrom(u, {})] IN
    /\ \A v \in Vertices(adj) : Cardinality({i \in DOMAIN result.sccs : v \in Range(result.sccs[i])}) = 1
    /\ \A i \in DOMAIN result.sccs :
         /\ result.sccs[i] = SortSeq(result.sccs[i], <)
         /\ \A u, v \in Range(result.sccs[i]) : u # v => v \in R[u] /\ u \in R[v]
    /\ \A u, v \in Vertices(adj) :
         u # v /\ v \in R[u] /\ u \in R[v] =>
           \E i \in DOMAIN result.sccs : {u, v} \subseteq Range(result.sccs[i])

(* FindCycles finds every elementary cycle of a component exactly once.   *)
CyclesAreElementary ==
  result.done =>
    LET elementary == ElementaryCyclesOf(adj) IN
    \A i \in DOMAIN result.sccs :
      LET cs == result.cycles[i]
      IN  /\ Len(cs) = Cardinality(Range(cs))
          /\ Range(cs) = {c \in elementary : Range(c) \subseteq Range(result.sccs[i])}

(* P6 of the spec: the transactions Run invalidates break every cycle of   *)
(* the conflict graph.                                                     *)
InvalidIsFeedbackSet ==
  result.done => AcyclicWithout(result.invalid)

(* RemoveCycles was written to return a vertex feedback set too: the      *)
(* comment at line 268 has it go on while some cycles remain.              *)
RemoveCyclesBreaksCycles ==
  result.done => \A a \in RemoveCycles(adj) : AcyclicWithout(a)

=============================================================================
