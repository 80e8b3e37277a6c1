---------------------------- MODULE MC_Connections ----------------------------
(***************************************************************************)
(* Connections of src/graph/tarjan.go checked against mutual reachability *)
(* on every graph of 1 to MaxVertices vertices (self-loops included: the  *)
(* function's comment allows them), every set of keys holding at least    *)
(* the vertices that have arcs, and every order of the range over them.   *)
(***************************************************************************)
EXTENDS Integers, Sequences, FiniteSets, SequencesExt, TarjanConnections

MaxVertices == 3

VARIABLES V, keys, succ, result

(* A map graph: a key may have an empty list; a vertex that is not a key  *)
(* has none.                                                               *)
Init ==
  /\ V \in {0 .. n - 1 : n \in 1 .. MaxVertices}
  /\ succ \in [V -> UNION {SetToSeqs(S) : S \in SUBSET V}]
  /\ keys \in UNION {SetToSeqs(K) : K \in {K \in SUBSET V : \A v \in V \ K : succ[v] = <<>>}}
  /\ result = <<>>

Analyse ==
  /\ result = <<>>
  /\ result' = <<Connections(V, keys, succ)>>
  /\ UNCHANGED <<V, keys, succ>>

Done ==
  /\ result # <<>>
  /\ UNCHANGED <<V, keys, succ, result>>

Spec == Init /\ [][Analyse \/ Done]_<<V, keys, succ, result>>

-----------------------------------------------------------------------------
RECURSIVE Reach(_, _)
(* The vertices reached from S in at most k arcs.                          *)
Reach(S, k) ==
  IF k = 0 THEN S ELSE Reach(S \cup {w \in V : \E u \in S : w \in Range(succ[u])}, k - 1)

Reaches(u, v) == v \in Reach({u}, Cardinality(V))

(* Connections returns the strongly connected components of the part of  *)
(* the graph reached from its keys, each exactly once, although node, the *)
(* pointer strongConnect keeps into data.nodes (tarjan.go:45), goes stale *)
(* whenever a vertex that is not a key makes append grow the slice.        *)
ConnectionsAreComponents ==
  result # <<>> =>
    LET out == result[1]
        R   == Reach(Range(keys), Cardinality(V))
    IN  /\ \A v \in R : Cardinality({i \in DOMAIN out : v \in Range(out[i])}) = 1
        /\ \A i \in DOMAIN out :
             /\ Range(out[i]) \subseteq R
             /\ Len(out[i]) = Cardinality(Range(out[i]))
             /\ \A u, v \in Range(out[i]) : Reaches(u, v)
        /\ \A u, v \in R : Reaches(u, v) /\ Reaches(v, u) =>
             \E i \in DOMAIN out : {u, v} \subseteq Range(out[i])

=============================================================================
