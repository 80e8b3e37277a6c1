------------------------------- MODULE AlGraph -------------------------------
(***************************************************************************)
(* The adjacency-list graph of src/core/classical_graph.go (type AlGraph)  *)
(* and its Kahn-style sorts, as pure operators.                            *)
(*                                                                         *)
(* A graph is given as the code receives it in AlGraph.Init: a function    *)
(* adj from the vertex indices 0..n-1 to the sequence of destinations of   *)
(* each vertex, in the order of the Go slice (duplicates kept).  The       *)
(* ArcNode linked lists, the VNode records and the isSorted flags become   *)
(* sequences, sets and a record threaded through a recursive loop.         *)
(***************************************************************************)
EXTENDS Integers, Sequences, FiniteSets, SequencesExt

(* math.MaxInt64, the initial value of min in AdvancedTopologicalSort.     *)
(* Any value above every in-degree behaves the same; TLC integers are 32   *)
(* bits wide, so the sentinel is the largest of them.                      *)
MaxIntSentinel == 2147483647

Vertices(adj) == DOMAIN adj

(* outDegree as computed by AlGraph.Init: the length of each list.         *)
OutDegrees(adj) == [v \in Vertices(adj) |-> Len(adj[v])]

(* inDegree as computed by AlGraph.Init: one per arc, duplicates counted.  *)
InDegrees(adj) ==
  [v \in Vertices(adj) |->
     SumFunction([u \in Vertices(adj) |->
                    Cardinality({i \in DOMAIN adj[u] : adj[u][i] = v})])]

(* The number of arcs from u to v.                                        *)
ArcCount(adj, u, v) == Len(SelectSeq(adj[u], LAMBDA x : x = v))

(* Mutant: lines 73-81 left out, the arcs of aborted vertices keep their  *)
(* in-degree.                                                              *)
RebuildGraphNoDecrement(adj, inDeg, abortedTx) ==
  [inDeg      |-> inDeg,
   arcAborted |-> UNION {{<<u, i>> : i \in {i \in DOMAIN adj[u] : adj[u][i] \in abortedTx}} :
                           u \in Vertices(adj) \ abortedTx}]

(* RebuildGraph (lines 70-95): every arc out of an aborted vertex lowers  *)
(* the in-degree of its destination; every arc of a surviving vertex into *)
(* an aborted one is marked isAborted (the pair <<vertex, position>>).     *)
RebuildGraph(adj, inDeg, abortedTx) ==
  [inDeg      |-> [v \in Vertices(adj) |->
                     inDeg[v] - SumFunction([u \in abortedTx |-> ArcCount(adj, u, v)])],
   arcAborted |-> UNION {{<<u, i>> : i \in {i \in DOMAIN adj[u] : adj[u][i] \in abortedTx}} :
                           u \in Vertices(adj) \ abortedTx}]

(* Mutant: the isSorted test of line 207 left out.                        *)
FindMaxNodeWithSorted(min, inDeg, outDeg, sorted) ==
  LET cands == {i \in DOMAIN inDeg : inDeg[i] = min}
      max   == Max({0} \cup {outDeg[i] : i \in cands})
  IN  IF cands = {} THEN 0 ELSE Min({i \in cands : outDeg[i] = max})

(* findMaxNode: among the unsorted vertices of in-degree min, the first    *)
(* (lowest index) of maximal out-degree; 0 when there is none, since       *)
(* maxNode keeps its zero value.                                           *)
FindMaxNode(min, inDeg, outDeg, sorted) ==
  LET cands == {i \in DOMAIN inDeg : i \notin sorted /\ inDeg[i] = min}
      max   == Max({0} \cup {outDeg[i] : i \in cands})
  IN  IF cands = {} THEN 0 ELSE Min({i \in cands : outDeg[i] = max})

(* Mutant: a destination is queued while it still has one arc left.       *)
DecrementArcsOffByOne(arcs, sorted, inDeg, zero) ==
  LET Arc(acc, d) ==
        IF d \in sorted THEN acc
        ELSE LET deg == [acc.inDeg EXCEPT ![d] = @ - 1]
             IN  [inDeg |-> deg,
                  zero  |-> IF deg[d] <= 1 THEN Append(acc.zero, d) ELSE acc.zero]
  IN  FoldLeft(Arc, [inDeg |-> inDeg, zero |-> zero], arcs)

(* The inner loop over the arcs of top: an arc into a sorted vertex is     *)
(* skipped, any other decrements the in-degree of its destination, which  *)
(* is appended to the zero-degree queue when it reaches 0.                 *)
DecrementArcs(arcs, sorted, inDeg, zero) ==
  LET Arc(acc, d) ==
        IF d \in sorted THEN acc
        ELSE LET deg == [acc.inDeg EXCEPT ![d] = @ - 1]
             IN  [inDeg |-> deg,
                  zero  |-> IF deg[d] = 0 THEN Append(acc.zero, d) ELSE acc.zero]
  IN  FoldLeft(Arc, [inDeg |-> inDeg, zero |-> zero], arcs)

(* One iteration of the main loop of AdvancedTopologicalSort (lines        *)
(* 157-197).  A vertex index outside the graph is the index-out-of-range  *)
(* panic of al.vertices[top].  min is recomputed only while the order is  *)
(* incomplete, and a vertex of least in-degree is forced into the queue    *)
(* whenever min > 0.                                                       *)
AdvancedStep(adj, st) ==
  LET top    == Head(st.zero)
      sorted == st.sorted \cup {top}
      order  == Append(st.order, top)
      arcs   == DecrementArcs(adj[top], sorted, st.inDeg, Tail(st.zero))
      min    == IF Len(order) < Cardinality(Vertices(adj))
                THEN Min({arcs.inDeg[i] : i \in Vertices(adj) \ sorted})
                ELSE st.min
  IN  IF top \notin Vertices(adj)
      THEN [st EXCEPT !.panic = TRUE, !.zero = <<>>]
      ELSE [order  |-> order,
            sorted |-> sorted,
            inDeg  |-> arcs.inDeg,
            min    |-> min,
            panic  |-> FALSE,
            zero   |-> IF min > 0
                       THEN Append(arcs.zero,
                                   FindMaxNode(min, arcs.inDeg, OutDegrees(adj), sorted))
                       ELSE arcs.zero]

(* The loop runs while the queue is non-empty.  On a graph without a      *)
(* self-loop it stops after one iteration per vertex; fuel bounds it so   *)
(* that a graph on which the code would loop for ever is reported as      *)
(* diverging instead of exhausting TLC's stack.                            *)
RECURSIVE AdvancedLoop(_, _, _)
AdvancedLoop(adj, st, fuel) ==
  IF st.zero = <<>> THEN [st EXCEPT !.zero = <<>>]
  ELSE IF fuel = 0 THEN [st EXCEPT !.panic = TRUE]
  ELSE AdvancedLoop(adj, AdvancedStep(adj, st), fuel - 1)

(* Mutant: lines 152-155 left out, no vertex is forced when every vertex  *)
(* has an in-edge.                                                         *)
AdvancedTopologicalSortNoForce(adj) ==
  LET inDeg == InDegrees(adj)
      V     == Vertices(adj)
      st0   == [order |-> <<>>, sorted |-> {}, inDeg |-> inDeg,
                min |-> IF V = {} THEN MaxIntSentinel ELSE Min({inDeg[i] : i \in V}),
                panic |-> FALSE,
                zero |-> SetToSortSeq({i \in V : inDeg[i] = 0}, <)]
      res   == AdvancedLoop(adj, st0, Cardinality(V) + 1)
  IN  [order |-> res.order, panic |-> res.panic]

(* AdvancedTopologicalSort (lines 136-200): the zero-degree vertices in   *)
(* index order, or the forced vertex of least in-degree when there is     *)
(* none, then the loop.  Returns the order and whether the code panics.   *)
AdvancedTopologicalSort(adj) ==
  LET inDeg == InDegrees(adj)
      V     == Vertices(adj)
      zero0 == SetToSortSeq({i \in V : inDeg[i] = 0}, <)
      min0  == IF V = {} THEN MaxIntSentinel ELSE Min({inDeg[i] : i \in V})
      zero1 == IF zero0 = <<>>
               THEN <<FindMaxNode(min0, inDeg, OutDegrees(adj), {})>>
               ELSE zero0
      st0   == [order |-> <<>>, sorted |-> {}, inDeg |-> inDeg,
                min |-> min0, panic |-> FALSE, zero |-> zero1]
      res   == AdvancedLoop(adj, st0, Cardinality(V) + 1)
  IN  [order |-> res.order, panic |-> res.panic]

-----------------------------------------------------------------------------
(* One iteration of the loop of BasicTopologicalSort (lines 110-129): the *)
(* head of the queue is emitted and every arc of it not marked isAborted  *)
(* lowers its target's in-degree, queueing the target when it reaches 0.  *)
BasicStep(adj, arcAborted, st) ==
  LET top == Head(st.zero)
      Arc(acc, i) ==
        IF <<top, i>> \in arcAborted THEN acc
        ELSE LET d   == adj[top][i]
                 deg == [acc.inDeg EXCEPT ![d] = @ - 1]
             IN  [inDeg |-> deg,
                  zero  |-> IF deg[d] = 0 THEN Append(acc.zero, d) ELSE acc.zero]
      r == FoldLeft(Arc, [inDeg |-> st.inDeg, zero |-> st.zero],
                    [i \in DOMAIN adj[top] |-> i])
  IN  [order |-> Append(st.order, top), inDeg |-> r.inDeg, zero |-> Tail(r.zero)]

RECURSIVE BasicLoop(_, _, _)
BasicLoop(adj, arcAborted, st) ==
  IF st.zero = <<>> THEN st ELSE BasicLoop(adj, arcAborted, BasicStep(adj, arcAborted, st))

(* BasicTopologicalSort (lines 97-133): Kahn's algorithm from the vertices *)
(* of in-degree 0, in index order, over the in-degrees RebuildGraph left.  *)
(* A vertex enters the queue once at most: in-degrees only go down.        *)
BasicTopologicalSort(adj, inDeg, arcAborted) ==
  LET zero0 == SetToSortSeq({v \in Vertices(adj) : inDeg[v] = 0}, <)
  IN  BasicLoop(adj, arcAborted, [order |-> <<>>, inDeg |-> inDeg, zero |-> zero0]).order

-----------------------------------------------------------------------------
RECURSIVE PathsFrom(_, _)
(* The simple paths extending p along arcs of adj through vertices above *)
(* p[1], p included.                                                       *)
PathsFrom(adj, p) ==
  {p} \cup UNION {PathsFrom(adj, Append(p, v)) :
                    v \in {w \in Range(adj[p[Len(p)]]) : w > p[1] /\ w \notin Range(p)}}

(* The elementary cycles of adj, each written from its least vertex: what *)
(* gonum's topo.DirectedCyclesIn returns (FindAllCycles in                 *)
(* src/graph/johnson_cycles.go hands adj to it as sets of successors).    *)
ElementaryCyclesOf(adj) ==
  {c \in UNION {PathsFrom(adj, <<s>>) : s \in Vertices(adj)} :
     Len(c) >= 2 /\ c[1] \in Range(adj[c[Len(c)]])}

(* RemoveCycles (lines 234-280), which nothing calls: the vertex on most  *)
(* cycles, the first of them in the iteration order of the map appears    *)
(* (any of them), is aborted.  The loop of lines 270-275 adds cycles[i][0] *)
(* only when it is already aborted, which a cycle without maxVertex never *)
(* starts with: it never adds one.  The set of the possible results.      *)
RemoveCycles(adj) ==
  LET cycles  == ElementaryCyclesOf(adj)
      appears(v) == Cardinality({c \in cycles : v \in Range(c)})
      max     == Max({appears(v) : v \in Vertices(adj)})
      tops    == {v \in Vertices(adj) : appears(v) = max /\ appears(v) > 0}
      Added(m) == {c[1] : c \in {c \in cycles : m \notin Range(c) /\ c[1] = m}}
  IN  IF cycles = {} THEN {{}} ELSE {{m} \cup Added(m) : m \in tops}

=============================================================================
