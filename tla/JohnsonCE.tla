------------------------------ MODULE JohnsonCE ------------------------------
(***************************************************************************)
(* Cycle enumeration and cycle breaking of src/graph/johnsonce.go (type    *)
(* johnsonce), as pure operators over the adjacency list g of the whole    *)
(* conflict graph and one strongly connected component of it.              *)
(*                                                                         *)
(* The search state of FindCyclesRecur (blocked, blockedMap, stack and the *)
(* cycles found) is a record threaded through the recursion.  sum and      *)
(* sumArray only count, for every cycle found, its length and its         *)
(* vertices; BreakCycles recomputes them from the cycles.                 *)
(***************************************************************************)
EXTENDS Integers, Sequences, FiniteSets, SequencesExt, TarjanSCC

RECURSIVE Unblock(_, _), UnblockList(_, _, _)

(* Unblock (lines 145-154).                                                *)
Unblock(v, j) ==
  LET j1 == [j EXCEPT !.blocked = @ \ {v}]
  IN  [UnblockList(j1.blockedMap[v], 1, j1) EXCEPT !.blockedMap[v] = <<>>]

UnblockList(l, i, j) ==
  IF i > Len(l) THEN j
  ELSE UnblockList(l, i + 1, IF l[i] \in j.blocked THEN Unblock(l[i], j) ELSE j)

RECURSIVE FindCyclesRecur(_, _, _, _, _), Successors(_, _, _, _, _, _)

(* Lines 105-125: the successors of currentV from the i-th on.  explore   *)
(* is the component's Member mask less the start vertices already done.   *)
Successors(g, explore, startV, currentV, i, j) ==
  IF i > Len(g[currentV]) THEN j
  ELSE LET n  == g[currentV][i]
           j2 == IF n \notin explore THEN j
                 ELSE IF n = startV
                 THEN [j EXCEPT !.cycles = Append(@, j.stack), !.found = TRUE]
                 ELSE IF n \notin j.blocked
                 THEN LET r == FindCyclesRecur(g, explore, startV, n, [j EXCEPT !.found = FALSE])
                      IN  [r EXCEPT !.found = r.found \/ j.found]
                 ELSE j
       IN  Successors(g, explore, startV, currentV, i + 1, j2)

(* FindCyclesRecur (lines 100-143); the result's found field is its       *)
(* return value foundCycle.                                                *)
FindCyclesRecur(g, explore, startV, currentV, j) ==
  LET j1 == [j EXCEPT !.stack = Append(@, currentV), !.blocked = @ \cup {currentV},
                      !.found = FALSE]
      j2 == Successors(g, explore, startV, currentV, 1, j1)
      j3 == IF j2.found THEN Unblock(currentV, j2)
            ELSE LET Block(m, v) ==
                       IF v \in explore THEN [m EXCEPT ![v] = Append(@, currentV)] ELSE m
                 IN  [j2 EXCEPT !.blockedMap = FoldLeft(Block, @, g[currentV])]
  IN  [j3 EXCEPT !.stack = SubSeq(@, 1, Len(@) - 1)]

(* Mutant: line 92 left out, a start vertex stays explorable.            *)
FindCyclesKeepExplore(g, c) ==
  IF Len(c) = 1 THEN <<>>
  ELSE IF Len(c) = 2 THEN <<c>>
  ELSE LET Start(acc, v) ==
             LET j0 == [blocked |-> {}, blockedMap |-> [x \in Nodes(g) |-> <<>>],
                        stack |-> <<>>, cycles |-> acc.cycles, found |-> FALSE]
                 r  == FindCyclesRecur(g, acc.explore, v, v, j0)
             IN  [cycles |-> r.cycles, explore |-> acc.explore]
       IN  FoldLeft(Start, [cycles |-> <<>>, explore |-> Range(c)], c).cycles

(* FindCycles (lines 57-98): the cycles of the component c (its sorted     *)
(* vertex list), each as the stack that closed it.  A component of two    *)
(* vertices is taken to hold exactly one cycle, whatever its arcs.         *)
FindCycles(g, c) ==
  IF Len(c) = 1 THEN <<>>
  ELSE IF Len(c) = 2 THEN <<c>>
  ELSE LET Start(acc, v) ==
             LET j0 == [blocked |-> {}, blockedMap |-> [x \in Nodes(g) |-> <<>>],
                        stack |-> <<>>, cycles |-> acc.cycles, found |-> FALSE]
                 r  == FindCyclesRecur(g, acc.explore, v, v, j0)
             IN  [cycles |-> r.cycles, explore |-> acc.explore \ {v}]
       IN  FoldLeft(Start, [cycles |-> <<>>, explore |-> Range(c)], c).cycles

(* The number of cycles of rows containing v: sumArray[v].                 *)
SumArray(rows, v) == Cardinality({i \in DOMAIN rows : v \in rows[i]})

(* The loop of lines 163-171: the lowest vertex of greatest count.        *)
MaxVertex(g, rows) ==
  LET best == Max({SumArray(rows, v) : v \in Nodes(g)})
  IN  Min({v \in Nodes(g) : SumArray(rows, v) = best})

(* Mutant: line 162 as an if, one round of breaking only.               *)
BreakCyclesOneRound(g, c) ==
  LET cycles == FindCycles(g, c)
      rows0  == [r \in DOMAIN cycles |-> Range(cycles[r])]
  IN  IF cycles = <<>> THEN {} ELSE {MaxVertex(g, rows0)}

RECURSIVE BreakLoop(_, _, _)
(* The loop of lines 162-184: while a cycle is left (sum # 0), invalidate *)
(* the vertex on most of them and clear every cycle through it.  Every    *)
(* round clears a cycle, so the loop ends.                                 *)
BreakLoop(g, rows, invalid) ==
  IF \A r \in DOMAIN rows : rows[r] = {} THEN invalid
  ELSE LET max == MaxVertex(g, rows)
       IN  BreakLoop(g, [r \in DOMAIN rows |-> IF max \in rows[r] THEN {} ELSE rows[r]],
                     invalid \cup {max})

(* BreakCycles (lines 156-186): the cycles of FindCycles as rows of       *)
(* boolMap, then the loop.                                                 *)
BreakCycles(g, c) ==
  LET cycles == FindCycles(g, c)
  IN  BreakLoop(g, [r \in DOMAIN cycles |-> Range(cycles[r])], {})

(* Run (lines 29-43): the invalid vertices of every component.             *)
Run(g) ==
  LET sccs == SCCs(g)
  IN  UNION {BreakCycles(g, sccs[i]) : i \in DOMAIN sccs}

=============================================================================
