--------------------------- MODULE TarjanConnections ---------------------------
(***************************************************************************)
(* Connections of src/graph/tarjan.go: Tarjan's algorithm over a Go map   *)
(* graph, as pure operators.  The graph is the sequence keys of its keys, *)
(* in the order the range over the map visits them, and Succ[w], the    *)
(* list of w (nil, so empty, for a vertex that is not a key).            *)
(*                                                                         *)
(* data.nodes is a Go slice made with capacity len(graph).  A vertex      *)
(* reached only through an arc is not a key, so the slice may outgrow      *)
(* that capacity; append then copies it to a new array.  strongConnect    *)
(* keeps node = &data.nodes[index], a pointer into the array of the time  *)
(* it was taken, across the recursive calls that append.  The model keeps *)
(* every array: d.arrs is the sequence of arrays ever allocated, d.cur the *)
(* one the slice uses, and a pointer is <<array, index>>.  Growth doubles *)
(* the capacity (1 from 0), as Go's growslice does for small slices.       *)
(***************************************************************************)
EXTENDS Integers, Sequences

(* The zero value of node.                                                 *)
ZeroNode == [lowLink |-> 0, stacked |-> FALSE]

(* append(data.nodes, nd), line 44: in place while the capacity lasts,    *)
(* into a copy of twice the capacity otherwise.                            *)
AppendNode(d, nd) ==
  IF d.len < d.cap
  THEN [d EXCEPT !.arrs[d.cur][d.len] = nd, !.len = @ + 1]
  ELSE LET nc  == IF d.cap = 0 THEN 1 ELSE 2 * d.cap
           new == [i \in 0 .. nc - 1 |->
                     IF i < d.len THEN d.arrs[d.cur][i]
                     ELSE IF i = d.len THEN nd ELSE ZeroNode]
       IN  [d EXCEPT !.arrs = Append(@, new), !.cur = Len(d.arrs) + 1,
                     !.len = @ + 1, !.cap = nc]

(* node.lowLink and its assignment, through the pointer p.                 *)
LowAt(d, p) == d.arrs[p[1]][p[2]].lowLink
SetLow(d, p, x) == [d EXCEPT !.arrs[p[1]][p[2]].lowLink = x]

(* data.nodes[i].stacked: through the slice, so in its current array.     *)
Stacked(d, i) == d.arrs[d.cur][i].stacked

RECURSIVE PopLoop(_, _, _, _)
(* Lines 63-76: pop the stack down to the vertex of index, unmarking each *)
(* vertex popped, and append the popped vertices as one group.             *)
PopLoop(d, index, i, vertices) ==
  LET w  == d.stack[i]
      si == d.index[w]
      d1 == [d EXCEPT !.arrs[d.cur][si].stacked = FALSE]
  IN  IF si = index
      THEN [d1 EXCEPT !.stack = SubSeq(@, 1, i - 1),
                      !.output = Append(@, Append(vertices, w))]
      ELSE PopLoop(d1, index, i - 1, Append(vertices, w))

RECURSIVE StrongConnect(_, _, _), Neighbours(_, _, _, _, _),
          NeighboursLowThroughSlice(_, _, _, _, _)

(* Mutant: line 56 writes the lowLink through the slice,                 *)
(* data.nodes[index].lowLink = i, while line 62 reads it through node.    *)
NeighboursLowThroughSlice(Succ, v, p, j, d) ==
  IF j > Len(Succ[v]) THEN d
  ELSE LET w  == Succ[v][j]
           d2 == IF d.index[w] = -1
                 THEN LET r == StrongConnect(Succ, w, d)
                      IN  IF LowAt(r.d, r.ptr) < LowAt(r.d, p)
                          THEN SetLow(r.d, p, LowAt(r.d, r.ptr)) ELSE r.d
                 ELSE IF Stacked(d, d.index[w]) /\ d.index[w] < LowAt(d, p)
                 THEN SetLow(d, <<d.cur, p[2]>>, d.index[w])
                 ELSE d
       IN  NeighboursLowThroughSlice(Succ, v, p, j + 1, d2)

(* Lines 47-59: the successors of v from the j-th on.  An unseen one is   *)
(* explored and lends the lowLink its call returns a pointer to; a seen   *)
(* one still stacked lends its index.                                      *)
Neighbours(Succ, v, p, j, d) ==
  IF j > Len(Succ[v]) THEN d
  ELSE LET w  == Succ[v][j]
           d2 == IF d.index[w] = -1
                 THEN LET r == StrongConnect(Succ, w, d)
                      IN  IF LowAt(r.d, r.ptr) < LowAt(r.d, p)
                          THEN SetLow(r.d, p, LowAt(r.d, r.ptr)) ELSE r.d
                 ELSE IF Stacked(d, d.index[w]) /\ d.index[w] < LowAt(d, p)
                 THEN SetLow(d, p, d.index[w])
                 ELSE d
       IN  Neighbours(Succ, v, p, j + 1, d2)

(* strongConnect (lines 40-80): the state after it and the pointer node   *)
(* it returns.                                                             *)
StrongConnect(Succ, v, d) ==
  LET index == d.len
      d1 == AppendNode([d EXCEPT !.index[v] = index, !.stack = Append(@, v)],
                       [lowLink |-> index, stacked |-> TRUE])
      p  == <<d1.cur, index>>
      d2 == Neighbours(Succ, v, p, 1, d1)
  IN  [d   |-> IF LowAt(d2, p) = index THEN PopLoop(d2, index, Len(d2.stack), <<>>) ELSE d2,
       ptr |-> p]

(* Connections (lines 9-21): keys is the order of the range over the map. *)
(* The vertices are V; index[v] = -1 stands for "not in data.index".       *)
Connections(V, keys, Succ) ==
  LET c  == Len(keys)
      d0 == [arrs  |-> << [i \in 0 .. c - 1 |-> ZeroNode] >>, cur |-> 1,
             len   |-> 0, cap |-> c,
             index |-> [v \in V |-> -1], stack |-> <<>>, output |-> <<>>]
      Visit(d, i) == IF d.index[keys[i]] = -1
                     THEN StrongConnect(Succ, keys[i], d).d ELSE d
      RECURSIVE Loop(_, _)
      Loop(d, i) == IF i > c THEN d ELSE Loop(Visit(d, i), i + 1)
  IN  Loop(d0, 1).output

=============================================================================
