------------------------------ MODULE TarjanSCC ------------------------------
(***************************************************************************)
(* Tarjan's strongly connected components as written in                    *)
(* src/graph/tarjanscc.go (type tarjanscc), as pure operators.  The graph  *)
(* is the adjacency list handed to NewTarjanSCC: a function from 0..n-1 to *)
(* the sequence of successors of each vertex (duplicates kept).            *)
(*                                                                         *)
(* The fields of tarjanscc are a record threaded through the recursion:    *)
(* time, low, disc, stackMember (a set), st (a sequence, top last) and     *)
(* sccList (a sequence of the components' sorted vertex lists).            *)
(***************************************************************************)
EXTENDS Integers, Sequences, SequencesExt

Nodes(g) == DOMAIN g

(* min(x, y) of tarjanscc.go; a name of its own to stay clear of Min.     *)
MinOfTwo(x, y) == IF x < y THEN x ELSE y

(* The component popped when low[u] = disc[u]: the stack from u up.       *)
Popped(st, u) ==
  LET at == CHOOSE i \in DOMAIN st : st[i] = u
  IN  [i \in 1 .. Len(st) - at + 1 |-> st[at + i - 1]]

(* Mutant: line 120 left out, popped vertices stay stack members.        *)
CloseComponentKeepMember(s, u) ==
  IF s.low[u] # s.disc[u] THEN s
  ELSE LET c == Popped(s.st, u)
       IN  [s EXCEPT !.st      = SubSeq(@, 1, Len(@) - Len(c)),
                     !.sccList = Append(@, SortSeq(c, <))]

(* Lines 112-131: if u is the root of a component, pop it off the stack   *)
(* and append its vertices, sorted, to sccList.                            *)
CloseComponent(s, u) ==
  IF s.low[u] # s.disc[u] THEN s
  ELSE LET c == Popped(s.st, u)
       IN  [s EXCEPT !.st          = SubSeq(@, 1, Len(@) - Len(c)),
                     !.stackMember = @ \ Range(c),
                     !.sccList     = Append(@, SortSeq(c, <))]

RECURSIVE SCCUtil(_, _, _), Neighbours(_, _, _, _)

(* Lines 98-110: the successors of u from the i-th on.  An unvisited one  *)
(* is explored and lends its low; one on the stack lends its disc.         *)
Neighbours(g, u, i, s) ==
  IF i > Len(g[u]) THEN s
  ELSE LET v  == g[u][i]
           s2 == IF s.disc[v] = -1
                 THEN LET r == SCCUtil(g, v, s)
                      IN  [r EXCEPT !.low[u] = MinOfTwo(r.low[u], r.low[v])]
                 ELSE IF v \in s.stackMember
                 THEN [s EXCEPT !.low[u] = MinOfTwo(s.low[u], s.disc[v])]
                 ELSE s
       IN  Neighbours(g, u, i + 1, s2)

(* SCCUtil (lines 88-132).                                                 *)
SCCUtil(g, u, s) ==
  LET s1 == [s EXCEPT !.low[u]      = s.time,
                      !.disc[u]     = s.time,
                      !.time        = @ + 1,
                      !.stackMember = @ \cup {u},
                      !.st          = Append(@, u)]
  IN  CloseComponent(Neighbours(g, u, 1, s1), u)

(* SCC (lines 65-85): a depth-first search from every unvisited vertex    *)
(* in index order; the components in the order sccList receives them.     *)
SCCs(g) ==
  LET n  == Cardinality(Nodes(g))
      s0 == [time |-> 0,
             low  |-> [v \in Nodes(g) |-> -1],
             disc |-> [v \in Nodes(g) |-> -1],
             stackMember |-> {}, st |-> <<>>, sccList |-> <<>>]
      Visit(s, v) == IF s.disc[v] = -1 THEN SCCUtil(g, v, s) ELSE s
  IN  FoldLeft(Visit, s0, [i \in 1 .. n |-> i - 1]).sccList

=============================================================================
