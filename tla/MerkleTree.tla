----------------------------- MODULE MerkleTree -----------------------------
(***************************************************************************)
(* The Merkle tree of src/evm/splashmerkle (tree.go, proof.go, leaf.go) as *)
(* pure operators: ConstructTree, IncludesInput, GetIndex, GenerateProofFor *)
(* and Verify.                                                             *)
(*                                                                         *)
(* A byte string is a sequence of chunks: an input value, or a hash.       *)
(* append(a, b...) is a \o b and nil is <<>>.  utils.Hash is ideal: the    *)
(* hash of s is the record [hash |-> s], so two hashes are equal exactly   *)
(* when what they hash is.  This keeps the chunks of a concatenation apart, *)
(* as fixed-width inputs (the 33-byte keys of GenerateMultiSigAddress, the *)
(* 32-byte hashes of the test) do.                                         *)
(*                                                                         *)
(* tree.Nodes is a sequence of nodes [H, isLeaf, sib]; sib is the index    *)
(* of the node GetSibling returns, 0 for nil.  The Go pointers point into  *)
(* arrays that append later copies; nothing is written after construction, *)
(* so the copy and the original agree and an index stands for both.        *)
(***************************************************************************)
EXTENDS Integers, Sequences, SequencesExt

(* proof.go 11.                                                            *)
MAXDEPTH == 4

(* utils.Hash (utils/utils.go 27-31), ideal.                             *)
Hash(s) == <<[hash |-> s]>>

(* GetSibling, leaf.go 18-26: the node's SiblingLeft, else SiblingRight,  *)
(* else nil (0).  No node has both, so one index field holds either.      *)
GetSibling(nodes, n) == nodes[n].sib

(* blankNode.H, the root of a tree with no inputs (tree.go 17).            *)
Blank == <<>>

(* constructBase, tree.go 19-41: each input a node; an odd (0-based)      *)
(* position is the right sibling of the one before, every other position *)
(* is a left one (isLeaf), with or without a right sibling.               *)
ConstructBase(input) ==
  [i \in 1 .. Len(input) |->
     [H      |-> <<input[i]>>,
      isLeaf |-> i % 2 = 1,
      sib    |-> IF i % 2 = 0 THEN i - 1 ELSE IF i < Len(input) THEN i + 1 ELSE 0]]

(* Mutant: int(inNodesCount / 2) parents, dropping a lone last node.      *)
GenerateLayerFromFloor(nodes, off, cnt) ==
  [o \in 1 .. cnt \div 2 |->
     LET left == nodes[off + 2 * o - 1]
     IN  [H |-> Hash(left.H \o nodes[left.sib].H), isLeaf |-> o % 2 = 1 /\ o < cnt \div 2,
          sib |-> IF o % 2 = 1 /\ o < cnt \div 2 THEN Len(nodes) + o + 1
                  ELSE IF o % 2 = 0 THEN Len(nodes) + o - 1 ELSE 0]]

(* generateLayerFrom, tree.go 43-80, on the layer of cnt nodes after     *)
(* position off of nodes: math.Round(cnt/2) parents, each the hash of a  *)
(* left node and its sibling, or of a lone node alone.  Only an even     *)
(* parent that is not the last becomes a left node with a sibling: the   *)
(* last parent of an odd layer has neither sibling nor isLeaf.            *)
GenerateLayerFrom(nodes, off, cnt) ==
  LET out == (cnt + 1) \div 2
      end == Len(nodes)
  IN  [o \in 1 .. out |->
         LET i      == off + 2 * o - 1
             right  == GetSibling(nodes, i)
             paired == o % 2 = 1 /\ o < out
         IN  [H      |-> IF right = 0 THEN Hash(nodes[i].H)
                         ELSE Hash(nodes[i].H \o nodes[right].H),
              isLeaf |-> paired,
              sib    |-> IF paired THEN end + o + 1
                         ELSE IF o % 2 = 0 THEN end + o - 1 ELSE 0]]

RECURSIVE Grow(_, _, _)
(* The loop of ConstructTree, tree.go 89-102: add layers until one has    *)
(* one node, the root, or none (only for no inputs), the blank root.      *)
Grow(nodes, off, cnt) ==
  LET layer == GenerateLayerFrom(nodes, off, cnt)
      all   == nodes \o layer
  IN  IF Len(layer) = 1 THEN [Nodes |-> all, Root |-> layer[1].H]
      ELSE IF Len(layer) = 0 THEN [Nodes |-> all, Root |-> Blank]
      ELSE Grow(all, Len(nodes), Len(layer))

(* ConstructTree, tree.go 84-103, with tree.Inputs set by constructBase.   *)
ConstructTree(input) ==
  Grow(ConstructBase(input), 0, Len(input)) @@ [Inputs |-> Len(input)]

(* IncludesInput, tree.go 105-112: only the base layer is searched.       *)
IncludesInput(tree, x) == \E i \in 1 .. tree.Inputs : tree.Nodes[i].H = x

(* GetIndex, proof.go 123-132: the first node holding target, and index  *)
(* 0, the first node, when none does.                                     *)
GetIndex(tree, target) ==
  LET at == {i \in DOMAIN tree.Nodes : tree.Nodes[i].H = target}
  IN  IF at = {} THEN 1 ELSE Min(at)

(* Mutant: the helper takes the flag of node n, not of its sibling.       *)
HelperOwnFlag(tree, n, buf) ==
  IF tree.Nodes[n].sib # 0
  THEN [H |-> tree.Nodes[tree.Nodes[n].sib].H, isLeaf |-> tree.Nodes[n].isLeaf]
  ELSE [H |-> buf, isLeaf |-> tree.Nodes[n].isLeaf]

(* The proof helper for node n, whose own hash is buf (proof.go 76-83 and *)
(* 107-114): its sibling, or buf itself when it has none.                 *)
Helper(tree, n, buf) ==
  LET sib == GetSibling(tree.Nodes, n)
  IN  IF sib # 0 THEN [H |-> tree.Nodes[sib].H, isLeaf |-> tree.Nodes[sib].isLeaf]
      ELSE [H |-> buf, isLeaf |-> tree.Nodes[n].isLeaf]

RECURSIVE ProofLoop(_, _, _, _)
(* Iteration i of the loop of GenerateProofFor, proof.go 85-115, from     *)
(* node index.  A node that is not a left node takes its sibling as the   *)
(* left one; when it has none, leftNode is nil and leftNode.H panics.     *)
ProofLoop(tree, index, proof, i) ==
  IF i = MAXDEPTH THEN proof
  ELSE
    LET node  == tree.Nodes[index]
        left  == IF node.isLeaf THEN index ELSE GetSibling(tree.Nodes, index)
        right == IF node.isLeaf THEN GetSibling(tree.Nodes, index) ELSE index
    IN  IF right # 0 /\ left = 0 THEN [proof EXCEPT !.panic = TRUE]
        ELSE
          LET buf  == IF right # 0 THEN Hash(tree.Nodes[left].H \o tree.Nodes[right].H)
                      ELSE Hash(tree.Nodes[left].H)
              next == GetIndex(tree, buf)
          IN  IF next >= Len(tree.Nodes) THEN proof
              ELSE ProofLoop(tree, next,
                             [proof EXCEPT !.helpers = Append(@, Helper(tree, next, buf))],
                             i + 1)

(* GenerateProofFor, proof.go 59-118: an error for a target that is not an *)
(* input; otherwise the sibling of the target (or nil) and one helper per *)
(* level, for at most MAXDEPTH levels above the first.                    *)
GenerateProofFor(tree, target) ==
  IF ~IncludesInput(tree, target)
  THEN [err |-> TRUE, panic |-> FALSE, Target |-> <<>>, isTargetLeft |-> FALSE, helpers |-> <<>>]
  ELSE LET index == GetIndex(tree, target)
       IN  ProofLoop(tree, index,
                     [err |-> FALSE, panic |-> FALSE, Target |-> target,
                      isTargetLeft |-> tree.Nodes[index].isLeaf,
                      helpers |-> <<Helper(tree, index, <<>>)>>],
                     0)

(* Verify, proof.go 25-51: hash the target with the first helper on the   *)
(* side isTargetLeft says, then each later helper in front of the running *)
(* hash when it is a left node and behind it otherwise.                   *)
Verify(proof, merklerootHash) ==
  LET h0    == proof.helpers[1]
      first == IF proof.isTargetLeft THEN Hash(proof.Target \o h0.H)
               ELSE Hash(h0.H \o proof.Target)
      step(hash, hp) == IF hp.isLeaf THEN Hash(hp.H \o hash) ELSE Hash(hash \o hp.H)
  IN  FoldLeft(step, first, Tail(proof.helpers)) = merklerootHash

=============================================================================
