---------------------------- MODULE MC_MerkleTree ----------------------------
(***************************************************************************)
(* The Merkle tree of src/evm/splashmerkle on every input of up to         *)
(* MaxSmall values drawn from three, repeats included, and on inputs of    *)
(* distinct values 1..n for every n up to MaxInputs: past 2^(MAXDEPTH+1), *)
(* the most a proof reaches, so that the depth bound is crossed.           *)
(* Value 0 is never an input: it is the target that is not included.      *)
(***************************************************************************)
EXTENDS MerkleTree, FiniteSets

MaxSmall  == 6
MaxInputs == 34

Inputs ==
  UNION {[1 .. n -> 1 .. 3] : n \in 0 .. MaxSmall}
    \cup {[j \in 1 .. n |-> j] : n \in 1 .. MaxInputs}

(* An input value as a chunk of bytes, distinct from every hash.          *)
Chunk(v) == [val |-> v]
Bytes(s) == [j \in DOMAIN s |-> Chunk(s[j])]

VARIABLES input, result

(* The tree of the input and a proof for every value it holds and for 0.   *)
Init ==
  /\ input \in Inputs
  /\ result = [done |-> FALSE]

Analyse ==
  /\ ~result.done
  /\ LET tree == ConstructTree(Bytes(input))
     IN  result' = [done   |-> TRUE,
                    tree   |-> tree,
                    proofs |-> [v \in Range(input) \cup {0} |-> GenerateProofFor(tree, <<Chunk(v)>>)]]
  /\ UNCHANGED input

Done ==
  /\ result.done
  /\ UNCHANGED <<input, result>>

Spec == Init /\ [][Analyse \/ Done]_<<input, result>>

-----------------------------------------------------------------------------
(* The height of the tree ConstructTree builds: at least one hash above   *)
(* the inputs, and enough halvings to bring them to one.                  *)
Height(n) == CHOOSE d \in 1 .. n + 1 : 2 ^ d >= n /\ (d = 1 \/ 2 ^ (d - 1) < n)

RECURSIVE RefRoot(_, _)
(* The reference root, top-down: a tree of height d over s puts the first *)
(* 2^(d-1) values under its left child and the rest under its right one; *)
(* a child with nothing on its right is hashed alone.                     *)
RefRoot(s, d) ==
  IF d = 0 THEN <<Chunk(s[1])>>
  ELSE IF Len(s) <= 2 ^ (d - 1) THEN Hash(RefRoot(s, d - 1))
  ELSE Hash(RefRoot(SubSeq(s, 1, 2 ^ (d - 1)), d - 1)
            \o RefRoot(SubSeq(s, 2 ^ (d - 1) + 1, Len(s)), d - 1))

(* ConstructTree's root is the reference Merkle root of its inputs (blank *)
(* for none), whatever their number: the bottom-up layers of              *)
(* generateLayerFrom, with math.Round rounding an odd count up and the    *)
(* sibling pointers choosing what is hashed together, agree with the      *)
(* top-down definition.  GenerateMultiSigAddress takes an address from it. *)
RootMatchesReference ==
  result.done =>
    result.tree.Root = IF input = <<>> THEN Blank ELSE RefRoot(input, Height(Len(input)))

(* The test's claim (merkle_test.go 56-63) for the first input, on every  *)
(* tree a proof can span: GenerateProofFor walks at most MAXDEPTH levels  *)
(* above the first, so up to 2^(MAXDEPTH+1) inputs its proof of the first *)
(* input returns without panic and Verify accepts it against the root,   *)
(* and the value that is not an input gets an error.                      *)
FirstProofVerifies ==
  result.done /\ input # <<>> /\ Len(input) <= 2 ^ (MAXDEPTH + 1) =>
    LET p == result.proofs[input[1]]
    IN  /\ ~p.err /\ ~p.panic
        /\ Verify(p, result.tree.Root)
        /\ result.proofs[0].err

(* merkle_test.go 56-63 expects GenerateProofFor to give, for an input of *)
(* the tree, a proof that Verify accepts against the root; for any input, *)
(* not only the first, on a tree a proof can span.                        *)
ProofComplete ==
  result.done /\ Len(input) <= 2 ^ (MAXDEPTH + 1) =>
    \A v \in Range(input) :
      LET p == result.proofs[v]
      IN  ~p.err /\ ~p.panic /\ Verify(p, result.tree.Root)

=============================================================================
