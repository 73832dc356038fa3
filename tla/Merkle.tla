------------------------------- MODULE Merkle -------------------------------
(***************************************************************************)
(* pkg/merkle: the Merkle tree of a collection, its proofs, and the        *)
(* snapshot pipeline that the tree's root protects.  SHA-256 is ideal: the *)
(* hash of some data is the data itself in a record, so two hashes are     *)
(* equal just when what was hashed is.  A node is its hash, and the hash   *)
(* of a node holds its children.                                           *)
(***************************************************************************)
EXTENDS Fences, FiniteSetsExt

Hash(x) == [of |-> x]

\* NewTree hashes a fence without its signature.
Leaf(id, f) == Hash(<<id, f.fields, f.geometry, f.keyID>>)

\* The place of an identifier when they are sorted.
Place(ids, id) == Cardinality({i \in ids : i <= id})

\* The sorted leaves of a collection.
Leaves(c) ==
  [n \in 1..Cardinality(Present(c)) |->
     LET id == CHOOSE i \in Present(c) : Place(Present(c), i) = n
     IN Leaf(id, c[id])]

\* One round of buildTree: nodes are paired, an odd one is hashed alone.
Level(nodes) ==
  [i \in 1..(Len(nodes) + 1) \div 2 |->
     Hash(IF 2 * i <= Len(nodes) THEN <<nodes[2 * i - 1], nodes[2 * i]>>
          ELSE <<nodes[2 * i - 1]>>)]

\* The nodes after each number of rounds.
Levels(nodes) ==
  LET level[k \in Nat] == IF k = 0 THEN nodes ELSE Level(level[k - 1])
  IN level

\* The rounds until one node is left, the root.
Height(nodes) == Min({k \in 0..Len(nodes) : Len(Levels(nodes)[k]) = 1})
BuildTree(nodes) == Levels(nodes)[Height(nodes)][1]

\* RootHash: all zeros for the empty tree.
RootHash(c) ==
  IF Present(c) = {} THEN Hash(<<>>) ELSE BuildTree(Leaves(c))

-----------------------------------------------------------------------------
(* Proofs. *)

\* The place of the parent, and the node's sibling if it has one.
Parent(i) == (i + 1) \div 2
Sibling(nodes, i) ==
  IF i % 2 = 0 THEN <<nodes[i - 1]>>
  ELSE IF i < Len(nodes) THEN <<nodes[i + 1]>>
  ELSE <<>>

\* The hashes from the root down.
WalkDownwards(leaves, i) ==
  LET walk[k \in Nat] ==
        IF k = 0 THEN [at |-> i, proof |-> <<>>]
        ELSE LET w == walk[k - 1] IN
             [at    |-> Parent(w.at),
              proof |-> Sibling(Levels(leaves)[k - 1], w.at) \o w.proof]
  IN walk

\* The loop of GetProof from leaf i up: where it is after each number of rounds,
\* and the siblings it has noted; a node without a sibling adds nothing.
Walk(leaves, i) ==
  LET walk[k \in Nat] ==
        IF k = 0 THEN [at |-> i, proof |-> <<>>]
        ELSE LET w == walk[k - 1] IN
             [at    |-> Parent(w.at),
              proof |-> w.proof \o Sibling(Levels(leaves)[k - 1], w.at)]
  IN walk

GetProof(c, id) ==
  Walk(Leaves(c), Place(Present(c), id))[Height(Leaves(c))].proof

\* VerifyProof: the sibling goes to the right, and the pair is hashed twice.
VerifyProof(leaf, proof, root) ==
  LET hash[n \in Nat] ==
        IF n = 0 THEN leaf ELSE Hash(<<Hash(<<hash[n - 1], proof[n]>>)>>)
  IN hash[Len(proof)] = root

\* What a verifier that knows the leaf's place i among n leaves computes: after
\* k rounds, the hash of a node, its place among how many, and the hashes of
\* the proof that are left.
Rebuild(leaf, i, n, proof) ==
  LET built[k \in Nat] ==
        IF k = 0 THEN [hash |-> leaf, at |-> i, among |-> n, left |-> proof]
        ELSE LET b == built[k - 1]
                 alone == b.at = b.among /\ b.at % 2 = 1
             IN [hash  |-> Hash(IF alone THEN <<b.hash>>
                                ELSE IF b.at % 2 = 1 THEN <<b.hash, Head(b.left)>>
                                ELSE <<Head(b.left), b.hash>>),
                 at    |-> Parent(b.at),
                 among |-> Parent(b.among),
                 left  |-> IF alone THEN b.left ELSE Tail(b.left)]
  IN built

\* The hash at the top.
Rebuilt(leaf, i, n, proof) ==
  LET built == Rebuild(leaf, i, n, proof) IN
  built[Min({k \in 0..n : built[k].among = 1})].hash

-----------------------------------------------------------------------------
(* Snapshots. *)

\* The file Publish writes.
CreateSnapshot(c) == FenceCollectionToProto(c)
=============================================================================
