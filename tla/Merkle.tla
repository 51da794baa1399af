------------------------------- MODULE Merkle -------------------------------
(***************************************************************************)
(* ledger.py: the Merkle tree over the ledger's leaf hashes, which `audit  *)
(* prove` uses and which seals log archives: `inclusion_proof` climbs the  *)
(* tree level by level and collects the siblings of one leaf,              *)
(* `merkle_root` climbs the same levels, `verify_inclusion` folds the      *)
(* siblings into the leaf that it is given.                                *)
(*                                                                         *)
(* A hash is the value it is computed from: <<leaf>> or <<left, right>>.   *)
(***************************************************************************)
EXTENDS Integers, Sequences

CONSTANTS MaxLeaves   \* bound on the length of the ledger

ASSUME MaxLeavesAssumption == MaxLeaves \in Nat \ {0}

VARIABLES
  size, index,   \* the ledger's length and the entry to prove, from 0
  nodes,         \* the level the climb has reached
  idx,           \* the place on it of the node over the entry, from 0
  proof,         \* the siblings so far: [hash, side]
  claimed,       \* the entry whose leaf is verified with this proof, or NoEntry
  folded,        \* the hash that verify_inclusion has come to
  used           \* the siblings it has folded in

merkleVars == <<size, index, nodes, idx, proof, claimed, folded, used>>

NoEntry == -1

\* Fault: the leaf hash leaves out the number of the entry, and deploys that went
\* alike have one leaf.
LeafNodeOfEvent(i) == <<i \div 2>>
LeafNode(i) == <<i>>
HashPair(left, right) == <<left, right>>

MerkleTypeOK ==
  /\ size \in 1 .. MaxLeaves /\ index \in 0 .. size - 1
  /\ Len(nodes) \in 1 .. size /\ DOMAIN nodes = 1 .. Len(nodes)
  /\ idx \in 0 .. Len(nodes) - 1
  /\ DOMAIN proof = 1 .. Len(proof)
  /\ \A p \in DOMAIN proof : proof[p].side \in {"L", "R"}
  /\ claimed \in {NoEntry} \union 0 .. size - 1 /\ used \in 0 .. Len(proof)

-----------------------------------------------------------------------------
\* Fault: a lone node is paired with itself.
ParentsDoubled(level) ==
  [k \in 1 .. (Len(level) + 1) \div 2 |->
     HashPair(level[2 * k - 1], level[IF 2 * k <= Len(level) THEN 2 * k ELSE 2 * k - 1])]

\* The next level: pairs from the left; a lone node is promoted unchanged.
Parents(level) ==
  [k \in 1 .. (Len(level) + 1) \div 2 |->
     IF 2 * k <= Len(level) THEN HashPair(level[2 * k - 1], level[2 * k])
                            ELSE level[2 * k - 1]]

\* The sibling of the node at i (from 0), if it has one.
Sibling(level, i) ==
  IF i % 2 = 1 THEN <<[hash |-> level[i], side |-> "L"]>>
  ELSE IF i + 1 < Len(level) THEN <<[hash |-> level[i + 2], side |-> "R"]>>
  ELSE <<>>

ParentIndex(i) == i \div 2

Join(h, sibling) ==
  IF sibling.side = "L" THEN HashPair(sibling.hash, h) ELSE HashPair(h, sibling.hash)

MerkleInit ==
  /\ size \in 1 .. MaxLeaves
  /\ index \in 0 .. size - 1
  /\ nodes = [i \in 1 .. size |-> LeafNode(i - 1)]
  /\ idx = index
  /\ proof = <<>>
  /\ claimed = NoEntry /\ folded = <<>> /\ used = 0

\* One turn of the while loop.
Climb ==
  /\ Len(nodes) > 1
  /\ proof' = proof \o Sibling(nodes, idx)
  /\ nodes' = Parents(nodes)
  /\ idx' = ParentIndex(idx)
  /\ UNCHANGED <<size, index, claimed, folded, used>>

AtRoot == Len(nodes) = 1

\* verify_inclusion is given the proof with the leaf of any entry.
VerifyInclusion ==
  /\ AtRoot /\ claimed = NoEntry
  /\ claimed' \in 0 .. size - 1
  /\ folded' = LeafNode(claimed') /\ used' = 0
  /\ UNCHANGED <<size, index, nodes, idx, proof>>

\* One turn of its for loop.
Fold ==
  /\ claimed # NoEntry /\ used < Len(proof)
  /\ folded' = Join(folded, proof[used + 1]) /\ used' = used + 1
  /\ UNCHANGED <<size, index, nodes, idx, proof, claimed>>

Verified == claimed # NoEntry /\ used = Len(proof)
Finished == Verified /\ UNCHANGED merkleVars

MerkleNext == Climb \/ VerifyInclusion \/ Fold \/ Finished

MerkleSpec == MerkleInit /\ [][MerkleNext]_merkleVars

-----------------------------------------------------------------------------
\* The proof of an entry, built level by level beside the climb, verifies for
\* this entry and for no other entry of the ledger.
ProofBinds == Verified => (folded = nodes[1] <=> claimed = index)
=============================================================================
