------------------------------ MODULE MCMerkle ------------------------------
(* Every entry of every ledger of up to MaxLeaves entries, beside RFC 6962, *)
(* section 2.1, which the code names: the tree of the leaves lo .. hi - 1   *)
(* is split at the largest power of two below their number.                 *)
EXTENDS Merkle

SplitAt(n) == CHOOSE k \in 1 .. n - 1 :
                /\ \E e \in 0 .. n : k = 2 ^ e
                /\ 2 * k >= n

RECURSIVE MTH(_, _)
MTH(lo, hi) ==
  IF hi - lo = 1 THEN LeafNode(lo)
  ELSE LET mid == lo + SplitAt(hi - lo) IN HashPair(MTH(lo, mid), MTH(mid, hi))

\* The root of every ledger is RFC 6962's, also when its length is no power of
\* two and nodes are promoted, over several levels or in the middle of a climb.
RootIsMTH == AtRoot => nodes[1] = MTH(0, size)
=============================================================================
