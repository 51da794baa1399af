SPECIFICATION MerkleSpec
CONSTANT MaxLeaves = 20
INVARIANTS RootIsMTH ProofBinds
