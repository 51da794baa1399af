------------------------- MODULE MCIncrementalPlan --------------------------
(* One scope with two servers and two files.                                *)
EXTENDS IncrementalPlan, TLC

All == {Servers}
AnyLimit == SUBSET Servers \ {{}}
Interchangeable == Permutations(Files) \union Permutations(Servers)
=============================================================================
