------------------------------ MODULE MCLedger ------------------------------
(* Three deploys that end on one control node, in any overlap.              *)
EXTENDS Ledger
=============================================================================
