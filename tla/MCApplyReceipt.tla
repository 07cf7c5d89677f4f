---------------------------- MODULE MCApplyReceipt ----------------------------
(* Instances of ApplyReceipt: receipts and calls are model values.           *)
EXTENDS ApplyReceipt

CONSTANTS r1, r2
=============================================================================
