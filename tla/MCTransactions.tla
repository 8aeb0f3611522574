--------------------------- MODULE MCTransactions ---------------------------
(* Instances of TransactionCoordinator for TLC. *)
EXTENDS TransactionCoordinator

CONSTANTS t1, t2, a
=============================================================================
