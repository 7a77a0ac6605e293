------------------------------ MODULE MCBatches ------------------------------
(***************************************************************************)
(* A batch of two tasks; another batch would be one more of those who      *)
(* advance its tasks while it waits.                                       *)
(***************************************************************************)
EXTENDS Batches

CONSTANTS t1, t2

MCScopes == [first |-> <<t1, t2>>]

=============================================================================
