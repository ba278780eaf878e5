-------------------------- MODULE MCIbkrLifecycle --------------------------
(* Instances of IbkrLifecycle for TLC.                                     *)
EXTENDS IbkrLifecycle, TLC

BuyOnly == {1}
BuyAndSell == {1, -1}

(* Rows, orders and scans are interchangeable; used for safety only.       *)
Symmetry == Permutations(RowIds) \cup Permutations(OrderIds) \cup Permutations(Scans)

=============================================================================
