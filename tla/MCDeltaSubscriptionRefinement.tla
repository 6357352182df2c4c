------------------- MODULE MCDeltaSubscriptionRefinement -------------------
(* DeltaSubscription and the view it implements, on small sets.            *)
EXTENDS DeltaSubscriptionRefinement, TLC

\* Rows are told apart by nothing but their names, in the histories too.
RowSymmetry == Permutations(Rows)

=============================================================================
