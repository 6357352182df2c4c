------------------------ MODULE MCDeltaSubscription ------------------------
(* DeltaSubscription on small sets of channels and rows.                   *)
EXTENDS DeltaSubscription, TLC

\* Rows are told apart by nothing but their names, and so are channels, of
\* which Init picks one only to give unused attempts a channel.
RowSymmetry == Permutations(Rows)

=============================================================================
