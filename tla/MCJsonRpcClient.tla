-------------------------- MODULE MCJsonRpcClient --------------------------
(***************************************************************************)
(* TLC instances of JsonRpcClient and its refinement mapping.  The slots   *)
(* are model values; the cfg files choose how many of each kind a run has. *)
(***************************************************************************)
EXTENDS JsonRpcClientRefinement, TLC

\* The slots of one kind are interchangeable, and no definition chooses among
\* them; used only by runs without liveness properties.
Symmetry ==
  Permutations(Requests) \cup Permutations(Hellos) \cup Permutations(Reverse)

=============================================================================
