------------------------- MODULE MCComponentsProofs -------------------------
(***************************************************************************)
(* MCComponents is each of its parts, the others held still: what is true  *)
(* of a part is true of the whole.                                         *)
(***************************************************************************)
EXTENDS MCComponents, BackendPoolProofs, PoolRetirementProofs, WorkspaceProofs

\* A behaviour of the whole is one of every part.
LEMMA PartsRun ==
  ComponentsSpec => PoolSpec /\ RetSpec /\ ReadsSpec /\ HydrationSpec
<1>1. ComponentsInit => PoolInit /\ RetInit /\ ReadsInit /\ HydrationInit
  BY DEF ComponentsInit, ReferenceRet, ReferenceHydration
<1>2. [ComponentsNext]_vars => /\ [PoolNext]_poolVars /\ [RetNext]_retVars
                               /\ [ReadsNext]_readVars
                               /\ [HydrationNext]_hydrationVars
  BY DEF ComponentsNext, vars
<1>3. QED
  BY <1>1, <1>2, PTL DEF ComponentsSpec, PoolSpec, RetSpec, ReadsSpec,
                         HydrationSpec

\* Whichever part is played, the variables of all keep their types.
THEOREM ComponentsTyped == ComponentsSpec => []ComponentsTypeOK
<1>1. PoolTypeOK /\ RetTypeOK /\ ReadsTypeOK /\ HydrationTypeOK
        => ComponentsTypeOK
  BY DEF ComponentsTypeOK
<1>2. QED
  BY <1>1, PartsRun, PoolTyped, RetirementTyped, ReadsTyped, HydrationTyped, PTL

=============================================================================
