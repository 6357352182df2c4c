---------------------------- MODULE MCComponents ----------------------------
(* Four components that share no state, model-checked in one run: the initial
   state chooses the one whose steps the behaviour takes. *)
EXTENDS BackendPool, PoolRetirement, WorkspaceReads, WorkspaceHydration

VARIABLE part

vars == <<part, poolVars, retVars, readVars, hydrationVars>>

\* The other components are held at an initial state, in which no step of theirs
\* that is subject to fairness is enabled.
ReferenceRet == RetInit /\ link = [c \in Clients |-> "absent"]
ReferenceHydration == HydrationInit /\ resolved = {}

ComponentsInit ==
  /\ part \in {"pool", "retirement", "reads", "hydration"}
  /\ PoolInit /\ ReadsInit
  /\ IF part = "retirement" THEN RetInit ELSE ReferenceRet
  /\ IF part = "hydration" THEN HydrationInit ELSE ReferenceHydration

ComponentsNext ==
  /\ UNCHANGED part
  /\ \/ /\ part = "pool" /\ PoolNext
        /\ UNCHANGED <<retVars, readVars, hydrationVars>>
     \/ /\ part = "retirement" /\ RetNext
        /\ UNCHANGED <<poolVars, readVars, hydrationVars>>
     \/ /\ part = "reads" /\ ReadsNext
        /\ UNCHANGED <<poolVars, retVars, hydrationVars>>
     \/ /\ part = "hydration" /\ HydrationNext
        /\ UNCHANGED <<poolVars, retVars, readVars>>

\* PoolFairness, RetFairness and HydrationFairness, each of them while its part is
\* played.
ComponentsFairness ==
  /\ \A i \in Ids : /\ WF_poolVars(part = "pool" /\ BuildStep(i))
                    /\ WF_poolVars(part = "pool" /\ Notified(i))
  /\ WF_poolVars(part = "pool" /\ \E i \in Ids : LaneStep(i))
  /\ \A k \in Clients :
       /\ WF_retVars(part = "retirement" /\ (Connects(k) \/ Drops(k)))
       /\ WF_retVars(part = "retirement" /\ Redials(k))
       /\ WF_retVars(part = "retirement" /\ SocketCloses(k))
       /\ WF_retVars(part = "retirement" /\ MemberJoins(k))
       /\ WF_retVars(part = "retirement" /\ MemberWakes(k))
       /\ WF_retVars(part = "retirement" /\ MemberFinishes(k))
  /\ \A x \in Callers : WF_retVars(part = "retirement" /\ Settles(x))
  /\ \A x \in Works : WF_retVars(part = "retirement" /\ WorkEnds(x))
  /\ WF_retVars(part = "retirement" /\ FenceOpens)
  /\ WF_retVars(part = "retirement" /\ PoolWakes)
  /\ WF_retVars(part = "retirement" /\ PoolFinishes)
  /\ \A ws \in Workspaces :
       /\ WF_hydrationVars(part = "hydration" /\ TimerFires(ws))
       /\ WF_hydrationVars(part = "hydration" /\ WaitExpires(ws))

ComponentsSpec == ComponentsInit /\ [][ComponentsNext]_vars /\ ComponentsFairness

\* Every variable of the four components stays in its range.
ComponentsTypeOK == PoolTypeOK /\ RetTypeOK /\ ReadsTypeOK /\ HydrationTypeOK

=============================================================================
