------------------------- MODULE WorkspaceHydration -------------------------
(***************************************************************************)
(* The hydration of the workspaces that are mounted in the renderer        *)
(* (lifecycle-ipc-read-saga.ts, the tier scheduler of                      *)
(* workspace-read-scheduler.ts).                                           *)
(*                                                                         *)
(* A mount begins a generation: the branches something visible needs are   *)
(* requested at once, the others when they become visible or when a timer  *)
(* fires.  A branch that reads the worktree first waits, for a bounded     *)
(* time, until the workspace's path is known.  A reconnect or a switch of  *)
(* the backend begins the generation of every mounted workspace anew.      *)
(*                                                                         *)
(* One action is one turn of the saga: the puts and selects of a worker    *)
(* run to its next delay or race without another worker in between.        *)
(***************************************************************************)
EXTENDS Naturals, FiniteSets

CONSTANTS Workspaces,
          Pathless,    \* workspaces that never have a path: chief and root
          Branches,    \* WORKSPACE_HYDRATION_BRANCHES
          Always,      \* branches that are always critical
          Worktree,    \* branches that wait for a resolved path
          MaxGen       \* bound: generations begun

ASSUME HydrationAssumption ==
  /\ Pathless \subseteq Workspaces /\ IsFiniteSet(Workspaces)
  /\ Always \subseteq Branches /\ Worktree \subseteq Branches /\ MaxGen \in Nat

VARIABLES
  mounted,     \* mountedWorkspaceIds
  genOf,       \* each workspace's generation in the scheduler, 0 for none
  lastGen,     \* nextGeneration
  deferred,    \* each generation's pending branches
  timer,       \* the generation each workspace's deferred worker waits for
  awaiting,    \* the path waits: workspace, branch, generation
  resolved,    \* workspaces whose path is known
  loads,       \* history: what the generations of now have had loaded
  givenUp      \* history: their path waits that ended without a path

hydrationVars == <<mounted, genOf, lastGen, deferred, timer, awaiting, resolved,
                   loads, givenUp>>

HydrationInit ==
  /\ mounted = {} /\ lastGen = 0 /\ genOf = [w \in Workspaces |-> 0]
  /\ deferred = [w \in Workspaces |-> {}] /\ timer = [w \in Workspaces |-> 0]
  /\ awaiting = {} /\ resolved \in SUBSET (Workspaces \ Pathless)
  /\ loads = {} /\ givenUp = {}

-----------------------------------------------------------------------------

Request(w, b, g) == [ws |-> w, branch |-> b, gen |-> g]
RequestsOf(w, bs, g) == {Request(w, b, g) : b \in bs}
Of(requests, ws) == {x \in requests : x.ws \in ws}

\* The branches some set of visible panels and tabs needs, beside those that are
\* always critical: deriveCriticalHydrationBranches().
Critical == {bs \in SUBSET Branches : Always \subseteq bs}

\* A request that has to wait for its workspace's path, or will never have one.
Waits(x) == x.branch \in Worktree /\ x.ws \notin resolved \cup Pathless
Dropped(x) == x.branch \in Worktree /\ x.ws \in Pathless

\* dispatchHydrationBranch() of the new requests, beside the path waits, the loads
\* and the waits given up so far.
Dispatches(new, waits, done, gone) ==
  /\ awaiting' = waits \cup {x \in new : Waits(x)}
  /\ givenUp' = gone \cup {x \in new : Dropped(x)}
  /\ loads' = done \cup {x \in new : ~Waits(x) /\ ~Dropped(x)}

\* Mutant of NewGenerations: the counter is read again after it was advanced.
SkippedGenerations(ws) ==
  {f \in [ws -> (lastGen + 2)..(lastGen + 1 + Cardinality(ws))] :
     \A v, w \in ws : f[v] = f[w] => v = w}

\* The numbers of the generations that begin for ws, in some order.
NewGenerations(ws) ==
  {f \in [ws -> (lastGen + 1)..(lastGen + Cardinality(ws))] :
     \A v, w \in ws : f[v] = f[w] => v = w}

\* Mutant of Rearmed: a deferred worker that waits is left to it.
ArmedOnce(ws, g) ==
  [w \in Workspaces |-> IF w \in ws /\ timer[w] = 0 THEN g[w] ELSE timer[w]]

\* startDeferredHydrationWorker(): the worker of the old generation is cancelled;
\* one of a later generation is left alone.
Rearmed(ws, g) ==
  [w \in Workspaces |-> IF w \in ws /\ timer[w] <= g[w] THEN g[w] ELSE timer[w]]

\* scheduler.start() of each workspace of ws, with its deferred worker: the old
\* generation is cancelled, the critical branches are requested, the timer is set.
\* A request ends the path wait of an older generation for its branch.
Starts(ws, waits) ==
  /\ lastGen + Cardinality(ws) <= MaxGen
  /\ lastGen' = lastGen + Cardinality(ws)
  /\ \E g \in NewGenerations(ws), critical \in [ws -> Critical] :
       /\ genOf' = [w \in Workspaces |-> IF w \in ws THEN g[w] ELSE genOf[w]]
       /\ timer' = Rearmed(ws, g)
       /\ deferred' = [w \in Workspaces |-> IF w \in ws THEN Branches \ critical[w]
                                            ELSE deferred[w]]
       /\ Dispatches(UNION {RequestsOf(w, critical[w], g[w]) : w \in ws},
                     {x \in waits : x.ws \in ws => x.branch \notin critical[x.ws]},
                     loads \ Of(loads, ws), givenUp \ Of(givenUp, ws))

\* workspaceMountedWorker(); a mount ends the path waits of its workspace.
Mount(w) ==
  /\ mounted' = mounted \cup {w}
  /\ Starts({w}, awaiting \ Of(awaiting, {w}))
  /\ UNCHANGED resolved

\* backendReconnectHydrationWatcher(): every path wait ends, and every mounted
\* workspace starts anew.
Reconnect ==
  mounted # {} /\ Starts(mounted, {}) /\ UNCHANGED <<mounted, resolved>>

\* backendIdentityChangedWorker(): the same, but the path waits go on.
SwitchBackend ==
  mounted # {} /\ Starts(mounted, awaiting) /\ UNCHANGED <<mounted, resolved>>

\* workspaceUnmountedWorker().
Unmount(w) ==
  /\ w \in mounted /\ mounted' = mounted \ {w}
  /\ genOf' = [genOf EXCEPT ![w] = 0] /\ timer' = [timer EXCEPT ![w] = 0]
  /\ deferred' = [deferred EXCEPT ![w] = {}]
  /\ Dispatches({}, awaiting \ Of(awaiting, {w}), loads \ Of(loads, {w}),
                givenUp \ Of(givenUp, {w}))
  /\ UNCHANGED <<lastGen, resolved>>

\* Mutant of Without: what is promoted stays deferred.
StillDeferred(w, bs) == deferred

\* A dispatched branch is not pending any more.
Without(w, bs) == [deferred EXCEPT ![w] = @ \ bs]

\* The deferred branches bs of w are requested.
Requests(w, bs) ==
  /\ deferred' = Without(w, bs)
  /\ Dispatches(RequestsOf(w, bs, genOf[w]), awaiting, loads, givenUp)
  /\ UNCHANGED <<mounted, genOf, lastGen, resolved>>

\* promoteVisibleConsumers(): a panel or a tab came into view.
Promote(w) ==
  /\ deferred[w] # {}
  /\ \E critical \in Critical : Requests(w, critical \cap deferred[w])
  /\ UNCHANGED timer

\* deferredHydrationWorker(): flush() of the generation it was armed for.
TimerFires(w) ==
  /\ timer[w] # 0 /\ timer' = [timer EXCEPT ![w] = 0]
  /\ Requests(w, IF timer[w] = genOf[w] THEN deferred[w] ELSE {})

\* waitForResolvedWorkspacePath() goes on while its generation is the current one.
StillCurrent(x) == x.gen = genOf[x.ws]

\* setWorkspaceEntity with a path: the waits of the workspace end.
PathResolves(w) ==
  /\ w \notin resolved \cup Pathless /\ resolved' = resolved \cup {w}
  /\ Dispatches({}, awaiting \ Of(awaiting, {w}),
                loads \cup {x \in Of(awaiting, {w}) : StillCurrent(x)}, givenUp)
  /\ UNCHANGED <<mounted, genOf, lastGen, deferred, timer>>

\* setWorkspaceEntity without a path: what is read of the workspace from now on
\* has to wait.  (An update without a path also makes a path wait begin again.)
PathVanishes(w) ==
  /\ w \in resolved /\ resolved' = resolved \ {w}
  /\ UNCHANGED <<mounted, genOf, lastGen, deferred, timer, awaiting, loads,
                 givenUp>>

\* A path wait times out: its branch is left alone until the next generation.
WaitExpires(w) ==
  \E x \in Of(awaiting, {w}) :
    /\ Dispatches({}, awaiting \ {x}, loads,
                  givenUp \cup {y \in {x} : StillCurrent(y)})
    /\ UNCHANGED <<mounted, genOf, lastGen, deferred, timer, resolved>>

HydrationNext ==
  \/ Reconnect \/ SwitchBackend
  \/ \E w \in Workspaces : \/ Mount(w) \/ Unmount(w) \/ Promote(w)
                           \/ TimerFires(w) \/ WaitExpires(w)
                           \/ PathResolves(w) \/ PathVanishes(w)

HydrationSpec == HydrationInit /\ [][HydrationNext]_hydrationVars

\* Timers fire; updates without a path do not come for ever less than
\* WORKSPACE_HYDRATION_IDLE_FALLBACK_MS apart, so that a path wait expires too.
HydrationFairness ==
  \A w \in Workspaces : /\ WF_hydrationVars(TimerFires(w))
                        /\ WF_hydrationVars(WaitExpires(w))

HydrationFairSpec == HydrationSpec /\ HydrationFairness

-----------------------------------------------------------------------------
(* Properties.                                                             *)

RequestRecords == [ws : Workspaces, branch : Branches, gen : 1..lastGen]

\* Every variable stays in its range, and no generation has a number that was not
\* given out (the state of the saga and its scheduler).
HydrationTypeOK ==
  /\ mounted \subseteq Workspaces /\ resolved \subseteq Workspaces
  /\ lastGen \in 0..MaxGen /\ genOf \in [Workspaces -> 0..lastGen]
  /\ deferred \in [Workspaces -> SUBSET Branches]
  /\ timer \in [Workspaces -> 0..lastGen]
  /\ awaiting \subseteq RequestRecords /\ loads \subseteq RequestRecords
  /\ givenUp \subseteq RequestRecords

\* Where a request of w's generation may be: deferred, with the worker that will
\* flush it armed for that generation; waiting for the path; loaded; given up.
Places(w) ==
  <<IF timer[w] = genOf[w] THEN RequestsOf(w, deferred[w], genOf[w]) ELSE {},
    awaiting, loads, givenUp>>

\* Each branch of a mounted workspace is in one place: it is never requested twice
\* and never lost, whatever mounts, reconnects and switches came between.  Nothing
\* is loaded for an unmounted workspace or an older generation, and a path that
\* resolves late serves only the waits of the present one.
EachBranchOnce ==
  /\ \A w \in mounted, b \in Branches :
       \E i \in 1..4 : \A j \in 1..4 :
         Request(w, b, genOf[w]) \in Places(w)[j] <=> j = i
  /\ \A x \in loads : x.ws \in mounted /\ x.gen = genOf[x.ws]

\* Once mounts, reconnects and switches cease, every branch of every mounted
\* workspace has been loaded or given up: no worker that was cancelled takes with
\* it what another one counts on.
HydrationCompletes ==
  []<>(\A w \in mounted, b \in Branches :
         Request(w, b, genOf[w]) \in loads \cup givenUp)

=============================================================================
