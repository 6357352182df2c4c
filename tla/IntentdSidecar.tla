--------------------------- MODULE IntentdSidecar ---------------------------
(***************************************************************************)
(* The supervisor of the intentd daemon the app starts for itself          *)
(* (features/backend/main/intentd-sidecar.ts, restart-policy.ts): it       *)
(* spawns the daemon, probes it, kills one that stops answering, restarts  *)
(* one that exits, gives up on a crash loop, spawns again when the user    *)
(* asks, and stops the daemon when the app quits.                          *)
(*                                                                         *)
(* Children are numbered in the order they are spawned.  A daemon may exit *)
(* or stop answering at any time and may ignore SIGTERM; a daemon the app  *)
(* did not spawn may own the socket.  Time is abstract: a timer that is    *)
(* set may fire, and the readiness budget may run out at any failed probe. *)
(***************************************************************************)
EXTENDS Naturals, FiniteSets

CONSTANTS
  External,     \* a daemon the app did not spawn
  MaxAttempts,  \* RestartPolicyConfig.maxAttempts
  MaxSpawns     \* bound: children spawned

ASSUME SidecarAssumption ==
  /\ MaxAttempts \in Nat /\ MaxSpawns \in Nat \ {0}
  /\ External \notin 0..MaxSpawns

VARIABLES
  child,        \* the operating system's view of each child
  killed,       \* children with ChildProcess.killed: a signal was sent
  slain,        \* children sent SIGKILL
  serving,      \* who answers on the socket, 0 for nobody
  spawned,      \* children spawned so far
  late,         \* children spawned after the app began to stop its daemon
  beside,       \* whether the user's request ever spawned a child beside another
                \* one or a restart that was due
  sidecar,      \* sidecarProcess, 0 for null
  shutting,     \* isShuttingDown
  generation,   \* sidecarGeneration
  watchdog,     \* watchdogTimer is set
  probes,       \* health probes in flight, by the generation they are about
  responded,    \* daemonEverResponded
  strikes,      \* consecutiveFailures
  escalation,   \* the child killEscalationTimer is set for, or 0
  restarts,     \* restart timers that are set
  restartTimer, \* whether restartTimer refers to one of them
  attempts,     \* RestartPolicy.attemptCount
  intentional,  \* RestartPolicy.intentionalStop
  mode,         \* the connection mode
  start,        \* startIntentdSidecar() is probing, or done
  demand,       \* doSpawnSidecarOnDemand() is probing, or idle
  told,         \* the last failure the renderer was told of
  stopping,     \* the child stopIntentdSidecar() waits for
  quit          \* how far the app's shutdown has come

osVars == <<child, slain, serving>>
spawnVars == <<child, spawned, late, sidecar, generation, watchdog, responded,
               told>>
policyVars == <<restarts, restartTimer, attempts, intentional>>
requestVars == <<mode, start, demand, beside>>
quitVars == <<stopping, quit>>
vars == <<osVars, spawnVars, policyVars, requestVars, quitVars, killed,
          shutting, probes, strikes, escalation>>

Children == 1..MaxSpawns
Alive == {p \in Children : child[p] = "alive"}
Running == quit # "exited"

-----------------------------------------------------------------------------
\* spawnSidecarProcess(): a child is forked and a fresh readiness window opens;
\* a spawn that fails leaves its handle behind and fires no exit.  Its error event
\* is emitted before the event loop's next turn, so it is part of the spawn.
Spawn ==
  /\ spawned < MaxSpawns
  /\ spawned' = spawned + 1
  /\ sidecar' = spawned'
  /\ late' = late \cup (IF quit = "no" THEN {} ELSE {spawned'})
  /\ generation' = generation + 1 /\ responded' = FALSE /\ watchdog' = TRUE
  /\ \/ child' = [child EXCEPT ![spawned'] = "alive"] /\ told' = "nothing"
     \/ child' = [child EXCEPT ![spawned'] = "gone"] /\ told' = "startfailed"

\* killSidecarWithEscalation(): SIGTERM now, SIGKILL if that does not help, or at
\* once when SIGTERM could not be sent.
\* Mutant: there is no second signal.
KillOnce ==
  /\ killed' = killed \cup ({sidecar} \cap Alive)
  /\ UNCHANGED <<slain, escalation, restarts, restartTimer>>

\* Mutant: the restart is scheduled without waiting for the exit.
KillAndRestart ==
  /\ killed' = killed \cup ({sidecar} \cap Alive)
  /\ escalation' = IF sidecar \in Alive THEN sidecar ELSE escalation
  /\ restarts' = restarts + 1 /\ restartTimer' = TRUE /\ UNCHANGED slain

Kill ==
  /\ killed' = killed \cup ({sidecar} \cap Alive)
  /\ \/ /\ escalation' = IF sidecar \in Alive THEN sidecar ELSE escalation
        /\ UNCHANGED slain
     \/ slain' = slain \cup ({sidecar} \cap Alive) /\ UNCHANGED escalation
  /\ UNCHANGED <<restarts, restartTimer>>

EscalationFires ==
  /\ Running /\ escalation # 0
  /\ slain' = slain \cup ({escalation} \cap Alive)
  /\ killed' = killed \cup ({escalation} \cap Alive)
  /\ escalation' = 0
  /\ UNCHANGED <<child, serving, spawnVars, policyVars, requestVars, quitVars,
                 shutting, probes, strikes>>

\* startHealthWatchdog(): a probe goes out.
WatchdogFires ==
  /\ Running /\ watchdog /\ watchdog' = FALSE
  /\ probes' = IF shutting \/ sidecar = 0 THEN probes
               ELSE probes \cup {generation}
  /\ UNCHANGED <<osVars, spawned, late, sidecar, generation, responded, told,
                 policyVars, requestVars, quitVars, killed, shutting, strikes,
                 escalation>>

\* A probe's result is about a child that is no longer supervised.
\* Mutant: it counts for whatever is supervised now.
StaleNever(g) == FALSE

Stale(g) == g # generation

\* consecutiveFailures >= 3
\* Mutant: a fourth probe must fail.
StrikeOutLate == strikes = 3

StrikeOut == strikes = 2

ProbeIgnored(g) ==
  /\ shutting \/ sidecar = 0 \/ Stale(g)
  /\ UNCHANGED <<responded, strikes, watchdog, killed, slain, escalation,
                 restarts, restartTimer>>

ProbeHealthy(g) ==
  /\ ~shutting /\ sidecar # 0 /\ ~Stale(g) /\ serving # 0
  /\ responded' = TRUE /\ strikes' = 0 /\ watchdog' = TRUE
  /\ UNCHANGED <<killed, slain, escalation, restarts, restartTimer>>

\* A failed probe: before the first answer the daemon has until its readiness
\* budget is over, afterwards three probes.
ProbeFails(g) ==
  /\ ~shutting /\ sidecar # 0 /\ ~Stale(g)
  /\ \/ /\ ~responded /\ watchdog' = TRUE
        /\ UNCHANGED <<strikes, killed, slain, escalation, restarts,
                       restartTimer>>
     \/ /\ responded /\ ~StrikeOut
        /\ strikes' = strikes + 1 /\ watchdog' = TRUE
        /\ UNCHANGED <<killed, slain, escalation, restarts, restartTimer>>
     \/ /\ ~responded \/ StrikeOut
        /\ strikes' = 0 /\ Kill
        /\ UNCHANGED watchdog
  /\ UNCHANGED responded

ProbeReturns(g) ==
  /\ Running /\ g \in probes /\ probes' = probes \ {g}
  /\ ProbeIgnored(g) \/ ProbeHealthy(g) \/ ProbeFails(g)
  /\ UNCHANGED <<child, serving, spawned, late, sidecar, generation, told,
                 attempts, intentional, requestVars, quitVars, shutting>>

-----------------------------------------------------------------------------
\* RestartPolicy.onExit() without a restart: the stop was meant, or the
\* attempts are used up.
Suppressed ==
  /\ intentional /\ intentional' = FALSE /\ attempts' = 0
  /\ UNCHANGED <<restarts, restartTimer, told>>

\* Mutant: nobody is told.
GiveUpSilently(n) ==
  /\ n > MaxAttempts /\ attempts' = 0
  /\ UNCHANGED <<intentional, restarts, restartTimer, told>>

GiveUp(n) ==
  /\ n > MaxAttempts /\ attempts' = 0 /\ told' = "gaveup"
  /\ UNCHANGED <<intentional, restarts, restartTimer>>

RestartLater(n) ==
  /\ n <= MaxAttempts /\ attempts' = n
  /\ restarts' = restarts + 1 /\ restartTimer' = TRUE
  /\ UNCHANGED <<intentional, told>>

\* The restart policy decides; a healthy uptime starts its count over.
OnExit ==
  \/ Suppressed
  \/ /\ ~intentional
     /\ \E n \in {1, attempts + 1} : GiveUp(n) \/ RestartLater(n)

\* A child exits, and its handler takes down the supervision there is,
\* whichever child that is for.
ChildExits(p) ==
  /\ p \in Alive
  /\ child' = [child EXCEPT ![p] = "gone"]
  /\ serving' = IF serving = p THEN 0 ELSE serving
  /\ IF Running
     THEN /\ watchdog' = FALSE /\ escalation' = 0 /\ strikes' = 0
          /\ generation' = generation + 1 /\ responded' = FALSE
          /\ sidecar' = 0
          /\ OnExit
          /\ quit' = IF quit = "stopping" /\ stopping = p THEN "stopped" ELSE quit
     ELSE UNCHANGED <<watchdog, escalation, strikes, generation, responded,
                      sidecar, policyVars, told, quit>>
  /\ UNCHANGED <<slain, spawned, late, requestVars, stopping, killed, shutting,
                 probes>>

RestartFires ==
  /\ Running /\ restarts > 0
  /\ restarts' = restarts - 1 /\ restartTimer' = FALSE
  /\ IF shutting THEN UNCHANGED spawnVars ELSE Spawn
  /\ UNCHANGED <<slain, serving, attempts, intentional, requestVars, quitVars,
                 killed, shutting, probes, strikes, escalation>>

-----------------------------------------------------------------------------
\* startIntentdSidecar(): adopt the daemon that answers, or whatever there is when
\* shouldSpawnSidecar() says no; spawn one; or say that there is no binary.
StartReturns ==
  /\ Running /\ start = "probing" /\ start' = "done"
  /\ \/ mode' = "external" /\ UNCHANGED <<spawnVars, shutting>>
     \/ /\ told' = "startfailed"
        /\ UNCHANGED <<child, spawned, late, sidecar, generation, watchdog,
                       responded, mode, shutting>>
     \/ shutting' = FALSE /\ mode' = "sidecar" /\ Spawn
  /\ UNCHANGED <<slain, serving, policyVars, demand, beside, quitVars, killed,
                 probes, strikes, escalation>>

\* isSidecarRunning()
SidecarRuns == sidecar \in Alive \ killed

\* spawnSidecarOnDemand(): one request at a time; the windows that ask for it
\* open after startIntentdSidecar().
DemandBegins ==
  /\ Running /\ start = "done" /\ demand = "idle" /\ ~SidecarRuns
  /\ demand' = "probing"
  /\ UNCHANGED <<osVars, spawnVars, policyVars, mode, start, beside, quitVars,
                 killed, shutting, probes, strikes, escalation>>

\* doSpawnSidecarOnDemand() after its probe: a daemon answers, there is no
\* binary, or a child is spawned.
DemandReturns ==
  /\ Running /\ demand = "probing" /\ demand' = "idle"
  /\ \/ serving # 0 /\ mode' = "external" /\ UNCHANGED <<spawnVars, shutting, beside>>
     \/ UNCHANGED <<spawnVars, mode, shutting, beside>>
     \/ /\ shutting' = FALSE /\ mode' = "sidecar" /\ Spawn
        /\ beside' = (beside \/ Alive # {} \/ restarts > 0)
  /\ UNCHANGED <<slain, serving, policyVars, start, quitVars, killed, probes,
                 strikes, escalation>>

\* performGracefulShutdown() leaves a daemon that is not ours alone.
QuitExternal ==
  /\ quit = "no" /\ mode = "external" /\ quit' = "stopped"
  /\ UNCHANGED <<osVars, spawnVars, policyVars, requestVars, stopping, killed,
                 shutting, probes, strikes, escalation>>

\* stopIntentdSidecar(): SIGTERM to a child that was not signalled before.
\* Mutant of Asked: a child that has not answered yet is left alone.
AskedIfResponded == responded /\ SidecarRuns

Asked == SidecarRuns

QuitSidecar ==
  /\ quit = "no" /\ mode # "external"
  /\ shutting' = TRUE /\ watchdog' = FALSE /\ strikes' = 0
  /\ generation' = generation + 1 /\ responded' = FALSE
  /\ restarts' = restarts - (IF restartTimer THEN 1 ELSE 0)
  /\ restartTimer' = FALSE /\ escalation' = 0
  /\ intentional' = (spawned > 0)
  /\ sidecar' = 0
  /\ IF Asked
     THEN stopping' = sidecar /\ killed' = killed \cup {sidecar} /\ quit' = "stopping"
     ELSE quit' = "stopped" /\ UNCHANGED <<stopping, killed>>
  /\ UNCHANGED <<osVars, spawned, late, told, attempts, requestVars, probes>>

\* The grace period is over: SIGKILL is for a child that has not been signalled.
GraceEnds ==
  /\ quit = "stopping" /\ quit' = "stopped"
  /\ slain' = slain \cup ({stopping} \cap (Alive \ killed))
  /\ UNCHANGED <<child, serving, spawnVars, policyVars, requestVars, stopping,
                 killed, shutting, probes, strikes, escalation>>

AppExits ==
  /\ quit = "stopped" /\ quit' = "exited"
  /\ UNCHANGED <<osVars, spawnVars, policyVars, requestVars, stopping, killed,
                 shutting, probes, strikes, escalation>>

-----------------------------------------------------------------------------
\* The daemons: a child serves the socket when nobody does, and one the app did
\* not spawn may come and go.
Serves(d) ==
  /\ serving = 0 /\ serving' = d
  /\ UNCHANGED <<child, slain, spawnVars, policyVars, requestVars, quitVars,
                 killed, shutting, probes, strikes, escalation>>

ExternalStops ==
  /\ serving = External /\ serving' = 0
  /\ UNCHANGED <<child, slain, spawnVars, policyVars, requestVars, quitVars,
                 killed, shutting, probes, strikes, escalation>>

Init ==
  /\ child = [p \in Children |-> "none"]
  /\ killed = {} /\ slain = {} /\ late = {} /\ probes = {}
  /\ serving = 0 /\ spawned = 0 /\ sidecar = 0 /\ generation = 0
  /\ shutting = FALSE /\ watchdog = FALSE /\ responded = FALSE
  /\ strikes = 0 /\ escalation = 0
  /\ restarts = 0 /\ restartTimer = FALSE
  /\ attempts = 0 /\ intentional = FALSE
  /\ mode = "unknown" /\ start = "probing" /\ demand = "idle" /\ beside = FALSE
  /\ told = "nothing" /\ stopping = 0 /\ quit = "no"

Next ==
  \/ \E p \in Alive : ChildExits(p) \/ Serves(p)
  \/ \E g \in probes : ProbeReturns(g)
  \/ EscalationFires \/ WatchdogFires \/ RestartFires
  \/ StartReturns \/ DemandBegins \/ DemandReturns
  \/ QuitExternal \/ QuitSidecar \/ GraceEnds \/ AppExits
  \/ Serves(External) \/ ExternalStops

Spec == Init /\ [][Next]_vars

-----------------------------------------------------------------------------
\* The state the module's variables are always in: the daemons, their
\* supervision, the restart policy, requests and shutdown, and the flags.  Three
\* failed probes never add up to a fourth.
ChildrenOK ==
  /\ child \in [Children -> {"none", "alive", "gone"}]
  /\ killed \subseteq Children /\ slain \subseteq killed
  /\ late \subseteq Children
  /\ serving \in Alive \cup {0, External}
  /\ spawned \in 0..MaxSpawns

SupervisionOK ==
  /\ sidecar \in 0..spawned /\ escalation \in 0..spawned
  /\ generation \in Nat /\ probes \subseteq 0..generation
  /\ strikes \in 0..2

PolicyOK ==
  /\ restarts \in Nat /\ attempts \in 0..MaxAttempts
  /\ told \in {"nothing", "gaveup", "startfailed"}

RequestsOK ==
  /\ mode \in {"unknown", "sidecar", "external"}
  /\ start \in {"probing", "done"} /\ demand \in {"idle", "probing"}
  /\ stopping \in 0..spawned
  /\ quit \in {"no", "stopping", "stopped", "exited"}

FlagsOK ==
  /\ shutting \in BOOLEAN /\ watchdog \in BOOLEAN /\ responded \in BOOLEAN
  /\ restartTimer \in BOOLEAN /\ intentional \in BOOLEAN /\ beside \in BOOLEAN

TypeOK == ChildrenOK /\ SupervisionOK /\ PolicyOK /\ RequestsOK /\ FlagsOK

\* No two daemons of the app run side by side: "we must NEVER run a second
\* daemon alongside" (spawnSidecarOnDemand).
OneChild == Cardinality(Alive) <= 1

\* The supervisor never runs two daemons unless the user's request put one beside
\* another: a restart waits for the exit it answers, and at most one is under way
\* (spawnSidecarProcess and its exit handler).
SupervisorRunsOne == ~beside => OneChild

\* A running child under supervision is on its way to its next probe, to its
\* result, or to a SIGKILL: one that hangs is not left alone
\* (startHealthWatchdog, killSidecarWithEscalation).
ChildIsWatched ==
  Running /\ ~shutting /\ sidecar \in Alive =>
    \/ watchdog \/ generation \in probes
    \/ escalation = sidecar \/ sidecar \in slain

\* A managed daemon that is gone for good was reported: a crash loop that ends
\* and a spawn that fails are never silent (notifySidecarGaveUp,
\* notifySidecarStartupFailed).
NotSilentlyDead ==
  mode = "sidecar" /\ quit = "no" /\ Alive = {} /\ restarts = 0 =>
    told # "nothing"

\* A health probe never signals a child it was not about: SIGTERM comes from the
\* probe of this very child, from its escalation, or from the app's shutdown
\* (sidecarGeneration).
SignalledForCause ==
  \A p \in killed' \ killed :
    \/ sidecar = p /\ generation \in probes
    \/ quit' # quit

ProbesHitTheirChild == [][SignalledForCause]_vars

\* When the app has exited, every daemon of its own that is still there was
\* asked to stop, except one spawned while the app was stopping, a second one,
\* and one whose answer to the user's request made the mode "external".
SurvivorsWereAsked ==
  quit = "exited" /\ ~beside /\ mode # "external" =>
    Alive \subseteq killed \cup late

\* When the grace period is over, a daemon that is still there was sent
\* SIGKILL: "Sends SIGTERM, waits for the grace period, then SIGKILL if still
\* alive" (stopIntentdSidecar).
GraceEndsInKill ==
  quit \in {"stopped", "exited"} /\ stopping \in Alive => stopping \in slain

=============================================================================
