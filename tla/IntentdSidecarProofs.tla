----------------------- MODULE IntentdSidecarProofs ------------------------
(***************************************************************************)
(* The supervisor's types, its invariants and what its steps may signal,   *)
(* for any number of children and any restart budget.                      *)
(***************************************************************************)
EXTENDS IntentdSidecar, FiniteSetTheorems, TLAPS

(* The inductive invariant, in parts.                                      *)

\* Children are numbered in the order they are spawned, none comes before the
\* start is over or asked for, and a timer that is referred to is one that is set.
SpawnInv ==
  /\ \A p \in Children : p > spawned => child[p] = "none"
  /\ start = "probing" => spawned = 0 /\ restarts = 0
  /\ demand = "probing" => start = "done"
  /\ restartTimer => restarts > 0

\* A SIGKILL is only ever due to a child that got its SIGTERM, and only the
\* app's shutdown suppresses restarts.
SignalInv ==
  /\ escalation \in killed \cup {0}
  /\ quit = "stopping" => stopping \in killed
  /\ intentional \/ shutting => quit # "no"

\* Without a request of the user beside it, a child is alone, supervised, and no
\* restart is due.
AloneInv ==
  ~beside =>
    /\ \A p, q \in Alive : p = q
    /\ Alive # {} => restarts = 0
    /\ restarts \in {0, 1}
    /\ quit = "no" => Alive \subseteq {sidecar}

\* From the moment the app stops its daemon, whoever is left was asked to stop
\* or came later.
AskedInv ==
  quit # "no" /\ ~beside /\ mode # "external" => Alive \subseteq killed \cup late

\* What the others lean on.  AloneInv, ChildIsWatched and NotSilentlyDead are
\* inductive beside it, and AskedInv beside it and AloneInv.
BaseInv == TypeOK /\ SpawnInv /\ SignalInv

-----------------------------------------------------------------------------
(* Types.                                                                  *)

\* A child that was never spawned is numbered above all that were, so a fork
\* (spawnSidecarProcess) changes nobody else.
LEMMA SpawnIsFresh ==
  ASSUME BaseInv, Spawn
  PROVE  /\ spawned' \in Children /\ spawned' \notin Alive
         /\ \A p \in Children \ {spawned'} : child'[p] = child[p]
         /\ child' \in [Children -> {"none", "alive", "gone"}]
         /\ child'[spawned'] \in {"alive", "gone"}
         /\ Alive \subseteq Alive' /\ Alive' \subseteq Alive \cup {spawned'}
<1> USE SidecarAssumption DEF SidecarAssumption, Children
<1>1. spawned \in Nat /\ spawned' \in Children /\ spawned' = spawned + 1
  BY DEF Spawn, BaseInv, TypeOK, ChildrenOK
<1>2. child[spawned'] = "none"
  BY <1>1 DEF BaseInv, SpawnInv
<1>3. \E v \in {"alive", "gone"} : child' = [child EXCEPT ![spawned'] = v]
  BY DEF Spawn
<1>4. child \in [Children -> {"none", "alive", "gone"}]
  BY DEF BaseInv, TypeOK, ChildrenOK
<1>5. /\ \A p \in Children \ {spawned'} : child'[p] = child[p]
      /\ child' \in [Children -> {"none", "alive", "gone"}]
      /\ child'[spawned'] \in {"alive", "gone"}
  BY <1>1, <1>3, <1>4
<1>6. QED BY <1>1, <1>2, <1>4, <1>5 DEF Alive

\* A fork keeps the types, whoever asked for it.
LEMMA SpawnKeepsBase ==
  ASSUME BaseInv, Spawn, start' = "done",
         killed' = killed, slain' = slain, serving' = serving,
         probes' = probes, strikes' = strikes, escalation' = escalation,
         restarts' \in Nat, restartTimer' => restarts' > 0,
         attempts' = attempts, mode' \in {"unknown", "sidecar", "external"},
         demand' \in {"idle", "probing"},
         intentional' = intentional, shutting' => shutting, FlagsOK',
         stopping' = stopping, quit' = quit
  PROVE  BaseInv'
<1>1. ChildrenOK'
  <2>1. late' \subseteq Children
    BY SpawnIsFresh DEF Spawn, BaseInv, TypeOK, ChildrenOK
  <2>2. spawned' \in 0..MaxSpawns
    BY SidecarAssumption DEF SidecarAssumption, Spawn, BaseInv, TypeOK, ChildrenOK
  <2>3. serving' \in Alive' \cup {0, External}
    BY SpawnIsFresh DEF BaseInv, TypeOK, ChildrenOK
  <2>4. QED BY <2>1, <2>2, <2>3, SpawnIsFresh DEF BaseInv, TypeOK, ChildrenOK,
           Children
<1>2. SupervisionOK'
  BY DEF Spawn, BaseInv, TypeOK, ChildrenOK, SupervisionOK
<1>3. PolicyOK'
  BY DEF Spawn, BaseInv, TypeOK, PolicyOK
<1>4. RequestsOK'
  BY DEF Spawn, BaseInv, TypeOK, ChildrenOK, RequestsOK
<1>5. SpawnInv'
  <2>1. ASSUME NEW p \in Children, p > spawned' PROVE child'[p] = "none"
    BY <2>1, SpawnIsFresh, SidecarAssumption DEF SidecarAssumption, Spawn,
       BaseInv, TypeOK, ChildrenOK, SpawnInv, Children
  <2>2. QED BY <2>1 DEF SpawnInv, Children
<1>6. SignalInv'
  BY DEF BaseInv, SignalInv
<1>7. QED BY <1>1, <1>2, <1>3, <1>4, <1>5, <1>6 DEF BaseInv, TypeOK

\* The supervisor's variables keep their types; with them go the order of the
\* children (SpawnInv) and of their signals (SignalInv).
THEOREM BaseCorrect == Spec => []BaseInv
<1> USE SidecarAssumption DEF SidecarAssumption, Children
<1>1. Init => BaseInv
  <2> SUFFICES ASSUME Init PROVE BaseInv
    OBVIOUS
  <2>1. ChildrenOK
    BY DEF Init, ChildrenOK
  <2>2. SupervisionOK
    BY DEF Init, SupervisionOK
  <2>3. PolicyOK
    BY DEF Init, PolicyOK
  <2>4. RequestsOK
    BY DEF Init, RequestsOK
  <2>5. FlagsOK
    BY DEF Init, FlagsOK
  <2>6. SpawnInv
    BY DEF Init, SpawnInv
  <2>7. SignalInv
    BY DEF Init, SignalInv
  <2>8. QED BY <2>1, <2>2, <2>3, <2>4, <2>5, <2>6, <2>7 DEF BaseInv, TypeOK
<1>2. BaseInv /\ [Next]_vars => BaseInv'
  <2> SUFFICES ASSUME BaseInv, [Next]_vars PROVE BaseInv'
    OBVIOUS
  <2>1. ASSUME NEW p \in Alive, ChildExits(p) PROVE BaseInv'
    <3>1. /\ p \in Children /\ Alive' = Alive \ {p} /\ start = "done"
          /\ spawned' = spawned
      <4>1. p \in Children /\ Alive' = Alive \ {p} /\ spawned' = spawned
        BY <2>1 DEF ChildExits, Alive, BaseInv, TypeOK, ChildrenOK
      <4>2. start = "done"
        BY <2>1, <4>1 DEF Alive, BaseInv, TypeOK, ChildrenOK, RequestsOK, SpawnInv
      <4>3. QED BY <4>1, <4>2
    <3>2. /\ restarts' \in Nat /\ attempts' \in 0..MaxAttempts
          /\ told' \in {"nothing", "gaveup", "startfailed"}
          /\ restartTimer' => restarts' > 0
          /\ restartTimer' \in BOOLEAN /\ intentional' \in BOOLEAN
          /\ intentional' => intentional
      <4>0. /\ restarts \in Nat /\ attempts \in 0..MaxAttempts
            /\ told \in {"nothing", "gaveup", "startfailed"}
            /\ restartTimer => restarts > 0
            /\ restartTimer \in BOOLEAN /\ intentional \in BOOLEAN
        BY DEF BaseInv, TypeOK, PolicyOK, FlagsOK, SpawnInv
      <4>1. CASE UNCHANGED <<policyVars, told>>
        BY <4>0, <4>1 DEF policyVars
      <4>2. CASE Suppressed
        <5>1. attempts' \in 0..MaxAttempts /\ UNCHANGED <<restarts, restartTimer, told>>
          BY <4>2 DEF Suppressed
        <5>2. intentional' = FALSE
          BY <4>2 DEF Suppressed
        <5>3. QED BY <4>0, <5>1, <5>2
      <4>3. CASE \E n \in {1, attempts + 1} : GiveUp(n)
        BY <4>0, <4>3 DEF GiveUp
      <4>4. CASE \E n \in {1, attempts + 1} : RestartLater(n)
        <5>1. PICK n \in {1, attempts + 1} : RestartLater(n)
          BY <4>4
        <5>2. n \in Nat /\ attempts' = n /\ n <= MaxAttempts
          BY <4>0, <5>1 DEF RestartLater
        <5>3. restarts' > 0 /\ restarts' \in Nat
          BY <4>0, <5>1 DEF RestartLater
        <5>4. restartTimer' = TRUE /\ UNCHANGED <<intentional, told>>
          BY <5>1 DEF RestartLater
        <5>5. QED BY <4>0, <5>2, <5>3, <5>4
      <4>5. QED BY <2>1, <4>1, <4>2, <4>3, <4>4, Zenon DEF ChildExits, OnExit
    <3>3. SpawnInv'
      <4>1. \A q \in Children : child'[q] = "none" \/ q = p \/ child'[q] = child[q]
        BY <2>1 DEF ChildExits, BaseInv, TypeOK, ChildrenOK
      <4>2. spawned \in 0..MaxSpawns /\ p <= spawned
        BY <2>1, <3>1 DEF Alive, BaseInv, TypeOK, ChildrenOK, SpawnInv
      <4>3. \A q \in Children : q > spawned' => child'[q] = "none"
        BY <3>1, <4>1, <4>2 DEF BaseInv, SpawnInv
      <4>4. UNCHANGED <<start, demand>>
        BY <2>1 DEF ChildExits, requestVars
      <4>5. QED BY <3>1, <3>2, <4>3, <4>4 DEF BaseInv, SpawnInv
    <3>4. ChildrenOK'
      BY <2>1, <3>1, <3>2 DEF ChildExits, BaseInv, TypeOK, ChildrenOK, Alive,
         requestVars
    <3>5. SupervisionOK'
      BY <2>1, <3>1, <3>2 DEF ChildExits, BaseInv, TypeOK, ChildrenOK,
         SupervisionOK, requestVars
    <3>6. PolicyOK'
      BY <2>1, <3>1, <3>2 DEF ChildExits, BaseInv, TypeOK, PolicyOK,
         requestVars
    <3>7. RequestsOK'
      BY <2>1, <3>1, <3>2 DEF ChildExits, BaseInv, TypeOK, ChildrenOK,
         RequestsOK, requestVars
    <3>8. FlagsOK'
      BY <2>1, <3>1, <3>2 DEF ChildExits, BaseInv, TypeOK, FlagsOK, requestVars
    <3>9. SpawnInv'
      BY <3>3
    <3>10. SignalInv'
      BY <2>1, <3>1, <3>2 DEF ChildExits, BaseInv, TypeOK, ChildrenOK,
         RequestsOK, SignalInv, requestVars
    <3>11. QED BY <3>4, <3>5, <3>6, <3>7, <3>8, <3>9, <3>10
             DEF BaseInv, TypeOK
  <2>2. ASSUME NEW g \in probes, ProbeReturns(g) PROVE BaseInv'
    <3>1. /\ UNCHANGED <<child, serving, spawned, late, sidecar, generation, told,
                         attempts, intentional, requestVars, quitVars, shutting>>
          /\ probes' \subseteq probes
      BY <2>2 DEF ProbeReturns
    <3>2. /\ strikes' \in 0..2
          /\ killed \subseteq killed' /\ killed' \subseteq Children
          /\ slain' \subseteq killed'
          /\ escalation' \in killed' \cup {0} /\ escalation' \in 0..spawned
          /\ responded' \in BOOLEAN /\ watchdog' \in BOOLEAN
          /\ restarts' = restarts /\ restartTimer' = restartTimer
      <4>0. /\ strikes \in 0..2 /\ killed \subseteq Children
            /\ slain \subseteq killed
            /\ escalation \in killed \cup {0} /\ escalation \in 0..spawned
            /\ sidecar \in 0..spawned
            /\ responded \in BOOLEAN /\ watchdog \in BOOLEAN
        BY DEF BaseInv, TypeOK, ChildrenOK, SupervisionOK, FlagsOK, SignalInv
      <4>1. CASE ProbeIgnored(g)
        BY <4>0, <4>1 DEF ProbeIgnored
      <4>2. CASE ProbeHealthy(g)
        BY <4>0, <4>2 DEF ProbeHealthy
      <4>3. CASE ProbeFails(g)
        <5>1. CASE strikes' = 0 /\ Kill /\ UNCHANGED <<watchdog, responded>>
          <6>1. {sidecar} \cap Alive \subseteq Children
            BY DEF Alive
          <6>2. /\ killed' \subseteq Children /\ killed \subseteq killed'
                /\ slain' \subseteq killed'
            BY <4>0, <5>1, <6>1 DEF Kill
          <6>3. escalation' \in killed' \cup {0} /\ escalation' \in 0..spawned
            BY <4>0, <5>1 DEF Kill
          <6>4. QED BY <4>0, <5>1, <6>2, <6>3 DEF Kill
        <5>2. CASE /\ strikes' \in 0..2 /\ watchdog' = TRUE
                   /\ UNCHANGED <<killed, slain, escalation, restarts,
                                  restartTimer, responded>>
          BY <4>0, <5>2
        <5>3. strikes # 2 => strikes + 1 \in 0..2
          BY <4>0
        <5>4. QED BY <4>0, <4>3, <5>1, <5>2, <5>3, Zenon DEF ProbeFails, StrikeOut
      <4>4. QED BY <2>2, <4>1, <4>2, <4>3 DEF ProbeReturns
    <3>3. ChildrenOK'
      BY <3>1, <3>2 DEF BaseInv, TypeOK, ChildrenOK, Alive, osVars,
         requestVars, quitVars
    <3>4. SupervisionOK'
      BY <3>1, <3>2 DEF BaseInv, TypeOK, ChildrenOK, SupervisionOK, osVars,
         requestVars, quitVars
    <3>5. PolicyOK'
      BY <3>1, <3>2 DEF BaseInv, TypeOK, PolicyOK, osVars, requestVars,
         quitVars
    <3>6. RequestsOK'
      BY <3>1, <3>2 DEF BaseInv, TypeOK, ChildrenOK, RequestsOK, osVars,
         requestVars, quitVars
    <3>7. FlagsOK'
      BY <3>1, <3>2 DEF BaseInv, TypeOK, FlagsOK, osVars, requestVars, quitVars
    <3>8. SpawnInv'
      BY <3>1, <3>2 DEF BaseInv, TypeOK, ChildrenOK, PolicyOK, RequestsOK,
         SpawnInv, osVars, requestVars, quitVars
    <3>9. SignalInv'
      BY <3>1, <3>2 DEF BaseInv, TypeOK, ChildrenOK, RequestsOK, SignalInv,
         osVars, requestVars, quitVars
    <3>10. QED BY <3>3, <3>4, <3>5, <3>6, <3>7, <3>8, <3>9
             DEF BaseInv, TypeOK
  <2>3. CASE EscalationFires
    <3>1. ChildrenOK'
      BY <2>3 DEF EscalationFires, BaseInv, TypeOK, ChildrenOK, Alive,
         SignalInv, spawnVars, policyVars, requestVars, quitVars
    <3>2. SupervisionOK' /\ PolicyOK' /\ RequestsOK'
      BY <2>3 DEF EscalationFires, BaseInv, TypeOK, ChildrenOK, SupervisionOK,
         PolicyOK, RequestsOK, spawnVars, policyVars, requestVars, quitVars
    <3>3. FlagsOK'
      BY <2>3 DEF EscalationFires, BaseInv, TypeOK, FlagsOK, spawnVars,
         policyVars, requestVars, quitVars
    <3>4. SpawnInv' /\ SignalInv'
      BY <2>3 DEF EscalationFires, BaseInv, TypeOK, SpawnInv, SignalInv,
         spawnVars, policyVars, requestVars, quitVars
    <3>5. QED BY <3>1, <3>2, <3>3, <3>4 DEF BaseInv, TypeOK
  <2>4. CASE WatchdogFires
    <3>1. ChildrenOK'
      BY <2>4 DEF WatchdogFires, BaseInv, TypeOK, ChildrenOK, Alive, osVars,
         policyVars, requestVars, quitVars
    <3>2. SupervisionOK'
      <4>1. generation \in 0..generation
        BY DEF BaseInv, TypeOK, SupervisionOK
      <4>2. probes' \subseteq probes \cup {generation}
        BY <2>4, Zenon DEF WatchdogFires
      <4>3. QED BY <2>4, <4>1, <4>2 DEF WatchdogFires, BaseInv, TypeOK,
               SupervisionOK
    <3>3. PolicyOK'
      BY <2>4 DEF WatchdogFires, BaseInv, TypeOK, PolicyOK, osVars, policyVars,
         requestVars, quitVars
    <3>4. RequestsOK'
      BY <2>4 DEF WatchdogFires, BaseInv, TypeOK, ChildrenOK, RequestsOK,
         osVars, policyVars, requestVars, quitVars
    <3>5. FlagsOK'
      BY <2>4 DEF WatchdogFires, BaseInv, TypeOK, FlagsOK, osVars, policyVars,
         requestVars, quitVars
    <3>6. SpawnInv'
      BY <2>4 DEF WatchdogFires, BaseInv, TypeOK, ChildrenOK, PolicyOK,
         RequestsOK, SpawnInv, osVars, policyVars, requestVars, quitVars
    <3>7. SignalInv'
      BY <2>4 DEF WatchdogFires, BaseInv, TypeOK, ChildrenOK, RequestsOK,
         SignalInv, osVars, policyVars, requestVars, quitVars
    <3>8. QED BY <3>1, <3>2, <3>3, <3>4, <3>5, <3>6, <3>7
             DEF BaseInv, TypeOK
  <2>5. CASE RestartFires
    <3>1. /\ restarts' \in Nat /\ restartTimer' = FALSE
          /\ start = "done" /\ start' = start
      BY <2>5 DEF RestartFires, BaseInv, TypeOK, PolicyOK, RequestsOK, SpawnInv,
         requestVars
    <3>2. FlagsOK'
      BY <2>5 DEF RestartFires, Spawn, spawnVars, requestVars, BaseInv, TypeOK,
         FlagsOK
    <3>3. CASE ~shutting
      BY <2>5, <3>1, <3>2, <3>3, SpawnKeepsBase DEF RestartFires, requestVars,
         quitVars, BaseInv, TypeOK, RequestsOK
    <3>4. CASE shutting
      <4>1. ChildrenOK'
        BY <2>5, <3>1, <3>4 DEF RestartFires, BaseInv, TypeOK, ChildrenOK,
           Alive, spawnVars, requestVars, quitVars
      <4>2. SupervisionOK'
        BY <2>5, <3>1, <3>4 DEF RestartFires, BaseInv, TypeOK, ChildrenOK,
           SupervisionOK, spawnVars, requestVars, quitVars
      <4>3. PolicyOK'
        BY <2>5, <3>1, <3>4 DEF RestartFires, BaseInv, TypeOK, PolicyOK,
           spawnVars, requestVars, quitVars
      <4>4. RequestsOK'
        BY <2>5, <3>1, <3>4 DEF RestartFires, BaseInv, TypeOK, ChildrenOK,
           RequestsOK, spawnVars, requestVars, quitVars
      <4>5. FlagsOK'
        BY <3>2
      <4>6. SpawnInv'
        BY <2>5, <3>1, <3>4 DEF RestartFires, BaseInv, TypeOK, ChildrenOK,
           PolicyOK, RequestsOK, SpawnInv, spawnVars, requestVars, quitVars
      <4>7. SignalInv'
        BY <2>5, <3>1, <3>4 DEF RestartFires, BaseInv, TypeOK, ChildrenOK,
           RequestsOK, SignalInv, spawnVars, requestVars, quitVars
      <4>8. QED BY <4>1, <4>2, <4>3, <4>4, <4>5, <4>6, <4>7
               DEF BaseInv, TypeOK
    <3>5. QED BY <3>3, <3>4
  <2>6. CASE StartReturns
    <3>1. FlagsOK'
      BY <2>6 DEF StartReturns, Spawn, spawnVars, policyVars, BaseInv, TypeOK,
         FlagsOK
    <3>2. CASE Spawn /\ mode' = "sidecar" /\ shutting' = FALSE
      BY <2>6, <3>1, <3>2, SpawnKeepsBase DEF StartReturns, policyVars, quitVars,
         BaseInv, TypeOK, PolicyOK, RequestsOK, SpawnInv
    <3>3. CASE /\ UNCHANGED <<child, spawned, late, sidecar, generation,
                              watchdog, responded, shutting>>
               /\ told' \in {told, "startfailed"} /\ mode' \in {mode, "external"}
      <4>1. ChildrenOK'
        BY <2>6, <3>3 DEF StartReturns, BaseInv, TypeOK, ChildrenOK, Alive,
           policyVars, quitVars
      <4>2. SupervisionOK'
        BY <2>6, <3>3 DEF StartReturns, BaseInv, TypeOK, ChildrenOK,
           SupervisionOK, policyVars, quitVars
      <4>3. PolicyOK'
        BY <2>6, <3>3 DEF StartReturns, BaseInv, TypeOK, PolicyOK, policyVars,
           quitVars
      <4>4. RequestsOK'
        BY <2>6, <3>3 DEF StartReturns, BaseInv, TypeOK, ChildrenOK,
           RequestsOK, policyVars, quitVars
      <4>5. FlagsOK'
        BY <3>1
      <4>6. SpawnInv'
        BY <2>6, <3>3 DEF StartReturns, BaseInv, TypeOK, ChildrenOK, PolicyOK,
           RequestsOK, SpawnInv, policyVars, quitVars
      <4>7. SignalInv'
        BY <2>6, <3>3 DEF StartReturns, BaseInv, TypeOK, ChildrenOK,
           RequestsOK, SignalInv, policyVars, quitVars
      <4>8. QED BY <4>1, <4>2, <4>3, <4>4, <4>5, <4>6, <4>7
               DEF BaseInv, TypeOK
    <3>4. QED BY <2>6, <3>2, <3>3 DEF StartReturns, spawnVars
  <2>7. CASE DemandBegins
    <3>1. ChildrenOK'
      BY <2>7 DEF DemandBegins, BaseInv, TypeOK, ChildrenOK, Alive, osVars,
         spawnVars, policyVars, quitVars
    <3>2. SupervisionOK' /\ PolicyOK' /\ RequestsOK'
      BY <2>7 DEF DemandBegins, BaseInv, TypeOK, ChildrenOK, SupervisionOK,
         PolicyOK, RequestsOK, osVars, spawnVars, policyVars, quitVars
    <3>3. FlagsOK'
      BY <2>7 DEF DemandBegins, BaseInv, TypeOK, FlagsOK, osVars, spawnVars,
         policyVars, quitVars
    <3>4. SpawnInv' /\ SignalInv'
      BY <2>7 DEF DemandBegins, BaseInv, TypeOK, SpawnInv, SignalInv, osVars,
         spawnVars, policyVars, quitVars
    <3>5. QED BY <3>1, <3>2, <3>3, <3>4 DEF BaseInv, TypeOK
  <2>8. CASE DemandReturns
    <3>1. FlagsOK'
      BY <2>8 DEF DemandReturns, Spawn, spawnVars, policyVars, BaseInv, TypeOK,
         FlagsOK
    <3>2. CASE Spawn /\ mode' = "sidecar" /\ shutting' = FALSE
      BY <2>8, <3>1, <3>2, SpawnKeepsBase DEF DemandReturns,
         policyVars, quitVars, BaseInv, TypeOK, PolicyOK, RequestsOK, SpawnInv
    <3>3. CASE /\ UNCHANGED <<spawnVars, shutting, beside>>
               /\ mode' \in {mode, "external"}
      <4>1. ChildrenOK'
        BY <2>8, <3>3 DEF DemandReturns, BaseInv, TypeOK, ChildrenOK, Alive,
           spawnVars, policyVars, quitVars
      <4>2. SupervisionOK'
        BY <2>8, <3>3 DEF DemandReturns, BaseInv, TypeOK, ChildrenOK,
           SupervisionOK, spawnVars, policyVars, quitVars
      <4>3. PolicyOK'
        BY <2>8, <3>3 DEF DemandReturns, BaseInv, TypeOK, PolicyOK, spawnVars,
           policyVars, quitVars
      <4>4. RequestsOK'
        BY <2>8, <3>3 DEF DemandReturns, BaseInv, TypeOK, ChildrenOK,
           RequestsOK, spawnVars, policyVars, quitVars
      <4>5. FlagsOK'
        BY <3>1
      <4>6. SpawnInv'
        BY <2>8, <3>3 DEF DemandReturns, BaseInv, TypeOK, ChildrenOK, PolicyOK,
           RequestsOK, SpawnInv, spawnVars, policyVars, quitVars
      <4>7. SignalInv'
        BY <2>8, <3>3 DEF DemandReturns, BaseInv, TypeOK, ChildrenOK,
           RequestsOK, SignalInv, spawnVars, policyVars, quitVars
      <4>8. QED BY <4>1, <4>2, <4>3, <4>4, <4>5, <4>6, <4>7
               DEF BaseInv, TypeOK
    <3>4. QED BY <2>8, <3>2, <3>3, Zenon DEF DemandReturns
  <2>9. CASE QuitExternal
    <3>1. ChildrenOK'
      BY <2>9 DEF QuitExternal, BaseInv, TypeOK, ChildrenOK, Alive, osVars,
         spawnVars, policyVars, requestVars
    <3>2. SupervisionOK' /\ PolicyOK' /\ RequestsOK'
      BY <2>9 DEF QuitExternal, BaseInv, TypeOK, ChildrenOK, SupervisionOK,
         PolicyOK, RequestsOK, osVars, spawnVars, policyVars, requestVars
    <3>3. FlagsOK'
      BY <2>9 DEF QuitExternal, BaseInv, TypeOK, FlagsOK, osVars, spawnVars,
         policyVars, requestVars
    <3>4. SpawnInv' /\ SignalInv'
      BY <2>9 DEF QuitExternal, BaseInv, TypeOK, SpawnInv, SignalInv, osVars,
         spawnVars, policyVars, requestVars
    <3>5. QED BY <3>1, <3>2, <3>3, <3>4 DEF BaseInv, TypeOK
  <2>10. CASE QuitSidecar
    <3>1. restarts' \in Nat /\ (restarts = 0 => restarts' = 0)
      <4>1. CASE restartTimer
        BY <2>10, <4>1 DEF QuitSidecar, BaseInv, TypeOK, PolicyOK, SpawnInv
      <4>2. CASE ~restartTimer
        BY <2>10, <4>2 DEF QuitSidecar, BaseInv, TypeOK, PolicyOK
      <4>3. QED BY <4>1, <4>2
    <3>2. /\ killed' \subseteq Children /\ killed \subseteq killed'
          /\ stopping' \in 0..spawned /\ quit' \in {"stopping", "stopped"}
          /\ quit' = "stopping" => stopping' \in killed'
      BY <2>10 DEF QuitSidecar, Asked, SidecarRuns, Alive, BaseInv, TypeOK,
         ChildrenOK, SupervisionOK, RequestsOK
    <3>3. ChildrenOK'
      BY <2>10, <3>1, <3>2 DEF QuitSidecar, BaseInv, TypeOK, ChildrenOK, Alive,
         osVars, requestVars
    <3>4. SupervisionOK'
      <4>1. spawned \in Nat /\ generation \in Nat /\ probes \subseteq 0..generation
        BY DEF BaseInv, TypeOK, ChildrenOK, SupervisionOK
      <4>2. /\ sidecar' = 0 /\ escalation' = 0 /\ strikes' = 0
            /\ generation' = generation + 1
            /\ UNCHANGED <<spawned, probes>>
        BY <2>10 DEF QuitSidecar
      <4>3. QED BY <4>1, <4>2 DEF SupervisionOK
    <3>5. PolicyOK'
      BY <2>10, <3>1 DEF QuitSidecar, BaseInv, TypeOK, PolicyOK
    <3>6. RequestsOK'
      BY <2>10, <3>1, <3>2 DEF QuitSidecar, BaseInv, TypeOK, ChildrenOK,
         RequestsOK, osVars, requestVars
    <3>7. FlagsOK'
      <4>1. (spawned > 0) \in BOOLEAN
        OBVIOUS
      <4>2. intentional' \in BOOLEAN
        BY <2>10, <4>1, Zenon DEF QuitSidecar
      <4>3. QED BY <2>10, <4>2 DEF QuitSidecar, requestVars, BaseInv, TypeOK,
               FlagsOK
    <3>8. SpawnInv'
      BY <2>10, <3>1, <3>2 DEF QuitSidecar, BaseInv, TypeOK, ChildrenOK,
         PolicyOK, RequestsOK, SpawnInv, osVars, requestVars
    <3>9. SignalInv'
      BY <2>10, <3>1, <3>2 DEF QuitSidecar, BaseInv, TypeOK, ChildrenOK,
         RequestsOK, SignalInv, osVars, requestVars
    <3>10. QED BY <3>3, <3>4, <3>5, <3>6, <3>7, <3>8, <3>9
             DEF BaseInv, TypeOK
  <2>11. CASE GraceEnds
    <3>1. ChildrenOK'
      BY <2>11 DEF GraceEnds, BaseInv, TypeOK, ChildrenOK, Alive, SignalInv,
         spawnVars, policyVars, requestVars
    <3>2. SupervisionOK' /\ PolicyOK' /\ RequestsOK'
      BY <2>11 DEF GraceEnds, BaseInv, TypeOK, ChildrenOK, SupervisionOK,
         PolicyOK, RequestsOK, spawnVars, policyVars, requestVars
    <3>3. FlagsOK'
      BY <2>11 DEF GraceEnds, BaseInv, TypeOK, FlagsOK, spawnVars, policyVars,
         requestVars
    <3>4. SpawnInv' /\ SignalInv'
      BY <2>11 DEF GraceEnds, BaseInv, TypeOK, SpawnInv, SignalInv, spawnVars,
         policyVars, requestVars
    <3>5. QED BY <3>1, <3>2, <3>3, <3>4 DEF BaseInv, TypeOK
  <2>12. CASE AppExits
    <3>1. ChildrenOK'
      BY <2>12 DEF AppExits, BaseInv, TypeOK, ChildrenOK, Alive, osVars,
         spawnVars, policyVars, requestVars
    <3>2. SupervisionOK' /\ PolicyOK' /\ RequestsOK'
      BY <2>12 DEF AppExits, BaseInv, TypeOK, ChildrenOK, SupervisionOK,
         PolicyOK, RequestsOK, osVars, spawnVars, policyVars, requestVars
    <3>3. FlagsOK'
      BY <2>12 DEF AppExits, BaseInv, TypeOK, FlagsOK, osVars, spawnVars,
         policyVars, requestVars
    <3>4. SpawnInv' /\ SignalInv'
      BY <2>12 DEF AppExits, BaseInv, TypeOK, SpawnInv, SignalInv, osVars,
         spawnVars, policyVars, requestVars
    <3>5. QED BY <3>1, <3>2, <3>3, <3>4 DEF BaseInv, TypeOK
  <2>13. ASSUME NEW d \in Alive \cup {External}, Serves(d) PROVE BaseInv'
    <3>1. ChildrenOK'
      BY <2>13 DEF Serves, BaseInv, TypeOK, ChildrenOK, Alive, spawnVars,
         policyVars, requestVars, quitVars
    <3>2. SupervisionOK' /\ PolicyOK' /\ RequestsOK'
      BY <2>13 DEF Serves, BaseInv, TypeOK, ChildrenOK, SupervisionOK,
         PolicyOK, RequestsOK, spawnVars, policyVars, requestVars, quitVars
    <3>3. FlagsOK'
      BY <2>13 DEF Serves, BaseInv, TypeOK, FlagsOK, spawnVars, policyVars,
         requestVars, quitVars
    <3>4. SpawnInv' /\ SignalInv'
      BY <2>13 DEF Serves, BaseInv, TypeOK, SpawnInv, SignalInv, spawnVars,
         policyVars, requestVars, quitVars
    <3>5. QED BY <3>1, <3>2, <3>3, <3>4 DEF BaseInv, TypeOK
  <2>14. CASE ExternalStops
    <3>1. ChildrenOK'
      BY <2>14 DEF ExternalStops, BaseInv, TypeOK, ChildrenOK, Alive,
         spawnVars, policyVars, requestVars, quitVars
    <3>2. SupervisionOK' /\ PolicyOK' /\ RequestsOK'
      BY <2>14 DEF ExternalStops, BaseInv, TypeOK, ChildrenOK, SupervisionOK,
         PolicyOK, RequestsOK, spawnVars, policyVars, requestVars, quitVars
    <3>3. FlagsOK'
      BY <2>14 DEF ExternalStops, BaseInv, TypeOK, FlagsOK, spawnVars,
         policyVars, requestVars, quitVars
    <3>4. SpawnInv' /\ SignalInv'
      BY <2>14 DEF ExternalStops, BaseInv, TypeOK, SpawnInv, SignalInv,
         spawnVars, policyVars, requestVars, quitVars
    <3>5. QED BY <3>1, <3>2, <3>3, <3>4 DEF BaseInv, TypeOK
  <2>15. CASE UNCHANGED vars
    <3>1. ChildrenOK'
      BY <2>15 DEF vars, BaseInv, TypeOK, ChildrenOK, Alive, osVars, spawnVars,
         policyVars, requestVars, quitVars
    <3>2. SupervisionOK' /\ PolicyOK' /\ RequestsOK'
      BY <2>15 DEF vars, BaseInv, TypeOK, ChildrenOK, SupervisionOK, PolicyOK,
         RequestsOK, osVars, spawnVars, policyVars, requestVars, quitVars
    <3>3. FlagsOK'
      BY <2>15 DEF vars, BaseInv, TypeOK, FlagsOK, osVars, spawnVars,
         policyVars, requestVars, quitVars
    <3>4. SpawnInv' /\ SignalInv'
      BY <2>15 DEF vars, BaseInv, TypeOK, SpawnInv, SignalInv, osVars,
         spawnVars, policyVars, requestVars, quitVars
    <3>5. QED BY <3>1, <3>2, <3>3, <3>4 DEF BaseInv, TypeOK
  <2>16. QED BY <2>1, <2>2, <2>3, <2>4, <2>5, <2>6, <2>7, <2>8, <2>9, <2>10,
            <2>11, <2>12, <2>13, <2>14, <2>15 DEF Next
<1>3. QED BY <1>1, <1>2, PTL DEF Spec

\* The state the module's variables are always in (TypeOK).
THEOREM SupervisorTyped == Spec => []TypeOK
<1>1. BaseInv => TypeOK
  BY DEF BaseInv
<1>2. QED BY <1>1, BaseCorrect, PTL

-----------------------------------------------------------------------------
(* The invariants.  A step changes who is alive by a fork or an exit only. *)

\* Nobody is alive before the start is over.
LEMMA NobodyBeforeStart ==
  ASSUME BaseInv, start = "probing"
  PROVE  Alive = {} /\ restarts = 0
<1>1. \A p \in Children : p > spawned
  BY SidecarAssumption DEF SidecarAssumption, BaseInv, SpawnInv, Children
<1>2. QED BY <1>1 DEF BaseInv, SpawnInv, Alive

\* A fork where nobody is alive and nothing is due leaves one supervised child.
LEMMA ForkIsAlone ==
  ASSUME BaseInv, Spawn, Alive = {}, restarts' = 0
  PROVE  AloneInv'
<1>1. Alive' \subseteq {sidecar'}
  BY SpawnIsFresh DEF Spawn
<1>2. QED BY <1>1 DEF AloneInv

\* A step that forks nobody and schedules nothing leaves the child alone.
LEMMA QuietIsAlone ==
  ASSUME AloneInv, Alive' = Alive, restarts' = restarts, sidecar' = sidecar,
         beside' = beside, quit' = "no" => quit = "no"
  PROVE  AloneInv'
  BY DEF AloneInv

\* The supervisor runs one child and no restart beside it (AloneInv).
THEOREM ChildIsAlone == Spec => []AloneInv
<1>1. Init => AloneInv
  BY DEF Init, AloneInv, Alive
<1>2. BaseInv /\ AloneInv /\ [Next]_vars => AloneInv'
  <2> SUFFICES ASSUME BaseInv, AloneInv, [Next]_vars PROVE AloneInv'
    OBVIOUS
  <2>1. ASSUME NEW p \in Alive, ChildExits(p) PROVE AloneInv'
    <3>1. Alive' = Alive \ {p} /\ beside' = beside
      BY <2>1 DEF ChildExits, Alive, BaseInv, TypeOK, ChildrenOK, requestVars
    <3>2. restarts' \in {restarts, restarts + 1}
      BY <2>1 DEF ChildExits, OnExit, Suppressed, GiveUp, RestartLater, policyVars
    <3>3. ~beside => Alive' = {} /\ restarts = 0
      BY <3>1 DEF AloneInv
    <3>4. QED BY <3>1, <3>2, <3>3 DEF AloneInv
  <2>2. ASSUME NEW g \in probes, ProbeReturns(g) PROVE AloneInv'
    <3>1. restarts' = restarts
      BY <2>2 DEF ProbeReturns, ProbeIgnored, ProbeHealthy, ProbeFails, Kill
    <3>2. QED BY <2>2, <3>1, QuietIsAlone DEF ProbeReturns, osVars,
             requestVars, quitVars, Alive
  <2>3. CASE EscalationFires
    BY <2>3, QuietIsAlone DEF EscalationFires, Alive, spawnVars, policyVars,
       requestVars, quitVars
  <2>4. CASE WatchdogFires
    BY <2>4, QuietIsAlone DEF WatchdogFires, Alive, osVars, policyVars,
       requestVars, quitVars
  <2>5. CASE RestartFires
    <3>1. restarts > 0 /\ restarts' = restarts - 1 /\ beside' = beside
      BY <2>5 DEF RestartFires, requestVars
    <3>2. ~beside => Alive = {} /\ restarts' = 0
      BY <3>1 DEF AloneInv
    <3>3. CASE shutting
      BY <2>5, <3>1, <3>2, <3>3 DEF RestartFires, spawnVars, AloneInv, Alive
    <3>4. CASE ~shutting
      BY <2>5, <3>1, <3>2, <3>4, ForkIsAlone DEF RestartFires, AloneInv
    <3>5. QED BY <3>3, <3>4
  <2>6. CASE StartReturns
    <3>1. Alive = {} /\ restarts' = 0 /\ beside' = beside /\ quit' = quit
      BY <2>6, NobodyBeforeStart DEF StartReturns, policyVars, quitVars
    <3>2. CASE Spawn
      BY <3>1, <3>2, ForkIsAlone
    <3>3. CASE UNCHANGED child
      BY <3>1, <3>3 DEF AloneInv, Alive
    <3>4. QED BY <2>6, <3>2, <3>3 DEF StartReturns, spawnVars
  <2>7. CASE DemandBegins
    BY <2>7, QuietIsAlone DEF DemandBegins, Alive, osVars, spawnVars,
       policyVars, quitVars
  <2>8. CASE DemandReturns
    <3>1. restarts' = restarts /\ quit' = quit /\ restarts \in Nat
      BY <2>8 DEF DemandReturns, policyVars, quitVars, BaseInv, TypeOK, PolicyOK
    <3>2. CASE Spawn /\ beside' = (beside \/ Alive # {} \/ restarts > 0)
      <4>1. CASE Alive = {} /\ restarts = 0
        BY <3>1, <3>2, <4>1, ForkIsAlone
      <4>2. CASE Alive # {} \/ restarts > 0
        BY <3>2, <4>2 DEF AloneInv
      <4>3. QED BY <3>1, <4>1, <4>2
    <3>3. CASE UNCHANGED <<spawnVars, beside>>
      BY <3>1, <3>3, QuietIsAlone DEF spawnVars, Alive
    <3>4. QED BY <2>8, <3>2, <3>3 DEF DemandReturns
  <2>9. CASE QuitExternal
    BY <2>9, QuietIsAlone DEF QuitExternal, Alive, osVars, spawnVars,
       policyVars, requestVars
  <2>10. CASE QuitSidecar
    <3>1. /\ Alive' = Alive /\ beside' = beside /\ quit' # "no"
      BY <2>10 DEF QuitSidecar, Alive, osVars, requestVars
    <3>2. restarts' \in {restarts, restarts - 1} /\ restarts' \in Nat
      <4>1. CASE restartTimer
        BY <2>10, <4>1 DEF QuitSidecar, BaseInv, TypeOK, PolicyOK, SpawnInv
      <4>2. CASE ~restartTimer
        BY <2>10, <4>2 DEF QuitSidecar, BaseInv, TypeOK, PolicyOK
      <4>3. QED BY <4>1, <4>2
    <3>3. QED BY <3>1, <3>2 DEF AloneInv
  <2>11. CASE GraceEnds
    BY <2>11, QuietIsAlone DEF GraceEnds, Alive, spawnVars, policyVars, requestVars
  <2>12. CASE AppExits
    BY <2>12, QuietIsAlone DEF AppExits, Alive, osVars, spawnVars, policyVars,
       requestVars
  <2>13. ASSUME NEW d \in Alive \cup {External}, Serves(d) PROVE AloneInv'
    BY <2>13, QuietIsAlone DEF Serves, Alive, spawnVars, policyVars,
       requestVars, quitVars
  <2>14. CASE ExternalStops
    BY <2>14, QuietIsAlone DEF ExternalStops, Alive, spawnVars, policyVars,
       requestVars, quitVars
  <2>15. CASE UNCHANGED vars
    BY <2>15, QuietIsAlone DEF vars, Alive, osVars, spawnVars, policyVars,
       requestVars, quitVars
  <2>16. QED BY <2>1, <2>2, <2>3, <2>4, <2>5, <2>6, <2>7, <2>8, <2>9, <2>10,
            <2>11, <2>12, <2>13, <2>14, <2>15 DEF Next
<1>3. QED BY <1>1, <1>2, BaseCorrect, PTL DEF Spec

\* "We must NEVER run a second daemon alongside" holds but for the user's
\* request (SupervisorRunsOne).
THEOREM OneDaemonUnlessAsked == Spec => []SupervisorRunsOne
<1>1. AloneInv => SupervisorRunsOne
  <2> SUFFICES ASSUME AloneInv, ~beside PROVE OneChild
    BY DEF SupervisorRunsOne
  <2>1. CASE Alive = {}
    BY <2>1, FS_EmptySet DEF OneChild
  <2>2. CASE Alive # {}
    <3>1. PICK p : Alive = {p}
      BY <2>2 DEF AloneInv
    <3>2. QED BY <3>1, FS_Singleton DEF OneChild
  <2>3. QED BY <2>1, <2>2
<1>2. QED BY <1>1, ChildIsAlone, PTL

-----------------------------------------------------------------------------
\* A step that signals nobody less and adds nobody keeps the promise of the quit.
LEMMA QuietIsAsked ==
  ASSUME AskedInv, Alive' \subseteq Alive, killed \subseteq killed',
         late \subseteq late', beside' = beside, mode' = mode,
         quit' # "no" => quit # "no"
  PROVE  AskedInv'
  BY DEF AskedInv

\* From the start of the quit on, whoever is left was asked to stop or is late
\* (AskedInv).
THEOREM LeftoversAreAsked == Spec => []AskedInv
<1>1. Init => AskedInv
  BY DEF Init, AskedInv
<1>2. BaseInv /\ AloneInv /\ AskedInv /\ [Next]_vars => AskedInv'
  <2> SUFFICES ASSUME BaseInv, AloneInv, AskedInv, [Next]_vars PROVE AskedInv'
    OBVIOUS
  <2>1. ASSUME NEW p \in Alive, ChildExits(p) PROVE AskedInv'
    <3>1. Alive' \subseteq Alive
      BY <2>1 DEF ChildExits, Alive, BaseInv, TypeOK, ChildrenOK
    <3>2. quit' # "no" => quit # "no"
      BY <2>1 DEF ChildExits
    <3>3. QED BY <2>1, <3>1, <3>2, QuietIsAsked DEF ChildExits, requestVars
  <2>2. ASSUME NEW g \in probes, ProbeReturns(g) PROVE AskedInv'
    <3>1. killed \subseteq killed'
      BY <2>2 DEF ProbeReturns, ProbeIgnored, ProbeHealthy, ProbeFails, Kill
    <3>2. QED BY <2>2, <3>1, QuietIsAsked DEF ProbeReturns, osVars,
             requestVars, quitVars, Alive
  <2>3. CASE EscalationFires
    BY <2>3, QuietIsAsked DEF EscalationFires, Alive, spawnVars, policyVars,
       requestVars, quitVars
  <2>4. CASE WatchdogFires
    BY <2>4, QuietIsAsked DEF WatchdogFires, Alive, osVars, policyVars,
       requestVars, quitVars
  <2>5. CASE RestartFires
    <3>1. CASE shutting
      BY <2>5, <3>1, QuietIsAsked DEF RestartFires, Alive, spawnVars,
         requestVars, quitVars
    <3>2. CASE ~shutting
      <4>1. Spawn /\ UNCHANGED <<killed, beside, mode, quit>>
        BY <2>5, <3>2 DEF RestartFires, requestVars, quitVars
      <4>2. Alive' \subseteq Alive \cup {spawned'}
        BY <4>1, SpawnIsFresh
      <4>3. late \subseteq late' /\ (quit # "no" => spawned' \in late')
        BY <4>1 DEF Spawn
      <4>4. QED BY <4>1, <4>2, <4>3 DEF AskedInv
    <3>3. QED BY <3>1, <3>2
  <2>6. CASE StartReturns
    <3>1. Alive = {} /\ quit' = quit
      BY <2>6, NobodyBeforeStart DEF StartReturns, quitVars
    <3>2. CASE Spawn
      <4>1. Alive' \subseteq {spawned'} /\ (quit # "no" => spawned' \in late')
        BY <3>1, <3>2, SpawnIsFresh DEF Spawn
      <4>2. QED BY <3>1, <4>1 DEF AskedInv
    <3>3. CASE UNCHANGED child
      BY <3>1, <3>3 DEF AskedInv, Alive
    <3>4. QED BY <2>6, <3>2, <3>3 DEF StartReturns, spawnVars
  <2>7. CASE DemandBegins
    BY <2>7, QuietIsAsked DEF DemandBegins, Alive, osVars, spawnVars,
       policyVars, quitVars
  <2>8. CASE DemandReturns
    <3>1. quit' = quit /\ killed' = killed
      BY <2>8 DEF DemandReturns, quitVars
    <3>2. CASE Spawn /\ beside' = (beside \/ Alive # {} \/ restarts > 0)
      <4>1. CASE Alive = {}
        <5>1. Alive' \subseteq {spawned'} /\ (quit # "no" => spawned' \in late')
          BY <3>2, <4>1, SpawnIsFresh DEF Spawn
        <5>2. QED BY <3>1, <5>1 DEF AskedInv
      <4>2. CASE Alive # {}
        BY <3>2, <4>2 DEF AskedInv
      <4>3. QED BY <4>1, <4>2
    <3>3. CASE UNCHANGED <<spawnVars, beside>> /\ mode' \in {mode, "external"}
      BY <3>1, <3>3 DEF spawnVars, Alive, AskedInv
    <3>4. QED BY <2>8, <3>2, <3>3 DEF DemandReturns
  <2>9. CASE QuitExternal
    BY <2>9 DEF QuitExternal, AskedInv, requestVars
  <2>10. CASE QuitSidecar
    <3>1. Alive' = Alive /\ beside' = beside /\ quit = "no" /\ killed \subseteq killed'
      BY <2>10 DEF QuitSidecar, Alive, osVars, requestVars
    <3>2. sidecar \in Alive => sidecar \in killed'
      BY <2>10 DEF QuitSidecar, Asked, SidecarRuns
    <3>3. QED BY <3>1, <3>2 DEF AloneInv, AskedInv
  <2>11. CASE GraceEnds
    BY <2>11, QuietIsAsked DEF GraceEnds, Alive, spawnVars, policyVars, requestVars
  <2>12. CASE AppExits
    BY <2>12, QuietIsAsked DEF AppExits, Alive, osVars, spawnVars, policyVars,
       requestVars
  <2>13. ASSUME NEW d \in Alive \cup {External}, Serves(d) PROVE AskedInv'
    BY <2>13, QuietIsAsked DEF Serves, Alive, spawnVars, policyVars,
       requestVars, quitVars
  <2>14. CASE ExternalStops
    BY <2>14, QuietIsAsked DEF ExternalStops, Alive, spawnVars, policyVars,
       requestVars, quitVars
  <2>15. CASE UNCHANGED vars
    BY <2>15, QuietIsAsked DEF vars, Alive, osVars, spawnVars, policyVars,
       requestVars, quitVars
  <2>16. QED BY <2>1, <2>2, <2>3, <2>4, <2>5, <2>6, <2>7, <2>8, <2>9, <2>10,
            <2>11, <2>12, <2>13, <2>14, <2>15 DEF Next
<1>3. QED BY <1>1, <1>2, BaseCorrect, ChildIsAlone, PTL DEF Spec

\* A daemon of the app that outlives it was asked to stop, but for the cases
\* named in SurvivorsWereAsked.
THEOREM QuitAsksEveryone == Spec => []SurvivorsWereAsked
<1>1. AskedInv => SurvivorsWereAsked
  BY DEF AskedInv, SurvivorsWereAsked
<1>2. QED BY <1>1, LeftoversAreAsked, PTL

-----------------------------------------------------------------------------
\* A step that leaves the supervised child and its watch alone.
LEMMA QuietIsWatched ==
  ASSUME ChildIsWatched, Alive' \subseteq Alive,
         quit' # "exited" => quit # "exited",
         UNCHANGED <<shutting, sidecar, watchdog, generation, probes>>,
         escalation' = escalation \/ escalation \in slain' \/ escalation \notin Alive,
         slain \subseteq slain'
  PROVE  ChildIsWatched'
  BY DEF ChildIsWatched, Running

\* Whatever state a supervised child is in, something will look at it again.
THEOREM NobodyIsForgotten == Spec => []ChildIsWatched
<1>1. Init => ChildIsWatched
  BY DEF Init, ChildIsWatched, Alive
<1>2. BaseInv /\ ChildIsWatched /\ [Next]_vars => ChildIsWatched'
  <2> SUFFICES ASSUME BaseInv, ChildIsWatched, [Next]_vars PROVE ChildIsWatched'
    OBVIOUS
  <2>0. 0 \notin Children
    BY SidecarAssumption DEF SidecarAssumption, Children
  <2>1. ASSUME NEW p \in Alive, ChildExits(p) PROVE ChildIsWatched'
    <3>1. CASE Running
      BY <2>0, <2>1, <3>1 DEF ChildExits, ChildIsWatched, Alive
    <3>2. CASE ~Running
      BY <2>1, <3>2 DEF ChildExits, ChildIsWatched, Running
    <3>3. QED BY <3>1, <3>2
  <2>2. ASSUME NEW g \in probes, ProbeReturns(g) PROVE ChildIsWatched'
    <3>1. /\ UNCHANGED <<child, sidecar, generation, quit, shutting>>
          /\ probes' = probes \ {g}
      BY <2>2 DEF ProbeReturns, quitVars
    <3>2. CASE ProbeIgnored(g)
      <4>1. shutting \/ sidecar = 0 \/ g # generation
        BY <3>2 DEF ProbeIgnored, Stale
      <4>2. UNCHANGED <<watchdog, escalation, slain>>
        BY <3>2 DEF ProbeIgnored
      <4>3. QED BY <2>0, <3>1, <4>1, <4>2 DEF ChildIsWatched, Running, Alive
    <3>3. CASE ProbeHealthy(g)
      BY <3>3 DEF ProbeHealthy, ChildIsWatched
    <3>4. CASE ProbeFails(g)
      BY <3>1, <3>4 DEF ProbeFails, Kill, ChildIsWatched, Alive
    <3>5. QED BY <2>2, <3>2, <3>3, <3>4 DEF ProbeReturns
  <2>3. CASE EscalationFires
    <3>1. /\ UNCHANGED <<child, quit, shutting, sidecar, watchdog, generation,
                         probes>>
          /\ slain' = slain \cup ({escalation} \cap Alive)
      BY <2>3 DEF EscalationFires, spawnVars, quitVars
    <3>2. QED BY <3>1, QuietIsWatched DEF Alive
  <2>4. CASE WatchdogFires
    BY <2>0, <2>4 DEF WatchdogFires, ChildIsWatched, Alive, Running, osVars,
       quitVars
  <2>5. CASE RestartFires
    <3>1. CASE shutting
      BY <2>5, <3>1 DEF RestartFires, ChildIsWatched
    <3>2. CASE ~shutting
      BY <2>5, <3>2 DEF RestartFires, Spawn, ChildIsWatched
    <3>3. QED BY <3>1, <3>2
  <2>6. CASE StartReturns
    <3>1. CASE Spawn
      BY <3>1 DEF Spawn, ChildIsWatched
    <3>2. CASE UNCHANGED <<child, sidecar, watchdog, generation, shutting>>
      BY <2>6, <3>2, QuietIsWatched DEF StartReturns, quitVars, Alive
    <3>3. QED BY <2>6, <3>1, <3>2 DEF StartReturns, spawnVars
  <2>7. CASE DemandBegins
    BY <2>7, QuietIsWatched DEF DemandBegins, Alive, osVars, spawnVars, quitVars
  <2>8. CASE DemandReturns
    <3>1. CASE Spawn
      BY <3>1 DEF Spawn, ChildIsWatched
    <3>2. CASE UNCHANGED <<spawnVars, shutting>>
      BY <2>8, <3>2, QuietIsWatched DEF DemandReturns, spawnVars, quitVars, Alive
    <3>3. QED BY <2>8, <3>1, <3>2 DEF DemandReturns
  <2>9. CASE QuitExternal
    BY <2>9, QuietIsWatched DEF QuitExternal, Alive, osVars, spawnVars
  <2>10. CASE QuitSidecar
    BY <2>10 DEF QuitSidecar, ChildIsWatched
  <2>11. CASE GraceEnds
    BY <2>11, QuietIsWatched DEF GraceEnds, Alive, spawnVars
  <2>12. CASE AppExits
    BY <2>12 DEF AppExits, ChildIsWatched, Running
  <2>13. ASSUME NEW d \in Alive \cup {External}, Serves(d) PROVE ChildIsWatched'
    BY <2>13, QuietIsWatched DEF Serves, Alive, spawnVars, quitVars
  <2>14. CASE ExternalStops
    BY <2>14, QuietIsWatched DEF ExternalStops, Alive, spawnVars, quitVars
  <2>15. CASE UNCHANGED vars
    BY <2>15, QuietIsWatched DEF vars, Alive, osVars, spawnVars, quitVars
  <2>16. QED BY <2>1, <2>2, <2>3, <2>4, <2>5, <2>6, <2>7, <2>8, <2>9, <2>10,
            <2>11, <2>12, <2>13, <2>14, <2>15 DEF Next
<1>3. QED BY <1>1, <1>2, BaseCorrect, PTL DEF Spec

-----------------------------------------------------------------------------
\* A step that leaves the daemons, the restarts and the notices alone.
LEMMA QuietIsNotSilent ==
  ASSUME NotSilentlyDead, Alive' = Alive, restarts' = restarts, told' = told,
         mode' \in {mode, "external"}, quit' = "no" => quit = "no"
  PROVE  NotSilentlyDead'
  BY DEF NotSilentlyDead

\* A fork that fails says so, and one that does not fail is alive.
LEMMA ForkIsNotSilent ==
  ASSUME BaseInv, Spawn
  PROVE  NotSilentlyDead'
<1>1. CASE told' = "startfailed"
  BY <1>1 DEF NotSilentlyDead
<1>2. CASE child' = [child EXCEPT ![spawned'] = "alive"]
  <2>1. spawned' \in Children /\ child \in [Children -> {"none", "alive", "gone"}]
    BY SpawnIsFresh DEF BaseInv, TypeOK, ChildrenOK
  <2>2. spawned' \in Alive'
    BY <1>2, <2>1 DEF Alive, Children
  <2>3. QED BY <2>2 DEF NotSilentlyDead
<1>3. QED BY <1>1, <1>2 DEF Spawn

\* A daemon that is gone for good was reported.
THEOREM NoSilentLoss == Spec => []NotSilentlyDead
<1>1. Init => NotSilentlyDead
  BY DEF Init, NotSilentlyDead
<1>2. BaseInv /\ NotSilentlyDead /\ [Next]_vars => NotSilentlyDead'
  <2> SUFFICES ASSUME BaseInv, NotSilentlyDead, [Next]_vars PROVE NotSilentlyDead'
    OBVIOUS
  <2>1. ASSUME NEW p \in Alive, ChildExits(p) PROVE NotSilentlyDead'
    <3>1. CASE quit' # "no"
      BY <3>1 DEF NotSilentlyDead
    <3>2. CASE quit' = "no"
      <4>1. quit = "no" /\ Running /\ ~intentional
        BY <2>1, <3>2 DEF ChildExits, Running, BaseInv, SignalInv
      <4>2. PICK n : GiveUp(n) \/ RestartLater(n)
        BY <2>1, <4>1 DEF ChildExits, OnExit, Suppressed
      <4>3. CASE GiveUp(n)
        BY <4>3 DEF GiveUp, NotSilentlyDead
      <4>4. CASE RestartLater(n)
        BY <4>4 DEF RestartLater, NotSilentlyDead, BaseInv, TypeOK, PolicyOK
      <4>5. QED BY <4>2, <4>3, <4>4
    <3>3. QED BY <3>1, <3>2
  <2>2. ASSUME NEW g \in probes, ProbeReturns(g) PROVE NotSilentlyDead'
    <3>1. restarts' = restarts
      BY <2>2 DEF ProbeReturns, ProbeIgnored, ProbeHealthy, ProbeFails, Kill
    <3>2. QED BY <2>2, <3>1, QuietIsNotSilent DEF ProbeReturns, osVars,
             requestVars, quitVars, Alive
  <2>3. CASE EscalationFires
    BY <2>3, QuietIsNotSilent DEF EscalationFires, Alive, spawnVars, policyVars,
       requestVars, quitVars
  <2>4. CASE WatchdogFires
    BY <2>4, QuietIsNotSilent DEF WatchdogFires, Alive, osVars, policyVars,
       requestVars, quitVars
  <2>5. CASE RestartFires
    <3>1. CASE shutting
      BY <2>5, <3>1 DEF RestartFires, NotSilentlyDead, BaseInv, SignalInv, quitVars
    <3>2. CASE ~shutting
      BY <2>5, <3>2, ForkIsNotSilent DEF RestartFires
    <3>3. QED BY <3>1, <3>2
  <2>6. CASE StartReturns
    <3>1. CASE Spawn
      BY <3>1, ForkIsNotSilent
    <3>2. CASE mode' = "external" \/ told' = "startfailed"
      BY <3>2 DEF NotSilentlyDead
    <3>3. QED BY <2>6, <3>1, <3>2 DEF StartReturns
  <2>7. CASE DemandBegins
    BY <2>7, QuietIsNotSilent DEF DemandBegins, Alive, osVars, spawnVars,
       policyVars, quitVars
  <2>8. CASE DemandReturns
    <3>1. CASE Spawn
      BY <3>1, ForkIsNotSilent
    <3>2. CASE UNCHANGED spawnVars /\ mode' \in {mode, "external"}
      BY <2>8, <3>2, QuietIsNotSilent DEF DemandReturns, spawnVars, policyVars,
         quitVars, Alive
    <3>3. QED BY <2>8, <3>1, <3>2 DEF DemandReturns
  <2>9. CASE QuitExternal
    BY <2>9 DEF QuitExternal, NotSilentlyDead
  <2>10. CASE QuitSidecar
    BY <2>10 DEF QuitSidecar, NotSilentlyDead
  <2>11. CASE GraceEnds
    BY <2>11 DEF GraceEnds, NotSilentlyDead
  <2>12. CASE AppExits
    BY <2>12 DEF AppExits, NotSilentlyDead
  <2>13. ASSUME NEW d \in Alive \cup {External}, Serves(d) PROVE NotSilentlyDead'
    BY <2>13, QuietIsNotSilent DEF Serves, Alive, spawnVars, policyVars,
       requestVars, quitVars
  <2>14. CASE ExternalStops
    BY <2>14, QuietIsNotSilent DEF ExternalStops, Alive, spawnVars, policyVars,
       requestVars, quitVars
  <2>15. CASE UNCHANGED vars
    BY <2>15, QuietIsNotSilent DEF vars, Alive, osVars, spawnVars, policyVars,
       requestVars, quitVars
  <2>16. QED BY <2>1, <2>2, <2>3, <2>4, <2>5, <2>6, <2>7, <2>8, <2>9, <2>10,
            <2>11, <2>12, <2>13, <2>14, <2>15 DEF Next
<1>3. QED BY <1>1, <1>2, BaseCorrect, PTL DEF Spec

-----------------------------------------------------------------------------
\* No step signals a child for another one's failed probe: the probe's own
\* child, the quit, or nobody new (a SIGKILL follows a SIGTERM).
THEOREM SignalsHaveCause == Spec => ProbesHitTheirChild
<1>1. BaseInv /\ [Next]_vars => [SignalledForCause]_vars
  <2> SUFFICES ASSUME BaseInv, Next PROVE SignalledForCause
    BY DEF SignalledForCause
  <2>1. CASE killed' = killed
    BY <2>1 DEF SignalledForCause
  <2>2. ASSUME NEW g \in probes, ProbeReturns(g) PROVE SignalledForCause
    <3>1. CASE killed' = killed
      BY <3>1 DEF SignalledForCause
    <3>2. CASE ProbeFails(g)
      <4>1. g = generation /\ killed' \subseteq killed \cup {sidecar}
        BY <3>2 DEF ProbeFails, Stale, Kill
      <4>2. QED BY <4>1 DEF SignalledForCause
    <3>3. QED BY <2>2, <3>1, <3>2 DEF ProbeReturns, ProbeIgnored, ProbeHealthy
  <2>3. CASE EscalationFires
    <3>1. killed' = killed
      BY <2>3 DEF EscalationFires, BaseInv, SignalInv
    <3>2. QED BY <3>1 DEF SignalledForCause
  <2>4. CASE QuitSidecar
    <3>1. quit' # quit
      BY <2>4 DEF QuitSidecar
    <3>2. QED BY <3>1 DEF SignalledForCause
  <2>5. QED BY <2>1, <2>2, <2>3, <2>4 DEF Next, ChildExits, Serves,
           WatchdogFires, RestartFires, StartReturns, DemandBegins,
           DemandReturns, QuitExternal, GraceEnds, AppExits, ExternalStops
<1>2. QED BY <1>1, BaseCorrect, PTL DEF Spec, ProbesHitTheirChild

=============================================================================
