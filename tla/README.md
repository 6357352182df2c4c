# Verification of the Cloudlands desktop client

TLA+ models of the parts of this repository where the order of events decides whether the app works: the main process's
JSON-RPC client for the `intentd` daemon, the pool of such clients and its retirement, the supervisor of the daemon the
app starts for itself, the renderer's replicas of the daemon's collections, and the reads a mounted workspace makes. TLC
checks each on small instances; TLAPS proves the invariants of the client, the replicas, the pool, its retirement, the
supervisor, the read slots and the hydration, that the client implements the contract its callers rely on, and that a
replica implements the view its handler shows, for every value of the constants.

All paths below are relative to the repository (`src/...` is its source directory).

## 1. The system

An Electron app (main process and windows) and a web build of the same renderer. Agents, workspaces and files live in a
separate daemon, `intentd`, on this machine or another one. The app reaches it through one chain:

    Svelte components / Redux sagas
        |     mounted workspaces: generations, read slots           <-- WorkspaceHydration, WorkspaceReads
        |  AppClient (src/lib/client): queries, mutations, subscriptions
        |     live clients + DeltaReconciler / delta channels   <-- DeltaSubscription
        |  transport: Electron IPC, or a WebSocket in the web build
        v
    main process: backend.ipc (one client per connection, windows) <-- BackendPool, PoolRetirement
        |  JsonRpcClient                                        <-- JsonRpcClient, RequestChannel
        |     socket from backend-connection (host race, TLS, tunnel)
        v
    intentd  <--- spawned and supervised by intentd-sidecar     <-- IntentdSidecar

Every step of that chain is asynchronous: a request, the socket it was written to, the window that made it and the
daemon may each end before the others.

### 1.1 Components, their state and operations

| Component | State | Operations | Talks to |
|---|---|---|---|
| JSON-RPC client (`features/backend/main/json-rpc-client.ts`, `shared/daemon-startup.ts`) | socket and its generation, status, pending requests, connect waiters, reconnect timer and backoff, hello revision / snapshot / identity, startup poller, heartbeat counters | `start`, `request`, `dispose`, `beginRetirement`; socket, timer, poll and frame callbacks | daemon; pool above it through events (`status`, `reconnected`, identity) |
| Sidecar supervisor (`intentd-sidecar.ts`, `restart-policy.ts`) | child handle and generation, watchdog and kill timers, failure count, restart budget, connection mode | `startIntentdSidecar`, `spawnSidecarOnDemand`, `stopIntentdSidecar`; exit, probe and timer callbacks | operating system, socket probe, renderer notices, app shutdown (`main/index.ts`) |
| Delta subscriptions (`lib/client/live/delta-subscription.ts`) | per channel: registration, subscription id, retry timer, expected sequence, rows, continuation; shared buffer of early pushes | subscribe, push, page, resnapshot, `reconcileDesiredIds`, reconnect, dispose | transport, handler that feeds the store |
| Backend pool and IPC (`backend.ipc.ts`, `connection-config.ts`) | client per connection, constructions in flight, credential generations, connection lane; when enrolled, a phase, admitted work, members with tickets | open, forget, re-pair, update, rebuild, close; `retire`, `retireMember`; forward | JSON-RPC clients, both stores, windows, the dock |
| Backend connection (`backend-connection.ts`, `tailcat-tunnel.ts`) | candidates of a race, their sockets | dial, pin, race, cancel | network, tunnel |
| Connection and guest-session stores | records with tombstones, keychain copies | add, remove, merge | keychain, disk |
| Tunnel manager | port tunnels per workspace | open, close, reconcile | daemon over WebSocket |
| Repository feeds | relays scoped to the acknowledged identity | start, stop on identity change | JSON-RPC client, windows |
| Live clients, IPC and browser transports | subscriptions by id, the web build's own socket | request, subscribe, reconnect | main process or daemon |
| Workspace reads (`workspace-read-scheduler.ts`) | slots, a queue, the streak of priority grants | acquire, release | lifecycle sagas |
| Hydration of mounted workspaces (`lifecycle-ipc-read-saga.ts`) | generation, deferred branches and worker of each workspace, path waits | mount, unmount, promote, flush, reconnect, switch | the tier scheduler, Redux, live clients |
| Save queue, notes write saga, pending submissions | queues, retries | schedule, flush, cancel, acknowledge | live clients, Redux |
| Agent circuit breaker, terminal state machine, splash gate | counters or a mode | record, reset, transition | agents, terminals, connection status |
| Sign-in, auto-update, deep links, invites | one flow at a time | start, callback, time out | browser, updater |
| Interface, hardware, voice, browser features, native helpers, mocks | presentation, devices | -- | -- |

`PROJECT.json` lists all of them with their files, and for each one that is not modelled the reason.

### 1.2 What is hard, and what makes a component correct

*JSON-RPC client.* Three kinds of callers (ordinary requests, caller-issued `client.hello`s, daemon-issued reverse
requests) and six kinds of timers act on one socket that may be replaced under any of them, and the connect-time
handshake awaits twice (parameters, answer). It is correct when: a call never waits for a reply that cannot come; a
parked caller always has something under way that will decide it; at most one socket is open; nothing runs before the
hello is answered; the identity in force is that of the last hello and is retired before another is granted; subscriptions
come back after a reconnect; a refusal for the connection cap keeps the daemon's pace; a starting daemon is attended to by
exactly one of a poll, a timer and a dial; and a health probe never hurts the socket that replaced its own.

*Sidecar supervisor.* Exits, hangs, ignored signals, failed spawns, a crash loop, the user's requests and the app's quit
interleave with probes that were sent earlier. It is correct when it runs one daemon, looks again at every child it
supervises, never lets a daemon vanish silently, never signals a child for another one's failure, and leaves no daemon
behind that it did not ask to stop.

*Backend pool.* A client is built from a credential that is read in two awaits; the store may replace or remove it in
either of them, the dock may build the same client off the lane, and windows open and close meanwhile. It is correct when
no client of a superseded credential is ever pooled, a replaced one leaves no window unserved, a removed session leaves no
window behind, and the lane never wedges.

*Retirement.* A pool or a single client is retired while work that was admitted before still runs, makes requests, even
makes clients. It is correct when nothing runs on a client that was sealed, all clients of a pool are sealed in one turn
after all work has ended, an end is reported only after every socket closed, and there is an end.

*Reads and hydration.* Sagas are cancelled at any await, and generations of hydration overlap. They are correct when the
slots are counted exactly, no read is passed over for ever, and each branch of a mounted workspace is loaded once in its
present generation.

*Delta subscriptions.* Pushes may come before the reply that names their subscription, may be lost, and may overtake the
later pages of a snapshot; registrations fail, time out and are superseded. They are correct when they converge to the
daemon's rows, leak no subscription, never stay unseeded, and never flash the list empty.

## 2. The models

| Module | Models | Against |
|---|---|---|
| `JsonRpcClient` | the client, action by action | `json-rpc-client.ts`, `daemon-startup.ts` |
| `RequestChannel` | what `request()` promises, without sockets or timers | abstract specification |
| `JsonRpcClientRefinement` | the mapping from the first to the second | -- |
| `JsonRpcClientProofs` | theorems and proofs, of the refinement too | -- |
| `DeltaSubscription`, `DeltaSubscriptionProofs` | the renderer's replica, with daemon and transport as environment | `delta-subscription.ts` |
| `CollectionView` | what the handler of a collection is promised, without subscriptions, pushes or pages | abstract specification |
| `DeltaSubscriptionRefinement`, `DeltaSubscriptionRefinementProofs` | the mapping from the replica to the view, and its proof | -- |
| `IntentdSidecar` | the supervisor and the daemon part of the app's shutdown | `intentd-sidecar.ts`, `restart-policy.ts`, `main/index.ts` |
| `IntentdSidecarProofs` | theorems and proofs | -- |
| `BackendPool`, `BackendPoolProofs` | the pool, its constructions, the connection lane, what does not wait for it | `backend.ipc.ts`, `connection-config.ts`, `guest-sessions-store.ts`, `dock-window.ts`, `window.ts` |
| `PoolRetirement`, `PoolRetirementProofs` | the retirement of an enrolled pool and of its members | `backend.ipc.ts`, `json-rpc-client.ts` |
| `WorkspaceReads` | the read slots | `workspace-read-scheduler.ts` |
| `WorkspaceHydration` | hydration generations | `lifecycle-ipc-read-saga.ts`, `workspace-read-scheduler.ts` |
| `WorkspaceProofs` | theorems and proofs about the two | -- |
| `MCJsonRpcClient`, `MCDeltaSubscription`, `MCDeltaSubscriptionRefinement` | instances for TLC (symmetry sets) | -- |
| `MCComponents`, `MCComponentsProofs` | `BackendPool`, `PoolRetirement`, `WorkspaceReads` and `WorkspaceHydration` in one run | -- |

A step of a model is one turn of the event loop: a callback with everything it runs synchronously or in the microtasks
it queues. Time is abstract: a timer that is set may fire. Above several definitions stands a variant named for a bug
("Mutant: ..."); nothing uses it but the comparison that shows each property can fail.

### 2.1 JsonRpcClient

State follows the class's fields; the comment beside each variable names its field. `socket` is the *incarnation* of
the socket the client holds (0 for null), so "the same socket" in the code is an equality of numbers in the model.
`generation` is `connectionGeneration`. `hs` is where the connect-time handshake stands between its two awaits, `hello`
the same for a caller-issued hello, with `heldOn` the socket it captured and `begun` whether it demoted the status.
`Requests`, `Hellos` and `Reverse` are slots, used again when a promise settles, so any number of calls may be made one
after another.

| Action | Code |
|---|---|
| `Start`, `TimerFires`, `Open`, `DialFails`, `SocketDrops` | `start`, `connect`, the socket's callbacks, `onConnectionFailure` |
| `MalformedFrame` | `onData`'s handling of malformed frames, with its budget |
| `HandshakeParams`, `...Reject`, `HandshakeReply`, `...NotReady`, `...StartupFailed`, `...Timeout` | `performHelloHandshake` after each await, `finishConnect` |
| `PollFires`, `PollStarting`, `PollHandsOff`, `PollFailed` | `StartupPoller`, `startupHandoff` |
| `RequestSend`, `RequestPark`, `RequestSettles`, `Subscribe` | `request`, `ensureConnected`, the pending table |
| `HelloCall`, `HelloSend`, `HelloPark`, `HelloRefused`, `HelloParamsReject`, `HelloReply`, `HelloTimeout` | the `client.hello` branch of `request` |
| `BeatTick`, `ProbeOk`, `ProbeFail` | the heartbeat |
| `RevArrives`, `RevAnswers` | reverse requests and `writeReverseFrame` |
| `Dispose` | `dispose` |

Shared steps (`TeardownSocket`, `ConnectionFailure`, `FinishConnect`, `StartupHandoff`, ...) are operators named like
the methods. `sub` stands for one consumer's event subscription, which is parked, lost and made again like those of
the terminal registry (`terminal.ipc.ts`) on `reconnected`; that handler runs in the turn that emits the event, so
resubscribing is part of `FinishConnect`.

`RequestChannel` says what a caller may count on: a call is written only on an open link, all that wait are written when
it opens, and all of them end when it goes down. `JsonRpcClientRefinement` maps `disposed`, `status` and
`renegotiating` to its link.

### 2.2 DeltaSubscription

`Dynamic` chooses between the code's two forms, one static channel or one channel per desired id. A channel is a record
of its registration (`reg`, the number of the attempt in force), subscription (`sid`), retry timer and reconciler
(`next` is `expectedSeq`, 0 while unseeded; `rows`; `gone`, rows deleted since the snapshot). The client's
operations are functions on a record of the client's variables, composed the way the methods call each other, and an
action applies one of them (`Becomes`). The daemon numbers its pushes per subscription and sends them in order; a push
may be lost, a request may be refused or time out, a connection may drop. Row states are numbered by the change that
made them, so a stale row is told from a fresh one.

| Action | Code |
|---|---|
| `DeliverReply`, `DeliverFailure`, `ReplyTimesOut`, `RetryFires` | `registerChannel`, `registerDynamicChannel`, their retries |
| `DeliverPush` | `processPush`, `bufferPush`, `drainBufferedPushes`, `DeltaReconciler` |
| `DeliverPage`, `PageGivesUp`, `GiveUpFires` | `continueSnapshot`, `fillFromPage` and the give-up delay |
| `SetDesired`, `Reconnected`, `Dispose` | `reconcileDesiredIds`; the reconnect listener and the disposer of `createDeltaSubscription` |
| `DaemonSubscribes`, `DaemonRefuses`, `DaemonChanges`, `DaemonReads`, `DaemonUnsubscribes`, `Drop` | external: the daemon and the transport |

`CollectionView` says what is left of all this for whoever shows the rows. A view may lag behind and may lack rows, but it
shows no row in a state the daemon never had it in (`had`); once a snapshot or a delta has shown a row, the row is not shown
in an older state again (`floor`); and a channel that is in sync shows the collection. A continuation page may only fill
gaps (`Fill`), and does so provisionally, without raising the floor: the page is read later than its snapshot, so it may
bring a row that is newer than a delta still on its way, and that delta then takes the row back for a moment. (A first
version of the view without this exception was refuted by TLC in just that way.) `DeltaSubscriptionRefinement` maps the rows
shown to the view, adds `had` and `floor` as history variables, since neither side remembers them, and calls in sync the
channels that are `Settled`: connected, seeded, nothing on the wire, no page out, and the last delta sent not lost.

### 2.3 IntentdSidecar

Children are numbered in the order they are spawned; `sidecar` is `sidecarProcess`, `killed` is Node's
`ChildProcess.killed` (set once a signal was *sent*), `slain` the children sent SIGKILL, `serving` who answers on the
socket. `ProbeReturns` takes the generation the probe captured, so a result may come for a child that is gone. Two
variables are history only: `late` (spawned after the app began to stop its daemon) and `beside` (the user's request ever
spawned a child beside another, or ahead of a restart that was due). `DemandBegins` needs a finished start: windows open
after `startIntentdSidecar` is awaited (`main/index.ts:1571`). `StartReturns` ends external too where spawning is disabled
by policy, `Kill` sends SIGKILL at once where SIGTERM could not be sent, and a spawn that fails emits its `error`
before any other callback runs, so the failure is part of the step that spawned.

### 2.4 BackendPool

`record` is the credential a store holds for an id, as a number that grows with each replacement; `pooled` and `build`
remember the credential and the generation they were read in. `lane` is the queue of `enqueueConnectionOperation`; its
head runs and its `pc` says which await it is at.

| Action | Code |
|---|---|
| `BuildReadsRecord`, `BuildReadsToken`, `BuildResumes` | `connectBackendClientOriginal`: `resolveBackendRecord`, `buildConfigForRecord`, the generation check, pooling |
| `Ask`, `OpenStarts`, `OpenEnds` | `openBackendWindow`, `performOpenBackendWindowOriginal`, with its cancellation |
| `ForgetStarts`, `ForgetCloses`, `ForgetDrops` | `forgetConnectionLocked`, `leaveGuestSessionLocked` |
| `RepairStarts`, `RepairConnects` | `connections:add`, `connections:update` of a saved backend |
| `StoreReplaces`, `StoreRemoves`, `Notified` | the guest store, and the two listeners it notifies |
| `RebuildStarts`, `CloseRuns` | what those listeners queue on the lane |
| `DirectConnect`, `LastWindowCloses` | the dock and the boot restore; a window's close handler |

A turn that settles a promise includes what its awaiter does next, so `BuildResumes` also ends, or goes on with, the
operation that waits for that build. A window's close handler disposes the client only where another window survives and
no dock uses the backend; `LastWindowCloses` leaves that open. `DirectConnect` is the connect alone: the windows that the boot
restore opens around it are not in `WindowsAreServed`. The guest store serialises its changes and tells its listeners
of one in the microtasks of its commit, before the next can commit, so one notice is outstanding at a time; a merge that
notifies several ids at once is taken as several changes.

### 2.5 PoolRetirement

A work is an operation under `poolWork()`, a call a request without such an owner. `link` is a client's connection as far
as a retirement sees it, and `closing` the destroyed sockets whose close is to come. A retirement is a check (`wake()`)
subscribed to what its condition reads; `woken` holds the checks that are due, in the turn of the change that woke them, so
a change that wakes too few of them is visible. A member's retirement that finds the pool sealed (`MemberSeals`) has no end of
its own: its verdict is to be read when its check is woken again (`MemberWakes`), and refuses it if host-exec streams
were excluded meanwhile.

| Action | Code |
|---|---|
| `WorkStarts`, `CallbackStarts`, `WorkCreates`, `WorkBinds`, `WorkEnds`, `AuxiliaryStarts` | `poolWork`, `createAdditionalBackendClient`, `poolClient`, `poolAuxiliary` |
| `RequestSent`, `RequestParked`, `RequestRefused`, `Settles` | `request` under `refuseIndependent`, `own` |
| `Connects`, `DaemonStarts`, `Drops`, `Redials`, `SocketCloses` | the client's connection while it may be stopping |
| `RetiresMember`, `MemberJoins`, `MemberWakes`, `MemberFinishes` | `retireOriginalMember` |
| `RetiresPool`, `FenceOpens`, `PoolWakes`, `PoolFinishes` | `retire` |

Only tests enrol a pool today (`enrollBackendClientLifecycle` has no other caller); what is modelled is the enrolled
program those tests exercise.

### 2.6 WorkspaceReads and WorkspaceHydration

`Acquire`, `Release` and `Abandon` are the calls of a saga on its slot (`withReadSlot`), `ReleaseAgain` the second release that
must change nothing; each may end with one grant, because no
slot is ever idle while a read waits (`SlotsAreExact`). `ahead` and `overtaken` are history.

A hydration request is a workspace, a branch and a generation. `Mount`, `Unmount`, `Promote`, `TimerFires`, `Reconnect`,
`SwitchBackend` are the saga's workers, `PathResolves` and `WaitExpires` the two ends of `waitForResolvedWorkspacePath`;
a later update may take the path away (`PathVanishes`). The branches a worker puts one after another are one step, since
the saga does not wait between them.
What is visible is chosen freely each time it is read. A path wait that times out gives its branch up until the next
generation; the code means it to.

## 3. What TLC checks

| Run | Instance | What it shows |
|---|---|---|
| `client_requests` | 2 requests, 1 hello, 3 sockets, heartbeat threshold 2, 2 probes | `PendingOnCurrentSocket`, `NoStrandedWaiter`, `NoOrphanSocket`, `AnsweredBeforeConnected`, `FirstFrameIsHello`, `RetryCooldownIsSlow`, `SubscriptionRestored`, `StartupIsAttended`, `StaleProbesAreIgnored` |
| `client_hellos` | 2 hellos, 1 request, provider may reject | `IdentityIsCurrent`, `IdentityRetiredFirst`, and that the client implements `RequestChannel` |
| `client_liveness` | 1 of each kind, fair | every request settles (`RequestsSettle`); every dial comes to a verdict (`ConnectingEnds`) |
| `delta_static` | 1 static channel, 2 rows, pages of 1 | that the replica implements `CollectionView` (`ImplementsView`), `UnseededIsAttended`, and `NeverFlashedAway`: rows vanish only by a snapshot or a delta |
| `delta_dynamic` | 2 per-id channels, 1 row each | `Converged` and `NoLeakedSubscription` with channels that come and go over one buffer |
| `sidecar_supervise` | 3 spawns, 2 restarts | `SupervisorRunsOne`, `ChildIsWatched`, `NotSilentlyDead`, `SurvivorsWereAsked`, `ProbesHitTheirChild` |
| `components`, the pool | 1 owner that may connect off the lane, 1 guest, 3 credentials, 3 operations | `ClientOfThisGeneration`, `PooledAsStored`, `WindowsAreServed`, `LaneDrains` |
| `components`, the retirement | 2 clients, 1 work that may make host execs, 1 call | `SealedIsSilent`, `BarrierHolds`, `SealedTogether`, `RetirementsSettle` |
| `components`, the reads | 4 reads, 2 slots | `SlotsAreExact`, `BoundedOvertaking` |
| `components`, the hydration | 2 workspaces, one without a path, 3 branches, 3 generations | `EachBranchOnce`, `HydrationCompletes` |
| `pool_orphan_window`, `retirement_stranded`, `delta_evicted`, `sidecar_second`, `sidecar_quit` | small | counterexamples, section 5 |

`components` is one run of four components that share no state: its initial state chooses one of them, and the others stay
where they start (275,974 distinct states in all). Nothing is claimed about their combination; the modules that do interact,
the client and the pool above it, meet in `PoolRetirement`, whose `link` is the part of the client that the pool depends on.

Every property has a mutant of the code in `PROJECT.json`, a plausible bug under which TLC finds it violated in the same
run.

### 3.1 Bounds, and why they are enough

- `MaxSockets = 3`: a socket is lost only when another may still be dialled. Two losses are needed for the longest
  story in the code: a flow captures socket 1, its answer is late, socket 2 takes over and is itself replaced. The proofs
  hold for every `MaxSockets`.
- `MaxProbes`, `MaxStreak`, `MaxMalformed`: probes outstanding per socket, the saturating count of unanswered hellos
  (beyond it the timeout stops growing), and the code's reconnect budget, each scaled to the smallest value at which both
  sides of the limit happen.
- Delays are 1, 4 and 3 for the base, the maximum and the daemon's own wait: one doubling is below the daemon's
  wait and one reaches the cap.
- `MaxAttempts`, `MaxChanges`, `MaxFaults` (delta): registration attempts, changes of the daemon's rows, and lost pushes,
  failed requests and drops. Three changes with one fault are enough for a snapshot, a page read before a change,
  a delta that overtakes it, a gap and the resnapshot after it. At the last attempt a step that would register again is
  not taken. `PageSize = 1` of two rows gives one continuation; 0 puts every row on it. `MaxBuffered` is above
  what can be pushed, except in `delta_evicted`, which scales the code's limit to 1.
- `MaxSpawns = 3`, `MaxAttempts = 2` (sidecar): a child, its restart, and a child of either cause after it; the crash
  budget is used up within them.
- `MaxCreds = 3`, `MaxOps = 3` (pool): a credential, its replacement during a build, and one more during the re-read; an
  open, an operation queued behind it, and a third. What notices queue on the lane is not counted against `MaxOps`.
- The retirement has a client that exists at the start and one that a work may create; with two, one member's own
  retirement may be overtaken by the pool's, and one may be sealed while the other still has work.
- `Limit = 2` with 4 reads: both slots taken, two queued, either of them with priority. `MaxGen = 3`: a generation, the one
  that replaces it and one that replaces that, or both workspaces and a restart of one.
- Symmetry: slots of one kind, and rows, are told apart by nothing but their names; no run with a liveness property uses it.
- Deadlock is not checked where the system may stop: a disposed client without callers, an exited app, and a
  behaviour that used up its bounds.

### 3.2 Fairness

`FairSpec` has weak fairness for what the code's own timers and promises bring about: an armed timer fires, a dial
ends (the socket reports or its connect timeout does), the parameter provider settles, a handshake, a poll, a request or
a hello is answered or times out. Callers, the daemon's drops, malformed frames, heartbeats, reverse requests
and `dispose` owe nothing. `RequestsSettle` does not assume that a connection ever succeeds.

`PoolFairness`: a read of a store completes, a store's notice is delivered, and the operation at the head of the lane goes
on. The user, the stores, the dock and the windows owe nothing. `RetFairness`: a dial ends one way or the other, an armed
redial fires, a request is answered or times out, work ends, the fence opens, a destroyed socket closes, and a check that
was woken runs. Whoever retires owes nothing. `HydrationFairness`: the deferred worker's timer and the path wait's timeout
fire; a path need never resolve. (An update without a path makes a wait begin again, so this takes such updates not to come
for ever within the wait's delay.) `MCComponents` states the same fairness, each while its part is played.

## 4. What TLAPS proves

About the client, for any sets of callers and any `MaxSockets`, delays and thresholds that satisfy `ClientAssumption`:

1. `TypeCorrect` (`JsonRpcClientProofs`, first part): `Spec => []TypeOK`, with one lemma per shared step and one per action.
2. `ClientSafe` (second part): `Spec => []ClientInv`, the inductive invariant. None of the properties is
   inductive alone, and `ClientInv` ties together what they lean on:
   - `LinkInv`: the socket carries everything that depends on it (`SocketCarries`), the handshake is alone with
     its socket (`HandshakeIsAlone`), a lost subscription is remembered (`LossIsRemembered`), one socket, one
     attendant of a starting daemon, no heartbeat without a connection;
   - `HelloInv`: a hello on the wire has begun, and the one that owns the renegotiation wrote last (`OwnerLeads`); the
     confirmed identity was written last. This is why a late answer cannot confirm an identity that was superseded;
   - `WaitInv`: pending calls are on the current socket, waiters have something to wait for, and connecting has
     something under way. A waiter is safe only because `status` and the timers are, and those only because of the first
     two parts.
3. The third and fourth parts: the properties of the runs, and some that are only proved, follow (`RepliesCanCome`,
   `WaitersCanGo`, `ConnectingIsDecided`, `OneSocketAtATime`, `IdentityOfTheLastHello`, `StartupAttended`, `HeartbeatStopsInTime`), and with an invariant of
   the session, `SubscriptionsComeBack`, `ConnectedIsAnswered` and the action properties `CapIsRespected` and
   `AuthorityIsRetiredFirst`. The first of these says that, while the retry after a connection-cap refusal is armed, only it
   and `dispose` touch the timer or dial; the second that a step the identity survives leaves its socket and attempt alone
   and begins, sends or parks no hello. `ConnectedIsAnswered` assumes that the parameter provider never rejects (`~ParamsMayFail`); without
   that the property is false (section 5). `HelloComesFirst` rests on `GreetingInv`: a socket is idle until its hello is
   written, and only a connected client, or one that renegotiates, writes anything else. It assumes `~ParamsMayFail`
   and lets the daemon make reverse requests: the end of one is then the only step that can put another first frame
   on a socket, so that no call and no subscription gets ahead of the hello (section 5). `StaleProbesIgnored` is an action
   property: of the steps that settle a probe, only the one for the present socket may count.
4. `ClientImplementsChannel` and `ClientCallsFollowLink` (its last part): every step of the client is a
   step of `RequestChannel` or a stutter. The proof needs `ClientInv`, and that calls are pending only while connected or
   renegotiating.

5. `IntentdSidecarProofs`, for any number of spawns and any restart budget: `SupervisorTyped`, `OneDaemonUnlessAsked`,
   `NobodyIsForgotten`, `NoSilentLoss`, `QuitAsksEveryone` and the action property `SignalsHaveCause`. They rest on
   - `BaseInv` (`BaseCorrect`): types; children are numbered in the order they are spawned and none comes before
     the start is over (`SpawnInv`); a pending SIGKILL is due to a child that got its SIGTERM, and only the quit suppresses
     restarts (`SignalInv`);
   - `AloneInv`: without a request of the user beside it a child is alone, is the supervised one, and no restart is
     due. Counting the living is not inductive: that there is one child follows only with where the next comes from;
   - `AskedInv`: from the moment the quit begins, whoever is alive was signalled or came later.
   `ChildIsWatched` and `NotSilentlyDead` are inductive beside `BaseInv`.

6. `BackendPoolProofs`, for any owners, guests, direct ids, credentials and operations: `PoolTyped`, `PoolGenerations`,
   `PoolCredentials`, `PoolServesWindows`. The properties speak of quiet moments; `PoolInv` says what is owed in between:
   - a build is for an id without a client, in a generation that has begun, and off the lane only direct ids are built
     (`BuildInv`), so an operation that waits waits for a build that exists;
   - a finished configuration of the present generation has the stored credential or its notice is due (`BuiltInv`), and so
     has a client, unless the running operation is about to dispose it (`StoredInv`): the two halves of the race;
   - a window without a client has a rebuild running or queued (`ServedInv`), which needs that only the head of the lane has
     begun (`LaneInv`) and that an announced removal is stored (`NoticeInv`).
   Lemmas about the lane say what an append, an end and a move of the head leave alone for every other id.
7. `PoolRetirementProofs`, for any clients, works and calls: `RetirementTyped`, `SealedForEver`, `Barrier`, and the action
   property `Together`. `RetInv` adds to the two invariants that a work that has not begun holds no client and that a
   member reported as retired is sealed; `AskedAreMembers` that only members are asked to retire or have sockets closing,
   without which a pool's end could not speak for all its sockets.
8. `WorkspaceProofs`, its second part, for any workspaces and branches: `HydrationTyped`, `OnePlace`. `HydInv` adds to `EachBranchOnce`
   that a mounted workspace has a generation and, while it defers anything, a worker armed for that generation, that an
   unmounted one has none of these, and that only mounted workspaces wait for a path. A wait of an older generation may
   linger (a switch of the backend leaves it); the invariant shows that it is not counted for the present one.
9. `WorkspaceProofs`, its first part, for any reads and any limit: `ReadsTyped`, `SlotsExact`, `OvertakingBounded`. `Scheduled` says that
   the queue has each waiting read once, that the count is the number of granted reads, that no slot is idle while a read
   waits, and, as `Paced`, what the history allows: a background read that found `b` background reads ahead of it and has
   `n` of them still ahead was overtaken at most `Limit * (b - n)` times plus the present row of priority grants. The
   bound `Limit * (b + 1)` follows; it is not inductive, since it does not say how much of it is used up. `drain()` is
   entered with one slot free or one read more, so its lemma is about states where `Scheduled` does not hold.
10. `DeltaSubscriptionProofs`, for any channels, rows, page size, attempts, changes and faults. `Invariance` is about `IInv`:
   types, the order of the pushes on each wire, what a disposed client leaves, and `ClientInv`, with
   - `Registered`, `Alive`: a channel's attempt is its own, its subscription is that attempt's, and an answered request of
     this connection is a subscription that is used, released, or timed out at the client. `NothingLeaks` follows;
   - `Ordered`, `Issued`, `Confirmed`: the held pushes of a subscription come before those on its wire, in sequence; the first
     of all is the snapshot; nothing is held for a confirmed subscription;
   - `Follows`: as long as no push from the next expected one to the last one made is missing, the last word on every row is
     the daemon's state of it. The last word is the last delta that comes and touches the row; else the snapshot that comes
     and the page behind it; else what the client has, a page that was read, or a page still to be read. A page is never
     the last word on a row that a delta touched after it was read, which is what `fillFromPage` and its set of removed ids
     are for. `SettledShowsTheCollection` is the case in which nothing comes any more.
   `ClientInv` is stated of a client state, its channels and the pushes on their way to each subscription, because
   a reply replays the held pushes one by one, any of which may have the channel subscribed again: the lemma about `Replayed`
   carries it from push to push, with the rest of the replay counted as on its way. `RowsAreNotFlashedAway` (of the static
   form, `~Dynamic`) adds that a continuation belongs to a confirmed subscription. `UnseededChannelsAreAttended` adds
   `Attended`: once the request of an unseeded channel is answered on a live connection, its snapshot is held or on its way.
   It assumes `MaxBuffered >= MaxAttempts * MaxChanges`: each attempt is sent at most `MaxChanges` pushes, so the buffer holds
   any of them, by a count of pairs of an attempt and a sequence number. `delta_static` has 9 for 3 times 3, and `delta_evicted`
   shows that some such assumption is needed.
11. `DeltaSubscriptionRefinementProofs`, for the same constants, of both forms: `ViewImplemented`, every step of the replica, the
   daemon and the transport is a step of `CollectionView` or a stutter; and what that means for the user, `RowsAreReal`. What
   is shown now says nothing about what will be, so `FInv`, inductive beside `IInv`, is about everything that may still be
   shown: what a channel shows, every push that is held or on its wire, and every row of a page that fills a gap, is a state
   the row had and is not below the floor (`ComesWell`, `PagedWell`); and of two pushes of a subscription the later one does
   not bring the older state of a row (`NotOlder`), so that applying the first, which raises the floor, leaves the second
   allowed. That the daemon's row is the newest it had (`Past`) makes a new snapshot, a new delta and a page's read
   allowed. Like `ClientInv`, `Faithful` is stated of a client state in the middle of a handler: a reply may replay several pushes
   in one step, and the floor rises only at its end, so what the handler has shown anew counts as the floor of what follows
   (`Allowed`). All that registers again (a gap, a retry, a give-up, new ids, a reconnect, the disposer) is one case,
   `Supersedes`: the old subscription's pushes no longer come, and the new one has none. In sync is `SettledIsRight`.
12. `MCComponentsProofs`: `ComponentsTyped`, the type invariant of the run of four components. A behaviour of the whole is one of
   each part, the others being held still, and so has what is proved of each.

Assumed throughout: the ASSUME of each module, which constrains constants only, and for `ConnectedIsAnswered`,
`HelloComesFirst`, `RowsAreNotFlashedAway` and `UnseededChannelsAreAttended` what is said above.

Only model-checked: the liveness properties (`RequestsSettle`, `ConnectingEnds`, `LaneDrains`, `RetirementsSettle`,
`HydrationCompletes`), since liveness and ENABLED are beyond the prover. The library's induction theorems take an operator
as a parameter and cannot be used here; where a fold over a sequence had to be reasoned about (the replay of held pushes, the
choice of a subscription's pushes), the proofs argue from the least number of steps that would go wrong.

One property was corrected on the way. `NeverFlashedAway` used to ask for an expected sequence number after the step. That is
false when a reply replays an *empty* snapshot and then a delta after a gap: the list is emptied because the daemon said so,
and the channel is subscribed again in the same turn. TLC reaches it with two faults, not with the run's one; the property now
names that turn (`ReplaysSnapshot`).

## 5. Where the code and its comments disagree

Each of the first five is a run that ends in a counterexample.

- `pool_orphan_window`: a removal notice tears down a session's windows only if a client is pooled. When the credential was
  replaced just before, the client is already evicted and its rebuild is queued; the rebuild then fails, since the record is
  gone, and the window stays open on a session that no longer exists. A later leave finds neither session nor client and
  returns early too.
- `retirement_stranded`: `beginRetirement()` clears the reconnect timer and leaves the callers parked on it, so a ticket that waits
  for them is never drained. `RetirementsSettle` is what holds otherwise.
- `delta_evicted`: the buffer of early pushes drops its oldest entry, which may be the only snapshot of a channel
  that is then confirmed, unseeded and waiting for nothing. The code's limit is large; the run scales it to one.
- `sidecar_second`: an on-demand spawn minds neither a pending restart nor a child that was signalled and still
  runs; two daemons of the app run side by side. `SupervisorRunsOne` is what holds without that request.
- `sidecar_quit`: Node sets `killed` when SIGTERM is *sent*, so `if (!proc.killed) proc.kill('SIGKILL')` never
  runs, and a daemon that ignores SIGTERM outlives the quit.

Met while modelling, and kept out of the properties by a constant or an exemption:

- A reverse request's handler that finishes after a reconnect writes its result to the *new* socket (`writeReverseFrame`
  uses `this.socket`), ahead of the hello that is documented to be the first frame. `FirstFrameIsHello` is checked with no
  reverse request (`Reverse = {}`); `HelloComesFirst` proves that such an answer is the only exception.
- A rejected parameter provider falls through to `finishConnect()`: the client says connected and no hello was sent. The
  comment there expects only a daemon error reply. `AnsweredBeforeConnected` is checked with `ParamsMayFail = FALSE`.
- `startupHandoff` leaves `connectionLimited` set beside the short handoff timer, so `isInConnectionLimitCooldown` reports a
  cooldown that is not one. `RetryCooldownIsSlow` speaks of the retry that follows a refusal, not of the handoff's timer.
- An owner's re-pair does not advance the credential generation. Operations on the lane cannot race it, but the dock and the
  boot restore connect off the lane, so a build of theirs that read the old credential may be pooled after the re-pair.
  `PooledAsStored` exempts the ids of `Direct`.
- A member's own retirement stands back once the pool is stopping. If `retire()` is then refused (an auxiliary owner, a host
  exec), nobody ends the member's. `RetirementsSettle` exempts it.

Two hazards are excluded from `SurvivorsWereAsked` by name, because the code does not prevent them: a spawn whose
probe was in flight when the quit began (`late`), and a probe answered by the app's own restarted child, which sets the
mode to `external`. `NoLeakedSubscription` excludes a request that timed out at the client and was accepted by the daemon
(`timedout`): the client cannot know the id.

## 6. What is not modelled

- *Client*: requests captured on one connection, traffic observers, frame parsing and buffering; of the retirement, the
  failures and receipts it collects and its limits on them. Errors are told apart as far as callers act on them. The late
  callbacks of a socket that was superseded (ignored by the `current()` guard of `connect`) have no step.
- *Delta subscriptions*: `config.complete` / `completeRow`, chains of more than one continuation page and
  `MAX_SNAPSHOT_PAGES`. A page that is out when the connection drops is taken to use up the tries it has left. Subscription ids are unique. The dynamic form shows the collection without a channel
  that is resnapshotting, as its comment says; `NeverFlashedAway` is about the static form.
- *Supervisor*: the run log, process priority, path resolution, version comparison and orphan classification.
- *Pool*: routing of IPC calls and events to windows, the local client (it is never rebuilt from a record) and its
  sign-in, wire compatibility, presence, the fallback to a local window before a backend's last window closes. A
  disposal that does not go through a retirement is modelled in `BackendPool` only. Several windows of one backend are one.
- *Reads and hydration*: what a branch loads and how it ends, the performance marks of `settle()`, and the repository and
  editor lists of the same saga. `UnifiedSaveQueue` is imported by nothing but its own test.
- Most of the repository's lines are Svelte components, reducers, mappings of payloads, tests and text, without order of
  events of their own; the map covers a small share of the whole for that reason.
- The components without a module, with reasons, in `PROJECT.json`.

## 7. Plan

Done, in the order of their weight: `JsonRpcClient` with its proofs; `RequestChannel` and the refinement;
`DeltaSubscription`, `IntentdSidecar`, `BackendPool`, `PoolRetirement`, `WorkspaceReads` and `WorkspaceHydration`, each with
its proofs; `CollectionView` and its refinement.

Next modules:

1. `RaceConnect`: the host race of `backend-connection.ts`: one winner, every loser's socket destroyed, typed
   failures preferred over the last one.
2. `InvitedSync`: the guest store's merge with the keychain (tombstones, pairing clocks), as an abstract store that two
   devices converge on; `BackendPool` has its two notices only.
3. `PendingSubmissions` and the chat send; `AgentCircuitBreaker`; the terminal's state machine; the browser transport;
   the tunnel manager; sign-in and auto-update as far as their flows have more than one actor.

Extensions of the modules there are: multi-page chains and row completion in `DeltaSubscription`, and its
convergence as a liveness property; one lane step refined from the two stores' own writes in `BackendPool`.

Theorems next: those of the modules above.
