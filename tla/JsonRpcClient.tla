--------------------------- MODULE JsonRpcClient ---------------------------
(***************************************************************************)
(* The main process's JSON-RPC client for the intentd daemon               *)
(* (src/features/backend/main/json-rpc-client.ts).                         *)
(*                                                                         *)
(* One client owns at most one socket at a time.  It dials, introduces     *)
(* itself with a client.hello handshake, parks requests until the          *)
(* handshake is answered, fails them when the socket goes away, retries    *)
(* with backoff, waits for a daemon that is still starting, renegotiates   *)
(* the hello when a caller asks for it and probes the daemon with a        *)
(* heartbeat.  Every action below is one turn of the event loop: a         *)
(* callback and everything it runs synchronously or in microtasks.         *)
(*                                                                         *)
(* Callers are slots that are used again once their promise settles, so    *)
(* a run covers arbitrarily long sequences of calls.  MaxSockets is the    *)
(* only bound: the last socket is not lost again.                          *)
(***************************************************************************)
EXTENDS Naturals

CONSTANTS
  Requests,         \* slots for ordinary request() callers
  Hellos,           \* slots for callers of request("client.hello")
  Reverse,          \* slots for daemon-issued (reverse) requests
  MaxSockets,       \* bound: how many sockets a behaviour may dial
  BaseDelay,        \* reconnectDelayMs
  MaxDelay,         \* maxReconnectDelayMs
  LimitDelay,       \* the wait a connection-limit refusal asks for
  MaxStreak,        \* unanswered hellos after which the bound stops growing
  MaxProbes,        \* bound: health checks outstanding on one socket
  MaxMalformed,     \* MAX_MALFORMED_FRAME_RECONNECTS
  HealthThreshold,  \* healthCheckFailureThreshold; 0 disables the heartbeat
  ParamsMayFail,    \* whether the helloParams provider may reject
  None,             \* null
  Handshake         \* the connect-time hello, as against the callers' ones

ASSUME ClientAssumption ==
  /\ MaxSockets \in Nat \ {0}
  /\ BaseDelay \in Nat \ {0} /\ MaxDelay \in Nat /\ LimitDelay \in Nat
  /\ BaseDelay <= MaxDelay
  /\ MaxStreak \in Nat /\ MaxMalformed \in Nat /\ MaxProbes \in Nat
  /\ HealthThreshold \in Nat
  /\ ParamsMayFail \in BOOLEAN
  /\ Handshake \notin Hellos /\ None \notin Hellos /\ None # Handshake

VARIABLES
  status,        \* ConnectionStatus
  disposed,
  socket,        \* the current socket's incarnation, 0 when there is none
  generation,    \* connectionGeneration: sockets dialled so far
  alive,         \* sockets created and not destroyed by this client
  opened,        \* the current socket reported connect
  hs,            \* where the connect-time handshake of this socket stands
  attempt,       \* helloAttempt: the flow that last began a hello
  renegotiating, \* renegotiatingHello
  identity,      \* repositoryConnection: the flow whose hello was confirmed
  snapshot,      \* helloSnapshot: the flow whose result it is
  revision,      \* helloRevision: the flow that last wrote a hello
  greeted,       \* the daemon answered a hello on this socket
  first,         \* the first frame written on this socket
  timer,         \* reconnectTimer: none, an ordinary retry or a handoff
  wait,          \* the delay the armed timer was given
  delay,         \* currentReconnectDelay
  limited,       \* connectionLimited
  recovery,      \* hasBeenConnected || hasConnectionFailed
  streak,        \* helloTimeoutStreak, saturating at MaxStreak
  malformed,     \* malformedFrameReconnects in the current window
  startup,       \* startupState
  bootstrap,     \* startupIncarnation is the current socket
  poll,          \* the StartupPoller
  beat,          \* heartbeatTimer is running
  probing,       \* heartbeatInFlight
  misses,        \* consecutiveHealthCheckFailures
  probes,        \* outstanding health checks, by the socket they captured
  req,           \* where each request() call stands
  sentOn,        \* the socket a request was written to
  hello,         \* where each caller-issued hello stands
  heldOn,        \* the socket a caller-issued hello captured
  begun,         \* the caller-issued hello began a renegotiation
  rev,           \* the socket a reverse request arrived on, 0 when idle
  sub            \* a consumer's events.subscribe (the terminal registry)

stateVars == <<status, disposed, alive>>
linkVars == <<socket, generation, opened>>
helloVars == <<hs, attempt, renegotiating, identity, snapshot, revision,
               greeted, first>>
retryVars == <<timer, wait, delay, limited, recovery, streak>>
startVars == <<startup, bootstrap, poll>>
probeVars == <<probing, misses, probes>>
beatVars == <<beat, probeVars>>
callVars == <<req, sentOn, hello, heldOn, begun>>
vars == <<stateVars, linkVars, helloVars, retryVars, malformed, startVars,
          beatVars, callVars, rev, sub>>

Flows == Hellos \cup {Handshake}
Sockets == 1..MaxSockets
Min2(a, b) == IF a < b THEN a ELSE b
Max2(a, b) == IF a < b THEN b ELSE a

\* The bound: a socket is only lost when another one may still be dialled.
CanLose == generation < MaxSockets

-----------------------------------------------------------------------------
(* The steps several handlers share.                                       *)

\* startupPoller.stop(), wherever the bootstrap socket is left.
StopPoller == bootstrap' = FALSE /\ poll' = "off"

\* teardownSocket(): everything that belongs to the socket goes with it.
TeardownSocket ==
  /\ alive' = alive \ {socket}
  /\ socket' = 0 /\ opened' = FALSE
  /\ hs' = "none" /\ attempt' = None /\ renegotiating' = FALSE
  /\ identity' = None /\ snapshot' = None /\ revision' = None
  /\ greeted' = FALSE /\ first' = "none"
  /\ StopPoller

\* failPending() and failWaiters(): every call that is in one of the states
\* settles with an error.
Failed(calls, states) ==
  [c \in DOMAIN calls |-> IF calls[c] \in states THEN "idle" ELSE calls[c]]

FailCalls(rs, hellos) ==
  /\ req' = Failed(req, rs)
  /\ hello' = Failed(hello, hellos)
  /\ UNCHANGED <<sentOn, heldOn, begun>>

\* A consumer of the daemon's events (the terminal registry): a subscription
\* that went with its socket, or was refused, is asked for again on reconnected.
LoseSubscription == sub' = IF sub \in {"parked", "live"} THEN "lost" ELSE sub

\* connect(): dial a fresh socket.
Connect ==
  /\ CanLose
  /\ timer' = "none" /\ wait' = 0
  /\ status' = "connecting"
  /\ generation' = generation + 1
  /\ socket' = generation + 1 /\ opened' = FALSE
  /\ alive' = alive \cup {generation + 1}
  /\ identity' = None

\* Mutant of Startable: start() is not idempotent.
StartableTwice == ~disposed /\ timer = "none"

\* Mutant of Startable: an armed retry does not hold start() back.
StartableInCooldown == ~disposed /\ socket = 0 /\ status # "connecting"

\* start(): only a client with no socket, no dial and no armed retry dials.
Startable ==
  /\ ~disposed /\ socket = 0 /\ status # "connecting" /\ timer = "none"

\* Mutant of StartupHandoff: the socket is left and no timer is armed.
StartupHandoffUnarmed(ready) ==
  /\ TeardownSocket
  /\ FailCalls({"pending"}, {"sent"})
  /\ timer' = "none" /\ wait' = 0
  /\ delay' = IF ready THEN BaseDelay ELSE Min2(2 * delay, MaxDelay)
  /\ sub' = IF sub = "live" THEN "lost" ELSE sub
  /\ UNCHANGED <<status, disposed, generation, limited, recovery, streak,
                 startup, beat>>

\* startupHandoff(ready): leave the bootstrap socket, dial another one soon.
StartupHandoff(ready) ==
  /\ TeardownSocket
  /\ FailCalls({"pending"}, {"sent"})
  /\ timer' = "handoff"
  /\ wait' = IF ready THEN BaseDelay ELSE delay
  /\ delay' = IF ready THEN BaseDelay ELSE Min2(2 * delay, MaxDelay)
  /\ sub' = IF sub = "live" THEN "lost" ELSE sub
  /\ UNCHANGED <<status, disposed, generation, limited, recovery, streak,
                 startup, beat>>

\* The delay of the next retry: a cap refusal asks for a longer one.
RetryDelay(kind, d) == IF kind = "limit" THEN Max2(d, LimitDelay) ELSE d

\* What onConnectionFailure(error) does to the client once the socket is not a
\* bootstrap socket.  st and d are the startup posture and the reconnect delay
\* it finds; the calls it rejects are FailCalls'.
DropTo(kind, st, d) ==
  LET next == RetryDelay(kind, d) IN
  /\ startup' = IF st = "starting" \/ kind = "auth" THEN "none" ELSE st
  /\ TeardownSocket
  /\ LoseSubscription
  /\ status' = "disconnected"
  /\ beat' = FALSE
  /\ recovery' = TRUE
  /\ streak' = IF kind = "helloTimeout" THEN Min2(streak + 1, MaxStreak) ELSE 0
  /\ limited' = (kind = "limit")
  /\ delay' = next
  /\ timer' = IF kind = "auth" THEN "none" ELSE "retry"
  /\ wait' = IF kind = "auth" THEN 0 ELSE next
  /\ UNCHANGED <<disposed, generation>>

\* Mutants of ConnectionFailure: one of failPending() and failWaiters() is
\* forgotten.
ConnectionFailureKeepsPending(kind, st, d) ==
  DropTo(kind, st, d) /\ FailCalls({"parked"}, {"parked"})

ConnectionFailureKeepsWaiters(kind, st, d) ==
  DropTo(kind, st, d) /\ FailCalls({"pending"}, {"sent"})

ConnectionFailure(kind, st, d) ==
  /\ DropTo(kind, st, d)
  /\ FailCalls({"pending", "parked"}, {"sent", "parked"})

\* onConnectionFailure(error) as the callers invoke it.
LoseConnection(kind) ==
  IF bootstrap THEN StartupHandoff(TRUE)
  ELSE ConnectionFailure(kind, startup, delay)

\* failStartup(): the daemon reported that it cannot start.
FailStartup == ConnectionFailure("startupFailed", "failed", delay)

\* A hello that waited for the connection begins and is written at once.  The
\* parked hellos begin one after the other, and the last one holds the attempt.
HelloWaiters == {h \in Hellos : hello[h] = "parked"}

\* finishConnect(): report connected and let the parked calls go.  The ids
\* and the confirmed flow are the caller's business.
FinishConnect(confirmed, snap) ==
  /\ startup' = "none" /\ StopPoller
  /\ delay' = BaseDelay /\ limited' = FALSE /\ recovery' = TRUE
  /\ sub' = IF sub = "parked" \/ (sub = "lost" /\ recovery)
            THEN "live" ELSE sub
  /\ req' = [r \in Requests |->
               IF req[r] = "parked" THEN "pending" ELSE req[r]]
  /\ sentOn' = [r \in Requests |->
                  IF req[r] = "parked" THEN socket ELSE sentOn[r]]
  /\ probing' = FALSE /\ misses' = 0
  /\ IF HelloWaiters = {}
     THEN /\ status' = "connected" /\ renegotiating' = FALSE
          /\ identity' = confirmed /\ snapshot' = snap
          /\ beat' = (HealthThreshold > 0)
          /\ UNCHANGED <<attempt, revision>>
     ELSE \E h \in HelloWaiters :
          /\ status' = "connecting" /\ renegotiating' = TRUE
          /\ identity' = None /\ snapshot' = None
          /\ attempt' = h /\ revision' = h
          /\ beat' = FALSE
  /\ UNCHANGED <<disposed, alive, linkVars, timer, wait, probes, malformed,
                 rev>>

\* The parked hellos of a connection that was just finished are on the wire.
ReleaseHellos(others) ==
  /\ hello' = [h \in Hellos |-> IF hello[h] = "parked" THEN "sent"
                                ELSE IF h \in others THEN "idle" ELSE hello[h]]
  /\ heldOn' = [h \in Hellos |->
                  IF hello[h] = "parked" THEN socket ELSE heldOn[h]]
  /\ begun' = [h \in Hellos |-> hello[h] = "parked" \/ begun[h]]

-----------------------------------------------------------------------------
(* Dialling and losing the socket.                                         *)

\* start() called by the owner of the client; socketFactory may throw.
Start ==
  /\ Startable
  /\ \/ /\ Connect
        /\ UNCHANGED <<disposed, hs, attempt, renegotiating, snapshot,
                       revision, greeted, first, delay, limited, recovery,
                       streak, startVars, beat, callVars, sub>>
     \/ ConnectionFailure("drop", startup, delay)
  /\ UNCHANGED <<malformed, probeVars, rev>>

\* The retry or handoff timer fires; only a retry doubles the delay.
TimerFires ==
  LET next == IF timer = "retry" THEN Min2(2 * wait, MaxDelay) ELSE delay IN
  /\ timer # "none"
  /\ \/ /\ Connect
        /\ delay' = next
        /\ UNCHANGED <<disposed, hs, attempt, renegotiating, snapshot,
                       revision, greeted, first, limited, recovery, streak,
                       startVars, beat, callVars, sub>>
     \/ ConnectionFailure("drop", startup, next)
  /\ UNCHANGED <<malformed, probeVars, rev>>

\* onConnected(): begin the connect-time handshake.
Open ==
  /\ socket # 0 /\ ~opened
  /\ opened' = TRUE
  /\ hs' = "params" /\ attempt' = Handshake
  /\ identity' = None /\ snapshot' = None /\ revision' = None
  /\ UNCHANGED <<stateVars, socket, generation, renegotiating, greeted, first,
                 retryVars, malformed, startVars, beatVars, callVars, rev, sub>>

\* The dial fails: refused, rejected (401/403) or capped (503).
DialFails ==
  /\ socket # 0 /\ ~opened /\ CanLose
  /\ \E kind \in {"drop", "auth", "limit"} : LoseConnection(kind)
  /\ UNCHANGED <<malformed, probeVars, rev>>

\* An open socket reports error or close.
SocketDrops ==
  /\ opened /\ CanLose
  /\ LoseConnection("drop")
  /\ UNCHANGED <<malformed, probeVars, rev>>

\* admitMalformedFrameReconnect()
\* Mutant: one reconnect too many.
WithinBudgetOffByOne(spent) == spent <= MaxMalformed

WithinBudget(spent) == spent < MaxMalformed

\* A corrupted inbound line reconnects, within the budget of its window; the
\* window may have run out since the last one.
MalformedFrame ==
  /\ opened
  /\ \E spent \in {0, malformed} :
       \/ /\ ~WithinBudget(spent)
          /\ malformed' = spent
          /\ UNCHANGED <<stateVars, linkVars, helloVars, retryVars, startVars,
                         beat, callVars, sub>>
       \/ /\ WithinBudget(spent) /\ CanLose
          /\ malformed' = spent + 1
          /\ LoseConnection("drop")
  /\ UNCHANGED <<probeVars, rev>>

\* dispose(): the client is finished for good.
Dispose ==
  /\ ~disposed
  /\ disposed' = TRUE
  /\ TeardownSocket
  /\ FailCalls({"pending", "parked"}, {"sent", "parked"})
  /\ LoseSubscription
  /\ status' = "disconnected" /\ beat' = FALSE
  /\ timer' = "none" /\ wait' = 0
  /\ UNCHANGED <<generation, delay, limited, recovery, streak, malformed,
                 startup, probeVars, rev>>

-----------------------------------------------------------------------------
(* The connect-time handshake and the startup wait.                        *)

Wrote(kind) == first' = IF first = "none" THEN kind ELSE first

\* The helloParams provider resolves: write client.hello.
HandshakeParams ==
  /\ hs = "params"
  /\ hs' = "sent"
  /\ revision' = Handshake /\ snapshot' = None
  /\ Wrote("hello")
  /\ UNCHANGED <<stateVars, linkVars, attempt, renegotiating, identity,
                 greeted, retryVars, malformed, startVars, beatVars, callVars,
                 rev, sub>>

\* The provider rejects: performHelloHandshake's catch reports the socket
\* connected although no hello was written.
HandshakeParamsReject ==
  /\ ParamsMayFail /\ hs = "params"
  /\ hs' = "none"
  /\ streak' = 0
  /\ FinishConnect(None, None)
  /\ ReleaseHellos({})
  /\ \/ /\ sub \in {"parked", "lost"} \/ \E r \in Requests : req[r] = "parked"
        /\ Wrote("scoped")
     \/ /\ HelloWaiters # {}
        /\ Wrote("hello")
     \/ /\ sub \notin {"parked", "lost"} /\ HelloWaiters = {}
        /\ \A r \in Requests : req[r] # "parked"
        /\ UNCHANGED first
  /\ UNCHANGED greeted

\* The daemon answers the handshake: with a clientId, without one, or with an
\* error that says nothing about startup.
HandshakeReply(kind) ==
  /\ hs = "sent"
  /\ hs' = "none"
  /\ greeted' = TRUE /\ streak' = 0
  /\ FinishConnect(IF kind = "ok" THEN Handshake ELSE None,
                   IF kind # "error" THEN Handshake ELSE None)
  /\ ReleaseHellos({})
  /\ UNCHANGED first

\* enterStartup(): the ready connect will be a recovery.
\* Mutant: it is not.
EnterStartupNoRecovery ==
  /\ startup' = "starting" /\ bootstrap' = TRUE /\ poll' = "armed"
  /\ UNCHANGED recovery

EnterStartup ==
  /\ startup' = "starting" /\ bootstrap' = TRUE /\ poll' = "armed"
  /\ recovery' = TRUE

\* failWaiters() of a daemon that turned out to be starting.
\* Mutant: the parked calls go on waiting.
KeepWaiters == UNCHANGED <<callVars, sub>>

RefuseWaiters ==
  /\ FailCalls({"parked"}, {"parked"})
  /\ sub' = IF sub = "parked" THEN "lost" ELSE sub

\* The daemon is not ready: wait for it on this socket and refuse the calls
\* that were parked.
HandshakeNotReady ==
  /\ hs = "sent"
  /\ hs' = "none"
  /\ streak' = 0
  /\ EnterStartup
  /\ RefuseWaiters
  /\ UNCHANGED <<stateVars, linkVars, attempt, renegotiating, identity,
                 snapshot, revision, greeted, first, timer, wait, delay,
                 limited, malformed, beatVars, rev>>

\* The daemon answers that it failed to start.
HandshakeStartupFailed ==
  /\ hs = "sent" /\ CanLose
  /\ FailStartup
  /\ UNCHANGED <<malformed, probeVars, rev>>

\* Mutant of HandshakeTimeout: the socket is reported connected anyway.
HandshakeTimeoutConnects ==
  /\ hs = "sent"
  /\ hs' = "none"
  /\ streak' = 0
  /\ FinishConnect(None, None)
  /\ ReleaseHellos({})
  /\ UNCHANGED <<greeted, first>>

\* No answer in time: the socket is given up, and the next bound is longer.
HandshakeTimeout ==
  /\ hs = "sent" /\ CanLose
  /\ LoseConnection("helloTimeout")
  /\ UNCHANGED <<malformed, probeVars, rev>>

\* The poll delay has passed: ask for the startup status.
PollFires ==
  /\ poll = "armed"
  /\ poll' = "sent"
  /\ UNCHANGED <<stateVars, linkVars, helloVars, retryVars, malformed, startup,
                 bootstrap, beatVars, callVars, rev, sub>>

\* Still starting: poll again.
PollStarting ==
  /\ poll = "sent"
  /\ poll' = "armed"
  /\ UNCHANGED <<stateVars, linkVars, helloVars, retryVars, malformed, startup,
                 bootstrap, beatVars, callVars, rev, sub>>

\* Ready, or no usable status: hello again on a fresh socket.
PollHandsOff(ready) ==
  /\ poll = "sent" /\ CanLose
  /\ StartupHandoff(ready)
  /\ UNCHANGED <<malformed, probeVars, rev>>

PollFailed ==
  /\ poll = "sent" /\ CanLose
  /\ FailStartup
  /\ UNCHANGED <<malformed, probeVars, rev>>

-----------------------------------------------------------------------------
(* Ordinary requests.                                                      *)

\* isInConnectionLimitCooldown()
InCooldown == limited /\ timer # "none"

\* When a request may be written at once.
\* Mutant: any open socket will do.
MaySendEarly == opened

MaySend == status = "connected"

\* request() on a connected client writes at once.
RequestSend(r) ==
  /\ req[r] = "idle" /\ ~disposed /\ startup # "starting"
  /\ MaySend
  /\ req' = [req EXCEPT ![r] = "pending"]
  /\ sentOn' = [sentOn EXCEPT ![r] = socket]
  /\ Wrote("scoped")
  /\ UNCHANGED <<stateVars, linkVars, hs, attempt, renegotiating, identity,
                 snapshot, revision, greeted, retryVars, malformed, startVars,
                 beatVars, hello, heldOn, begun, rev, sub>>

\* request() on a client that is not connected waits for the connection, and
\* starts one when nothing else will.  While a daemon is starting, during the
\* connection-limit cooldown and after dispose() it is refused: no step.
RequestPark(r) ==
  /\ req[r] = "idle" /\ ~disposed /\ startup # "starting"
  /\ ~MaySend /\ ~InCooldown
  /\ \/ /\ ~Startable
        /\ req' = [req EXCEPT ![r] = "parked"]
        /\ UNCHANGED <<stateVars, linkVars, helloVars, retryVars, startVars,
                       beat, sentOn, hello, heldOn, begun, sub>>
     \/ /\ Startable /\ Connect
        /\ req' = [req EXCEPT ![r] = "parked"]
        /\ UNCHANGED <<disposed, hs, attempt, renegotiating, snapshot,
                       revision, greeted, first, delay, limited, recovery,
                       streak, startVars, beat, sentOn, hello, heldOn, begun,
                       sub>>
     \/ /\ Startable /\ DropTo("drop", startup, delay)
        /\ req' = [Failed(req, {"pending", "parked"}) EXCEPT ![r] = "parked"]
        /\ hello' = Failed(hello, {"sent", "parked"})
        /\ UNCHANGED <<sentOn, heldOn, begun>>
  /\ UNCHANGED <<malformed, probeVars, rev>>

\* A reply, an error reply or the request timeout.
RequestSettles(r) ==
  /\ req[r] = "pending"
  /\ req' = [req EXCEPT ![r] = "idle"]
  /\ UNCHANGED <<stateVars, linkVars, helloVars, retryVars, malformed,
                 startVars, beatVars, sentOn, hello, heldOn, begun, rev, sub>>

\* The consumer subscribes, and only logs a refusal.  Its handler of
\* reconnected, which subscribes again, is part of FinishConnect.
Subscribe ==
  /\ sub = "idle" /\ ~disposed /\ ~Startable
  /\ sub' = IF startup = "starting" \/ InCooldown THEN "lost"
            ELSE IF status = "connected" THEN "live" ELSE "parked"
  /\ IF sub' = "live" THEN Wrote("scoped") ELSE UNCHANGED first
  /\ UNCHANGED <<stateVars, linkVars, hs, attempt, renegotiating, identity,
                 snapshot, revision, greeted, retryVars, malformed, startVars,
                 beatVars, callVars, rev>>

-----------------------------------------------------------------------------
(* Caller-issued hellos.                                                   *)

\* The authority of the connection ends when a renegotiation begins.
\* Mutants: the old identity stays acknowledged; the heartbeat keeps running.
DemoteKeepsIdentity ==
  /\ snapshot' = None /\ beat' = FALSE /\ status' = "connecting"
  /\ UNCHANGED identity

DemoteKeepsHeartbeat ==
  /\ identity' = None /\ snapshot' = None /\ status' = "connecting"
  /\ UNCHANGED beat

Demote ==
  /\ identity' = None /\ snapshot' = None /\ status' = "connecting"
  /\ beat' = FALSE

\* beginRenegotiation() as h's requestHello() runs it.
BeginRenegotiation(h) ==
  /\ attempt' = h /\ renegotiating' = TRUE
  /\ Demote
  /\ begun' = [begun EXCEPT ![h] = TRUE]
  /\ heldOn' = [heldOn EXCEPT ![h] = socket]

\* request("client.hello"): a live connection loses its identity at once.
HelloCall(h) ==
  /\ hello[h] = "idle" /\ ~disposed /\ startup # "starting"
  /\ hello' = [hello EXCEPT ![h] = "params"]
  /\ \/ /\ status = "connected" \/ renegotiating
        /\ BeginRenegotiation(h)
        /\ revision' = None
     \/ /\ status # "connected" /\ ~renegotiating
        /\ begun' = [begun EXCEPT ![h] = FALSE]
        /\ heldOn' = [heldOn EXCEPT ![h] = socket]
        /\ UNCHANGED <<status, attempt, renegotiating, identity, snapshot,
                       revision, beat>>
  /\ UNCHANGED <<disposed, alive, linkVars, hs, greeted, first, retryVars,
                 malformed, startVars, probeVars, req, sentOn, rev, sub>>

\* The merged params need no wait: this socket is being renegotiated already,
\* or the client is connected.
Joins(h) == (renegotiating /\ heldOn[h] = socket) \/ status = "connected"

\* The merged params are there: begin again and write the hello.
HelloSend(h) ==
  /\ hello[h] = "params" /\ ~disposed /\ Joins(h)
  /\ BeginRenegotiation(h)
  /\ revision' = h
  /\ hello' = [hello EXCEPT ![h] = "sent"]
  /\ Wrote("hello")
  /\ UNCHANGED <<disposed, alive, linkVars, hs, greeted, retryVars, malformed,
                 startVars, probeVars, req, sentOn, rev, sub>>

\* The merged params are there and the connection is not: wait for it.
HelloPark(h) ==
  /\ hello[h] = "params" /\ ~disposed /\ ~Joins(h) /\ ~InCooldown
  /\ \/ /\ ~Startable
        /\ hello' = [hello EXCEPT ![h] = "parked"]
        /\ UNCHANGED <<stateVars, linkVars, helloVars, retryVars, startVars,
                       beat, req, sentOn, heldOn, begun, sub>>
     \/ /\ Startable /\ Connect
        /\ hello' = [hello EXCEPT ![h] = "parked"]
        /\ UNCHANGED <<disposed, hs, attempt, renegotiating, snapshot,
                       revision, greeted, first, delay, limited, recovery,
                       streak, startVars, beat, req, sentOn, heldOn, begun,
                       sub>>
     \/ /\ Startable /\ DropTo("drop", startup, delay)
        /\ req' = Failed(req, {"pending", "parked"})
        /\ hello' = [Failed(hello, {"sent", "parked"}) EXCEPT ![h] = "parked"]
        /\ UNCHANGED <<sentOn, heldOn, begun>>
  /\ UNCHANGED <<malformed, probeVars, rev>>

\* The call is refused: the client is gone or cooling down.
HelloRefused(h) ==
  /\ hello[h] = "params" /\ (disposed \/ (~Joins(h) /\ InCooldown))
  /\ hello' = [hello EXCEPT ![h] = "idle"]
  /\ UNCHANGED <<stateVars, linkVars, helloVars, retryVars, malformed,
                 startVars, beatVars, req, sentOn, heldOn, begun, rev, sub>>

\* Mutant of Owns: any hello of this socket may end the renegotiation.
OwnsAnyAttempt(h) == begun[h] /\ socket # 0 /\ heldOn[h] = socket

\* The hello h is the one this connection waits for.
Owns(h) == begun[h] /\ attempt = h /\ socket # 0 /\ heldOn[h] = socket

\* requestHello()'s finally: h settles; the hello that owns the renegotiation
\* reports the connection, with the flow it confirmed.
HelloEnds(h, confirmed, snap) ==
  IF Owns(h)
  THEN FinishConnect(confirmed, snap) /\ ReleaseHellos({h})
  ELSE /\ hello' = [hello EXCEPT ![h] = "idle"]
       /\ snapshot' = snap
       /\ UNCHANGED <<status, disposed, alive, linkVars, attempt,
                      renegotiating, identity, revision, timer, wait, delay,
                      limited, recovery, malformed, startVars, beatVars, req,
                      sentOn, heldOn, begun, rev, sub>>

\* The provider rejects before anything was written.
HelloParamsReject(h) ==
  /\ ParamsMayFail /\ hello[h] = "params" /\ ~disposed
  /\ HelloEnds(h, None, snapshot)
  /\ UNCHANGED <<hs, greeted, first, streak>>

\* The daemon answers h; only the hello written last updates the snapshot.
HelloReply(h, kind) ==
  /\ hello[h] = "sent"
  /\ HelloEnds(h, IF kind = "ok" THEN h ELSE None,
               IF kind # "error" /\ revision = h THEN h ELSE snapshot)
  /\ greeted' = TRUE
  /\ UNCHANGED <<hs, first, streak>>

\* Mutant of HelloTimeout: the renegotiation is left as it is.
HelloTimeoutForgets(h) ==
  /\ hello[h] = "sent"
  /\ hello' = [hello EXCEPT ![h] = "idle"]
  /\ UNCHANGED <<stateVars, linkVars, helloVars, retryVars, malformed,
                 startVars, beatVars, req, sentOn, heldOn, begun, rev, sub>>

\* h is not answered in time: the hello that owns the renegotiation gives the
\* socket up, another one only settles.
HelloTimeout(h) ==
  /\ hello[h] = "sent"
  /\ \/ /\ Owns(h) /\ CanLose
        /\ LoseConnection("helloTimeout")
        /\ UNCHANGED <<malformed, probeVars, rev>>
     \/ /\ ~Owns(h)
        /\ HelloEnds(h, None, snapshot)
        /\ UNCHANGED <<hs, greeted, first, streak>>

-----------------------------------------------------------------------------
(* The heartbeat and the daemon's own requests.                            *)

\* The interval fires: one health check at a time, on the socket it captures.
BeatTick ==
  /\ beat /\ ~probing /\ probes[socket] < MaxProbes
  /\ probing' = TRUE
  /\ probes' = [probes EXCEPT ![socket] = @ + 1]
  /\ UNCHANGED <<stateVars, linkVars, helloVars, retryVars, malformed,
                 startVars, beat, misses, callVars, rev, sub>>

\* A health check that captured socket s succeeds.
ProbeOk(s) ==
  /\ probes[s] > 0
  /\ probes' = [probes EXCEPT ![s] = @ - 1]
  /\ IF s = socket THEN misses' = 0 /\ probing' = FALSE
                   ELSE UNCHANGED <<misses, probing>>
  /\ UNCHANGED <<stateVars, linkVars, helloVars, retryVars, malformed,
                 startVars, beat, callVars, rev, sub>>

\* A health check counts only for the socket it captured.
\* Mutant: for whatever socket there is.
ConcernsAny(s) == socket # 0

Concerns(s) == s = socket

\* A health check that captured socket s fails: too many in a row lose the
\* connection, if it is still that one.
ProbeFail(s) ==
  /\ probes[s] > 0
  /\ probes' = [probes EXCEPT ![s] = @ - 1]
  /\ \/ /\ Concerns(s) /\ misses + 1 >= HealthThreshold /\ CanLose
        /\ misses' = misses + 1
        /\ LoseConnection("drop")
        /\ UNCHANGED probing
     \/ /\ ~Concerns(s) \/ misses + 1 < HealthThreshold
        /\ misses' = IF Concerns(s) THEN misses + 1 ELSE misses
        /\ probing' = (probing /\ ~Concerns(s))
        /\ UNCHANGED <<stateVars, linkVars, helloVars, retryVars, startVars,
                       beat, callVars, sub>>
  /\ UNCHANGED <<malformed, rev>>

\* The daemon issues a reverse request; its handler runs on its own.
RevArrives(q) ==
  /\ rev[q] = 0 /\ opened
  /\ rev' = [rev EXCEPT ![q] = socket]
  /\ UNCHANGED <<stateVars, linkVars, helloVars, retryVars, malformed,
                 startVars, beatVars, callVars, sub>>

\* The handler is done: its result goes to whatever socket there is.
RevAnswers(q) ==
  /\ rev[q] # 0
  /\ rev' = [rev EXCEPT ![q] = 0]
  /\ IF socket = 0 THEN UNCHANGED first ELSE Wrote("reverse")
  /\ UNCHANGED <<stateVars, linkVars, hs, attempt, renegotiating, identity,
                 snapshot, revision, greeted, retryVars, malformed, startVars,
                 beatVars, callVars, sub>>

-----------------------------------------------------------------------------
Init ==
  /\ status = "disconnected" /\ disposed = FALSE /\ alive = {}
  /\ socket = 0 /\ generation = 0 /\ opened = FALSE
  /\ hs = "none" /\ attempt = None /\ renegotiating = FALSE
  /\ identity = None /\ snapshot = None /\ revision = None
  /\ greeted = FALSE /\ first = "none"
  /\ timer = "none" /\ wait = 0 /\ delay = BaseDelay
  /\ limited = FALSE /\ recovery = FALSE /\ streak = 0
  /\ malformed = 0
  /\ startup = "none" /\ bootstrap = FALSE /\ poll = "off"
  /\ beat = FALSE /\ probing = FALSE /\ misses = 0
  /\ probes = [s \in Sockets |-> 0]
  /\ req = [r \in Requests |-> "idle"] /\ sentOn = [r \in Requests |-> 0]
  /\ hello = [h \in Hellos |-> "idle"] /\ heldOn = [h \in Hellos |-> 0]
  /\ begun = [h \in Hellos |-> FALSE]
  /\ rev = [q \in Reverse |-> 0]
  /\ sub = "idle"

DialStep ==
  Start \/ TimerFires \/ Open \/ DialFails \/ SocketDrops \/ MalformedFrame

HandshakeAnswered ==
  \/ \E kind \in {"ok", "anonymous", "error"} : HandshakeReply(kind)
  \/ HandshakeNotReady \/ HandshakeStartupFailed \/ HandshakeTimeout

PollAnswered ==
  PollStarting \/ (\E ready \in BOOLEAN : PollHandsOff(ready)) \/ PollFailed

HandshakeStep ==
  \/ HandshakeParams \/ HandshakeParamsReject \/ HandshakeAnswered
  \/ PollFires \/ PollAnswered

RequestStep(r) == RequestSend(r) \/ RequestPark(r) \/ RequestSettles(r)

HelloResolves(h) ==
  HelloSend(h) \/ HelloPark(h) \/ HelloRefused(h) \/ HelloParamsReject(h)

HelloAnswered(h) ==
  \/ \E kind \in {"ok", "anonymous", "error"} : HelloReply(h, kind)
  \/ HelloTimeout(h)

HelloStep(h) == HelloCall(h) \/ HelloResolves(h) \/ HelloAnswered(h)

BeatStep == BeatTick \/ \E s \in Sockets : ProbeOk(s) \/ ProbeFail(s)

ReverseStep(q) == RevArrives(q) \/ RevAnswers(q)

Next ==
  \/ DialStep \/ Dispose \/ HandshakeStep \/ Subscribe \/ BeatStep
  \/ \E r \in Requests : RequestStep(r)
  \/ \E h \in Hellos : HelloStep(h)
  \/ \E q \in Reverse : ReverseStep(q)

Spec == Init /\ [][Next]_vars

\* Timers fire, dials end, the provider and the daemon answer or time out.
\* Callers, drops and dispose() owe nothing.
Fairness ==
  /\ WF_vars(TimerFires) /\ WF_vars(Open \/ DialFails)
  /\ WF_vars(HandshakeParams \/ HandshakeParamsReject)
  /\ WF_vars(HandshakeAnswered)
  /\ WF_vars(PollFires) /\ WF_vars(PollAnswered)
  /\ \A r \in Requests : WF_vars(RequestSettles(r))
  /\ \A h \in Hellos : WF_vars(HelloResolves(h)) /\ WF_vars(HelloAnswered(h))

FairSpec == Spec /\ Fairness

-----------------------------------------------------------------------------
(* Properties.                                                             *)

\* Every variable stays in its range (the state of JsonRpcClient): its flags,
\* its modes, its flows, its counters and its callers.
FlagsOK ==
  /\ disposed \in BOOLEAN /\ opened \in BOOLEAN /\ renegotiating \in BOOLEAN
  /\ greeted \in BOOLEAN /\ limited \in BOOLEAN /\ recovery \in BOOLEAN
  /\ bootstrap \in BOOLEAN /\ beat \in BOOLEAN /\ probing \in BOOLEAN

ModesOK ==
  /\ status \in {"disconnected", "connecting", "connected"}
  /\ hs \in {"none", "params", "sent"}
  /\ first \in {"none", "hello", "reverse", "scoped"}
  /\ timer \in {"none", "retry", "handoff"}
  /\ startup \in {"none", "starting", "failed"}
  /\ poll \in {"off", "armed", "sent"}
  /\ sub \in {"idle", "parked", "lost", "live"}

FlowsOK ==
  /\ attempt \in Flows \cup {None} /\ identity \in Flows \cup {None}
  /\ snapshot \in Flows \cup {None} /\ revision \in Flows \cup {None}

CountersOK ==
  /\ generation \in 0..MaxSockets /\ socket \in 0..MaxSockets
  /\ alive \subseteq Sockets
  /\ wait \in Nat /\ delay \in Nat /\ streak \in 0..MaxStreak
  /\ malformed \in 0..MaxMalformed
  /\ misses \in Nat /\ probes \in [Sockets -> Nat]

CallsOK ==
  /\ req \in [Requests -> {"idle", "parked", "pending"}]
  /\ sentOn \in [Requests -> 0..MaxSockets]
  /\ hello \in [Hellos -> {"idle", "params", "parked", "sent"}]
  /\ heldOn \in [Hellos -> 0..MaxSockets] /\ begun \in [Hellos -> BOOLEAN]
  /\ rev \in [Reverse -> 0..MaxSockets]

TypeOK == FlagsOK /\ ModesOK /\ FlowsOK /\ CountersOK /\ CallsOK

\* A call that waits for a reply was written to the socket the client holds: a
\* reply that cannot come any more never keeps a caller (failPending on every
\* path that leaves a socket).
PendingOnCurrentSocket ==
  /\ \A r \in Requests : req[r] = "pending" => socket # 0 /\ sentOn[r] = socket
  /\ \A h \in Hellos : hello[h] = "sent" => socket # 0 /\ heldOn[h] = socket

\* A client that says "connecting" has something under way that will decide
\* it: an armed dial, a dial, a handshake, a startup poll or the hello that owns
\* the renegotiation.
ConnectingProgresses ==
  status = "connecting" =>
    \/ timer # "none"
    \/ /\ socket # 0
       /\ \/ ~opened \/ hs # "none" \/ poll # "off"
          \/ \E h \in Hellos : Owns(h) /\ hello[h] \in {"params", "sent"}

\* A call parked in connectWaiters has a connection attempt, or a timer that
\* makes one, to wait for; nothing waits on a disposed client.
NoStrandedWaiter ==
  (\E r \in Requests : req[r] = "parked")
    \/ (\E h \in Hellos : hello[h] = "parked") \/ sub = "parked"
  => ~disposed /\ (status = "connecting" \/ timer # "none")

\* Every socket this client did not destroy is the current one: no path dials
\* over a live socket, and no timer is armed beside one.
NoOrphanSocket ==
  /\ alive = IF socket = 0 THEN {} ELSE {socket}
  /\ timer # "none" => socket = 0

\* The acknowledged identity belongs to the last hello begun on the current,
\* opened socket, and the hello snapshot is that hello's result.
IdentityIsCurrent ==
  identity # None =>
    /\ opened /\ identity = attempt /\ identity = snapshot
    /\ status = "connected"

\* Authority granted by one hello is retired before anything can put it in
\* question: a step that the acknowledged identity survives leaves it, its
\* socket and its attempt alone, and begins, sends or parks no other hello.
\* Holders always see identity-retired in between (beginRenegotiation,
\* teardownSocket).
IdentityRetiredFirst ==
  [][identity # None /\ identity' # None =>
       /\ UNCHANGED <<identity, socket, attempt, revision>>
       /\ \A h \in Hellos : hello'[h] \in {"idle", hello[h]}]_vars

\* The client reports connected only on a socket whose hello the daemon
\* answered (onConnected's comment: "hold the status at `connecting` until the
\* daemon answers").
AnsweredBeforeConnected == status = "connected" => greeted

\* Nothing is written on a fresh socket before the hello (onConnected's comment
\* and the test "sends client.hello ... as the FIRST frame on connect").
FirstFrameIsHello == first \in {"none", "hello"}

\* A refusal for the connection cap waits as long as the daemon asked for
\* (getConnectionLimitRetryAfterMs: "The slow retry is scheduled on exactly
\* this value"), and nothing cuts the wait short: neither start(), nor a call
\* made on demand, nor a late callback, only the timer itself or dispose().
RetryCooldownIsSlow ==
  [][limited /\ timer = "retry" =>
       /\ wait >= LimitDelay
       /\ \/ UNCHANGED <<timer, wait, limited, socket>>
          \/ TimerFires \/ Dispose]_vars

\* A consumer that subscribed, or was refused or cut off, holds a live
\* subscription whenever the client is connected (the reconnected replay).
SubscriptionRestored == status = "connected" => sub \in {"idle", "live"}

\* While a daemon is starting the client keeps saying "connecting", and exactly
\* one of three attends to it: the poll on the bootstrap socket, the timer of
\* the next dial, or that dial and its handshake.  No poll goes on without its
\* bootstrap socket or once the wait is over.
StartupIsAttended ==
  /\ startup = "starting" /\ ~disposed =>
       /\ status = "connecting"
       /\ \/ poll # "off" /\ timer = "none" /\ opened /\ hs = "none"
          \/ poll = "off" /\ timer # "none" /\ socket = 0
          \/ /\ poll = "off" /\ timer = "none" /\ socket # 0
             /\ ~opened \/ hs # "none"
  /\ bootstrap <=> poll # "off"
  /\ bootstrap => startup = "starting"

\* The heartbeat runs only on a connected client, so no health check is sent
\* while the identity is being renegotiated or after dispose().
HeartbeatOnlyConnected == beat => status = "connected"

\* A health check outlives the socket it was sent on: its answer or failure may
\* come when another socket is in use, and then leaves that socket and its
\* failure count alone.
StaleProbesAreIgnored ==
  [][\A s \in Sockets :
       probes'[s] < probes[s] /\ s # socket =>
         UNCHANGED <<socket, misses, probing>>]_vars

\* The inductive invariant.  The socket carries everything that depends on it;
\* a fresh socket has no hello attempt yet.
SocketCarries ==
  /\ hs # "none" \/ renegotiating \/ status = "connected" => opened
  /\ opened => socket # 0
  /\ socket # 0 => status # "disconnected"
  /\ socket = 0 => attempt = None
  /\ disposed => socket = 0 /\ timer = "none" /\ status = "disconnected"

\* The connect-time handshake is alone with its socket.
HandshakeIsAlone ==
  /\ hs # "none" =>
       attempt = Handshake /\ status = "connecting" /\ ~renegotiating
  /\ hs = "sent" => revision = Handshake

\* A hello on the wire has begun, and the hello that owns the renegotiation is
\* the one whose result will be the snapshot.
OwnerLeads ==
  \A h \in Hellos :
    /\ hello[h] = "sent" => begun[h]
    /\ hello[h] \in {"params", "sent"} /\ Owns(h) => renegotiating
    /\ hello[h] = "sent" /\ Owns(h) => revision = h

\* The acknowledged identity was written last.
IdentityWrittenLast == identity # None => revision = identity

\* The poll belongs to an opened bootstrap socket whose handshake is over.
PollerOwnsSocket ==
  /\ startup = "starting" /\ ~disposed => status = "connecting"
  /\ bootstrap <=> poll # "off"
  /\ bootstrap => opened /\ startup = "starting" /\ hs = "none"

\* A subscription that was lost or refused is replayed by the next connect.
LossIsRemembered ==
  (sub = "lost" /\ ~disposed) \/ startup = "starting" \/ limited => recovery

LinkInv ==
  /\ SocketCarries /\ HandshakeIsAlone /\ LossIsRemembered
  /\ NoOrphanSocket /\ PollerOwnsSocket /\ HeartbeatOnlyConnected

HelloInv == OwnerLeads /\ IdentityWrittenLast /\ IdentityIsCurrent

WaitInv == PendingOnCurrentSocket /\ NoStrandedWaiter /\ ConnectingProgresses

ClientInv == LinkInv /\ HelloInv /\ WaitInv

\* Every request() settles: it is answered, times out, or fails with the
\* connection it waits for.
RequestsSettle == \A r \in Requests : req[r] # "idle" ~> req[r] = "idle"

\* A client that is dialling gets somewhere: it is connected, disconnected, or
\* knows the daemon to be starting.
ConnectingEnds ==
  status = "connecting" ~> status # "connecting" \/ startup = "starting"

====
