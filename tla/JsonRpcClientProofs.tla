------------------------ MODULE JsonRpcClientProofs ------------------------
(***************************************************************************)
(* JsonRpcClient for every value of its constants, in five parts: type     *)
(* correctness, with a lemma for each operator several handlers share; the *)
(* inductive invariant ClientInv; what a user of the client may rely on,   *)
(* the safety properties the runs check, each as a theorem; what is true   *)
(* of a socket by itself: its first frame, and its health checks; and that *)
(* the client implements the request channel.                              *)
(***************************************************************************)
EXTENDS JsonRpcClientRefinement, TLAPS

(* Type correctness.                                                       *)

\* What the actions leave to the caller of the shared operators.
FrameOK ==
  /\ malformed' \in 0..MaxMalformed /\ probing' \in BOOLEAN
  /\ misses' \in Nat /\ probes' \in [Sockets -> Nat]
  /\ rev' \in [Reverse -> 0..MaxSockets]

\* A failed connection (onConnectionFailure without its callers) stays well typed.
LEMMA DropKeepsType ==
  ASSUME TypeOK, FrameOK, CallsOK',
         NEW kind, NEW st \in {"none", "starting", "failed"}, NEW d \in Nat,
         DropTo(kind, st, d)
  PROVE  TypeOK'
<1> USE ClientAssumption DEF ClientAssumption, TypeOK, FrameOK, DropTo
<1>1. FlagsOK'
  BY DEF FlagsOK, TeardownSocket, StopPoller
<1>2. ModesOK'
  BY DEF ModesOK, TeardownSocket, StopPoller, LoseSubscription
<1>3. FlowsOK'
  BY DEF FlowsOK, TeardownSocket
<1>4. CountersOK'
  BY DEF CountersOK, TeardownSocket, RetryDelay, Max2, Min2
<1>5. QED BY <1>1, <1>2, <1>3, <1>4

\* onConnectionFailure() stays well typed.
LEMMA FailureKeepsType ==
  ASSUME TypeOK, FrameOK,
         NEW kind, NEW st \in {"none", "starting", "failed"}, NEW d \in Nat,
         ConnectionFailure(kind, st, d)
  PROVE  TypeOK'
<1>1. CallsOK'
  BY DEF ConnectionFailure, TypeOK, FrameOK, CallsOK, FailCalls, Failed
<1>2. QED BY <1>1, DropKeepsType DEF ConnectionFailure

\* startupHandoff() stays well typed.
LEMMA HandoffKeepsType ==
  ASSUME TypeOK, FrameOK, NEW ready \in BOOLEAN, StartupHandoff(ready)
  PROVE  TypeOK'
<1> USE ClientAssumption DEF ClientAssumption, TypeOK, FrameOK, StartupHandoff
<1>1. FlagsOK'
  BY DEF FlagsOK, TeardownSocket, StopPoller
<1>2. ModesOK'
  BY DEF ModesOK, TeardownSocket, StopPoller
<1>3. FlowsOK'
  BY DEF FlowsOK, TeardownSocket
<1>4. CountersOK'
  BY DEF CountersOK, TeardownSocket, Min2
<1>5. CallsOK'
  BY DEF CallsOK, FailCalls, Failed
<1>6. QED BY <1>1, <1>2, <1>3, <1>4, <1>5

\* A socket that is lost, to a failure or to a handoff, leaves a well typed client.
LEMMA LossKeepsType ==
  ASSUME TypeOK, FrameOK, NEW kind, LoseConnection(kind)
  PROVE  TypeOK'
<1>1. startup \in {"none", "starting", "failed"} /\ delay \in Nat
  BY DEF TypeOK, ModesOK, CountersOK
<1>2. CASE bootstrap
  BY <1>2, HandoffKeepsType DEF LoseConnection
<1>3. CASE ~bootstrap
  BY <1>1, <1>3, FailureKeepsType DEF LoseConnection
<1>4. QED BY <1>2, <1>3

\* failStartup() stays well typed.
LEMMA FailStartupKeepsType ==
  ASSUME TypeOK, FrameOK, FailStartup
  PROVE  TypeOK'
  BY FailureKeepsType DEF FailStartup, TypeOK, CountersOK

\* finishConnect() stays well typed.
LEMMA FinishKeepsType ==
  ASSUME TypeOK, NEW confirmed \in Flows \cup {None},
         NEW snap \in Flows \cup {None}, NEW others,
         FinishConnect(confirmed, snap), ReleaseHellos(others),
         hs' \in {"none", "params", "sent"}, greeted' \in BOOLEAN,
         first' \in {"none", "hello", "reverse", "scoped"},
         streak' \in 0..MaxStreak
  PROVE  TypeOK'
<1> USE ClientAssumption DEF ClientAssumption, TypeOK, FinishConnect,
      HelloWaiters, linkVars
<1>1. FlagsOK'
  <2>1. beat' \in BOOLEAN /\ renegotiating' \in BOOLEAN
    <3>1. (HealthThreshold > 0) \in BOOLEAN
      OBVIOUS
    <3>2. CASE HelloWaiters = {}
      BY <3>1, <3>2, Zenon
    <3>3. CASE HelloWaiters # {}
      BY <3>3, Zenon
    <3>4. QED BY <3>2, <3>3
  <2>2. QED BY <2>1 DEF FlagsOK, StopPoller
<1>2. ModesOK'
  <2>1. status' \in {"disconnected", "connecting", "connected"}
    BY Zenon
  <2>2. sub' \in {"idle", "parked", "lost", "live"}
    BY Zenon DEF ModesOK
  <2>3. QED BY <2>1, <2>2 DEF ModesOK, StopPoller
<1>3. FlowsOK'
  BY DEF FlowsOK, Flows
<1>4. CountersOK'
  BY DEF CountersOK
<1>5. CallsOK'
  BY DEF CallsOK, CountersOK, ReleaseHellos
<1>6. QED BY <1>1, <1>2, <1>3, <1>4, <1>5

\* A dial leaves the calls and everything but the socket alone.
LEMMA ConnectKeepsType ==
  ASSUME TypeOK, FrameOK, Connect, delay' \in Nat, CallsOK',
         UNCHANGED <<disposed, hs, attempt, renegotiating, snapshot, revision,
                     greeted, first, limited, recovery, streak, startup,
                     bootstrap, poll, beat, sub>>
  PROVE  TypeOK'
<1> USE ClientAssumption DEF ClientAssumption, TypeOK, FrameOK, Connect
<1>1. FlagsOK'
  BY DEF FlagsOK
<1>2. ModesOK'
  BY DEF ModesOK
<1>3. FlowsOK'
  BY DEF FlowsOK
<1>4. CountersOK'
  BY DEF CountersOK, CanLose, Sockets
<1>5. QED BY <1>1, <1>2, <1>3, <1>4

\* The end of a caller's hello.
LEMMA EndsKeepsType ==
  ASSUME TypeOK, NEW h \in Hellos, NEW confirmed \in Flows \cup {None},
         NEW snap \in Flows \cup {None}, HelloEnds(h, confirmed, snap),
         hs' \in {"none", "params", "sent"}, greeted' \in BOOLEAN,
         first' \in {"none", "hello", "reverse", "scoped"},
         streak' \in 0..MaxStreak
  PROVE  TypeOK'
<1>1. CASE Owns(h)
  BY <1>1, FinishKeepsType DEF HelloEnds
<1>2. CASE ~Owns(h)
  <2> USE <1>2 DEF HelloEnds, TypeOK, linkVars, startVars, beatVars, probeVars
  <2>1. FlagsOK' /\ ModesOK'
    BY DEF FlagsOK, ModesOK
  <2>2. FlowsOK' /\ CountersOK' /\ CallsOK'
    BY DEF FlowsOK, CountersOK, CallsOK
  <2>3. QED BY <2>1, <2>2
<1>3. QED BY <1>1, <1>2

\* Every reachable state of the client is well typed.
THEOREM TypeCorrect == Spec => []TypeOK
<1>1. Init => TypeOK
  <2> USE ClientAssumption DEF ClientAssumption, Init
  <2>1. Init => FlagsOK
    BY DEF FlagsOK
  <2>2. Init => ModesOK /\ FlowsOK /\ CallsOK
    BY DEF ModesOK, FlowsOK, CallsOK
  <2>3. Init => CountersOK
    BY DEF CountersOK, Sockets
  <2>4. QED BY <2>1, <2>2, <2>3 DEF TypeOK
<1>2. TypeOK /\ [Next]_vars => TypeOK'
  <2> SUFFICES ASSUME TypeOK, [Next]_vars PROVE TypeOK'
    OBVIOUS
  <2> USE ClientAssumption DEF ClientAssumption, stateVars, linkVars,
       helloVars,
        retryVars, startVars, beatVars, probeVars, callVars
  <2>1. CASE Start
    <3>1. FrameOK
      BY <2>1 DEF Start, TypeOK, FrameOK, FlagsOK, CountersOK, CallsOK,
           probeVars
    <3>2. CASE ConnectionFailure("drop", startup, delay)
      BY <3>1, <3>2, FailureKeepsType DEF TypeOK, ModesOK, CountersOK
    <3>3. CASE Connect /\ UNCHANGED <<disposed, hs, attempt, renegotiating,
                 snapshot, revision, greeted, first, delay, limited, recovery,
                 streak, startVars, beat, callVars, sub>>
      <4>1. CallsOK' /\ delay' \in Nat
        BY <2>1, <3>3 DEF Start, TypeOK, CallsOK, CountersOK, callVars
      <4>2. QED BY <3>1, <3>3, <4>1, ConnectKeepsType DEF startVars
    <3>4. QED BY <2>1, <3>2, <3>3 DEF Start
  <2>2. CASE TimerFires
    <3> DEFINE next == IF timer = "retry" THEN Min2(2 * wait, MaxDelay)
                                         ELSE delay
    <3>1. FrameOK /\ next \in Nat
      BY <2>2 DEF TimerFires, TypeOK, FrameOK, FlagsOK, CountersOK, CallsOK,
           probeVars, Min2
    <3>2. CASE ConnectionFailure("drop", startup, next)
      BY <3>1, <3>2, FailureKeepsType DEF TypeOK, ModesOK
    <3>3. CASE Connect /\ delay' = next /\ UNCHANGED <<disposed, hs, attempt,
                 renegotiating, snapshot, revision, greeted, first, limited,
                 recovery, streak, startVars, beat, callVars, sub>>
      <4>1. CallsOK'
        BY <2>2, <3>3 DEF TimerFires, TypeOK, CallsOK, callVars
      <4>2. QED BY <3>1, <3>3, <4>1, ConnectKeepsType DEF startVars
    <3>4. QED BY <2>2, <3>2, <3>3 DEF TimerFires
  <2>3. CASE Open
    <3>1. FlagsOK'
      BY <2>3 DEF Open, TypeOK, stateVars, retryVars, startVars, beatVars,
           probeVars, callVars, FlagsOK
    <3>2. ModesOK'
      BY <2>3 DEF Open, TypeOK, stateVars, retryVars, startVars, beatVars,
           probeVars, callVars, ModesOK
    <3>3. FlowsOK'
      BY <2>3 DEF Open, TypeOK, stateVars, retryVars, startVars, beatVars,
           probeVars, callVars, FlowsOK, Flows
    <3>4. CountersOK'
      BY <2>3 DEF Open, TypeOK, stateVars, retryVars, startVars, beatVars,
           probeVars, callVars, CountersOK
    <3>5. CallsOK'
      BY <2>3 DEF Open, TypeOK, stateVars, retryVars, startVars, beatVars,
           probeVars, callVars, CallsOK, CountersOK
    <3>6. QED BY <3>1, <3>2, <3>3, <3>4, <3>5 DEF TypeOK
  <2>4. CASE DialFails
    <3>1. FrameOK
      BY <2>4 DEF DialFails, TypeOK, FrameOK, FlagsOK, CountersOK, CallsOK,
           probeVars
    <3>2. QED BY <2>4, <3>1, LossKeepsType DEF DialFails
  <2>5. CASE SocketDrops
    <3>1. FrameOK
      BY <2>5 DEF SocketDrops, TypeOK, FrameOK, FlagsOK, CountersOK, CallsOK,
           probeVars
    <3>2. QED BY <2>5, <3>1, LossKeepsType DEF SocketDrops
  <2>6. CASE MalformedFrame
    <3>1. PICK spent \in {0, malformed} :
             \/ /\ malformed' = spent
                /\ UNCHANGED <<stateVars, linkVars, helloVars, retryVars,
                               startVars, beat, callVars, sub>>
             \/ /\ WithinBudget(spent) /\ malformed' = spent + 1
                /\ LoseConnection("drop")
      BY <2>6 DEF MalformedFrame
    <3>2. FrameOK
      <4>1. malformed' \in 0..MaxMalformed
        BY <3>1 DEF WithinBudget, TypeOK, CountersOK
      <4>2. QED BY <2>6, <4>1 DEF MalformedFrame, TypeOK, FrameOK, FlagsOK,
                  CountersOK, CallsOK
    <3>3. CASE LoseConnection("drop")
      BY <3>2, <3>3, LossKeepsType
    <3>4. CASE UNCHANGED <<stateVars, linkVars, helloVars, retryVars,
                           startVars, beat, callVars, sub>>
      BY <3>2, <3>4 DEF TypeOK, FrameOK, FlagsOK, ModesOK, FlowsOK, CountersOK,
           CallsOK
    <3>5. QED BY <3>1, <3>3, <3>4
  <2>7. CASE Dispose
    <3>1. FlagsOK'
      BY <2>7 DEF Dispose, TypeOK, TeardownSocket, StopPoller,
           LoseSubscription, FailCalls, Failed, probeVars, FlagsOK
    <3>2. ModesOK'
      BY <2>7 DEF Dispose, TypeOK, TeardownSocket, StopPoller,
           LoseSubscription, FailCalls, Failed, probeVars, ModesOK
    <3>3. FlowsOK'
      BY <2>7 DEF Dispose, TypeOK, TeardownSocket, StopPoller,
           LoseSubscription, FailCalls, Failed, probeVars, FlowsOK, Flows
    <3>4. CountersOK'
      BY <2>7 DEF Dispose, TypeOK, TeardownSocket, StopPoller,
           LoseSubscription, FailCalls, Failed, probeVars, CountersOK
    <3>5. CallsOK'
      BY <2>7 DEF Dispose, TypeOK, TeardownSocket, StopPoller,
           LoseSubscription, FailCalls, Failed, probeVars, CallsOK, CountersOK
    <3>6. QED BY <3>1, <3>2, <3>3, <3>4, <3>5 DEF TypeOK
  <2>8. CASE HandshakeParams
    <3>1. FlagsOK'
      BY <2>8 DEF HandshakeParams, TypeOK, Wrote, FlagsOK
    <3>2. ModesOK'
      BY <2>8 DEF HandshakeParams, TypeOK, Wrote, ModesOK
    <3>3. FlowsOK'
      BY <2>8 DEF HandshakeParams, TypeOK, Wrote, FlowsOK, Flows
    <3>4. CountersOK'
      BY <2>8 DEF HandshakeParams, TypeOK, Wrote, CountersOK
    <3>5. CallsOK'
      BY <2>8 DEF HandshakeParams, TypeOK, Wrote, CallsOK, CountersOK
    <3>6. QED BY <3>1, <3>2, <3>3, <3>4, <3>5 DEF TypeOK
  <2>9. CASE HandshakeParamsReject
    <3>1. /\ hs' \in {"none", "params", "sent"} /\ greeted' \in BOOLEAN
          /\ first' \in {"none", "hello", "reverse", "scoped"}
          /\ streak' \in 0..MaxStreak
      BY <2>9 DEF HandshakeParamsReject, Wrote, TypeOK, FlagsOK, ModesOK,
           CountersOK
    <3>2. QED BY <2>9, <3>1, FinishKeepsType DEF HandshakeParamsReject, Flows
  <2>10. CASE \E kind \in {"ok", "anonymous", "error"} : HandshakeReply(kind)
    <3>1. /\ hs' \in {"none", "params", "sent"} /\ greeted' \in BOOLEAN
          /\ first' \in {"none", "hello", "reverse", "scoped"}
          /\ streak' \in 0..MaxStreak
      BY <2>10 DEF HandshakeReply, Wrote, TypeOK, FlagsOK, ModesOK, CountersOK
    <3>2. QED BY <2>10, <3>1, FinishKeepsType DEF HandshakeReply, Flows
  <2>11. CASE HandshakeNotReady
    <3>1. FlagsOK'
      BY <2>11 DEF HandshakeNotReady, TypeOK, EnterStartup, RefuseWaiters,
           FailCalls, Failed, stateVars, linkVars, beatVars, probeVars, FlagsOK
    <3>2. ModesOK'
      BY <2>11 DEF HandshakeNotReady, TypeOK, EnterStartup, RefuseWaiters,
           FailCalls, Failed, stateVars, linkVars, beatVars, probeVars, ModesOK
    <3>3. FlowsOK'
      BY <2>11 DEF HandshakeNotReady, TypeOK, EnterStartup, RefuseWaiters,
           FailCalls, Failed, stateVars, linkVars, beatVars, probeVars,
           FlowsOK, Flows
    <3>4. CountersOK'
      BY <2>11 DEF HandshakeNotReady, TypeOK, EnterStartup, RefuseWaiters,
           FailCalls, Failed, stateVars, linkVars, beatVars, probeVars,
           CountersOK
    <3>5. CallsOK'
      BY <2>11 DEF HandshakeNotReady, TypeOK, EnterStartup, RefuseWaiters,
           FailCalls, Failed, stateVars, linkVars, beatVars, probeVars,
           CallsOK, CountersOK
    <3>6. QED BY <3>1, <3>2, <3>3, <3>4, <3>5 DEF TypeOK
  <2>12. CASE HandshakeStartupFailed
    <3>1. FrameOK
      BY <2>12 DEF HandshakeStartupFailed, TypeOK, FrameOK, FlagsOK,
           CountersOK, CallsOK, probeVars
    <3>2. QED BY <2>12, <3>1, FailStartupKeepsType DEF HandshakeStartupFailed
  <2>13. CASE HandshakeTimeout
    <3>1. FrameOK
      BY <2>13 DEF HandshakeTimeout, TypeOK, FrameOK, FlagsOK, CountersOK,
           CallsOK, probeVars
    <3>2. QED BY <2>13, <3>1, LossKeepsType DEF HandshakeTimeout
  <2>14. CASE PollFires
    <3>1. FlagsOK'
      BY <2>14 DEF PollFires, TypeOK, FlagsOK
    <3>2. ModesOK'
      BY <2>14 DEF PollFires, TypeOK, ModesOK
    <3>3. FlowsOK'
      BY <2>14 DEF PollFires, TypeOK, FlowsOK, Flows
    <3>4. CountersOK'
      BY <2>14 DEF PollFires, TypeOK, CountersOK
    <3>5. CallsOK'
      BY <2>14 DEF PollFires, TypeOK, CallsOK, CountersOK
    <3>6. QED BY <3>1, <3>2, <3>3, <3>4, <3>5 DEF TypeOK
  <2>15. CASE PollStarting
    <3>1. FlagsOK'
      BY <2>15 DEF PollStarting, TypeOK, FlagsOK
    <3>2. ModesOK'
      BY <2>15 DEF PollStarting, TypeOK, ModesOK
    <3>3. FlowsOK'
      BY <2>15 DEF PollStarting, TypeOK, FlowsOK, Flows
    <3>4. CountersOK'
      BY <2>15 DEF PollStarting, TypeOK, CountersOK
    <3>5. CallsOK'
      BY <2>15 DEF PollStarting, TypeOK, CallsOK, CountersOK
    <3>6. QED BY <3>1, <3>2, <3>3, <3>4, <3>5 DEF TypeOK
  <2>16. CASE \E ready \in BOOLEAN : PollHandsOff(ready)
    <3>1. FrameOK
      BY <2>16 DEF PollHandsOff, TypeOK, FrameOK, FlagsOK, CountersOK, CallsOK,
           probeVars
    <3>2. QED BY <2>16, <3>1, HandoffKeepsType DEF PollHandsOff
  <2>17. CASE PollFailed
    <3>1. FrameOK
      BY <2>17 DEF PollFailed, TypeOK, FrameOK, FlagsOK, CountersOK, CallsOK,
           probeVars
    <3>2. QED BY <2>17, <3>1, FailStartupKeepsType DEF PollFailed
  <2>18. CASE Subscribe
    <3>1. FlagsOK'
      BY <2>18 DEF Subscribe, TypeOK, Wrote, FlagsOK
    <3>2. ModesOK'
      BY <2>18 DEF Subscribe, TypeOK, Wrote, ModesOK
    <3>3. FlowsOK'
      BY <2>18 DEF Subscribe, TypeOK, Wrote, FlowsOK, Flows
    <3>4. CountersOK'
      BY <2>18 DEF Subscribe, TypeOK, Wrote, CountersOK
    <3>5. CallsOK'
      BY <2>18 DEF Subscribe, TypeOK, Wrote, CallsOK, CountersOK
    <3>6. QED BY <3>1, <3>2, <3>3, <3>4, <3>5 DEF TypeOK
  <2>19. CASE BeatTick
    <3>1. FlagsOK'
      BY <2>19 DEF BeatTick, TypeOK, FlagsOK
    <3>2. ModesOK'
      BY <2>19 DEF BeatTick, TypeOK, ModesOK
    <3>3. FlowsOK'
      BY <2>19 DEF BeatTick, TypeOK, FlowsOK, Flows
    <3>4. CountersOK'
      <4>1. probes' \in [Sockets -> Nat]
        <5>1. CASE socket \in Sockets
          BY <2>19, <5>1 DEF BeatTick, TypeOK, CountersOK
        <5>2. CASE socket \notin Sockets
          BY <2>19, <5>2 DEF BeatTick, TypeOK, CountersOK
        <5>3. QED BY <5>1, <5>2
      <4>2. QED BY <2>19, <4>1 DEF BeatTick, TypeOK, CountersOK
    <3>5. CallsOK'
      BY <2>19 DEF BeatTick, TypeOK, CallsOK, CountersOK
    <3>6. QED BY <3>1, <3>2, <3>3, <3>4, <3>5 DEF TypeOK
  <2>20. ASSUME NEW r \in Requests, RequestSend(r) PROVE TypeOK'
    <3>1. FlagsOK'
      BY <2>20 DEF RequestSend, Wrote, TypeOK, FlagsOK
    <3>2. ModesOK'
      BY <2>20 DEF RequestSend, Wrote, TypeOK, ModesOK
    <3>3. FlowsOK'
      BY <2>20 DEF RequestSend, Wrote, TypeOK, FlowsOK, Flows
    <3>4. CountersOK'
      BY <2>20 DEF RequestSend, Wrote, TypeOK, CountersOK
    <3>5. CallsOK'
      BY <2>20 DEF RequestSend, Wrote, TypeOK, CallsOK, CountersOK
    <3>6. QED BY <3>1, <3>2, <3>3, <3>4, <3>5 DEF TypeOK
  <2>21. ASSUME NEW r \in Requests, RequestPark(r) PROVE TypeOK'
    <3>1. FrameOK
      BY <2>21 DEF RequestPark, TypeOK, FrameOK, FlagsOK, CountersOK, CallsOK
    <3>2. CASE UNCHANGED <<stateVars, linkVars, helloVars, retryVars, startVars,
                           beat, sentOn, hello, heldOn, begun, sub>>
      <4>1. FlagsOK' /\ ModesOK' /\ FlowsOK'
        BY <2>21, <3>1, <3>2 DEF RequestPark, TypeOK, FrameOK, FlagsOK,
             ModesOK, FlowsOK
      <4>2. CountersOK' /\ CallsOK'
        BY <2>21, <3>1, <3>2 DEF RequestPark, TypeOK, FrameOK, CountersOK,
             CallsOK, Failed
      <4>3. QED BY <4>1, <4>2 DEF TypeOK
    <3>3. CASE /\ Connect /\ req' = [req EXCEPT ![r] = "parked"]
               /\ UNCHANGED <<disposed, hs, attempt, renegotiating,
                 snapshot, revision, greeted, first, delay, limited, recovery,
                 streak, startVars, beat, sentOn, hello, heldOn,
                 begun, sub>>
      <4>1. CallsOK' /\ delay' \in Nat
        BY <3>1, <3>3 DEF TypeOK, FrameOK, CallsOK, CountersOK
      <4>2. QED BY <3>1, <3>3, <4>1, ConnectKeepsType
    <3>4. CASE DropTo("drop", startup, delay)
      <4>1. CallsOK'
        BY <2>21, <3>4 DEF RequestPark, TypeOK, CallsOK, Failed
      <4>2. QED BY <3>1, <3>4, <4>1, DropKeepsType DEF TypeOK, ModesOK,
           CountersOK
    <3>5. QED BY <2>21, <3>2, <3>3, <3>4 DEF RequestPark
  <2>22. ASSUME NEW r \in Requests, RequestSettles(r) PROVE TypeOK'
    <3>1. FlagsOK'
      BY <2>22 DEF RequestSettles, TypeOK, FlagsOK
    <3>2. ModesOK'
      BY <2>22 DEF RequestSettles, TypeOK, ModesOK
    <3>3. FlowsOK'
      BY <2>22 DEF RequestSettles, TypeOK, FlowsOK, Flows
    <3>4. CountersOK'
      BY <2>22 DEF RequestSettles, TypeOK, CountersOK
    <3>5. CallsOK'
      BY <2>22 DEF RequestSettles, TypeOK, CallsOK, CountersOK
    <3>6. QED BY <3>1, <3>2, <3>3, <3>4, <3>5 DEF TypeOK
  <2>23. ASSUME NEW h \in Hellos, HelloCall(h) PROVE TypeOK'
    <3>1. FlagsOK'
      BY <2>23 DEF HelloCall, BeginRenegotiation, Demote, TypeOK, FlagsOK
    <3>2. ModesOK'
      BY <2>23 DEF HelloCall, BeginRenegotiation, Demote, TypeOK, ModesOK
    <3>3. FlowsOK'
      BY <2>23 DEF HelloCall, BeginRenegotiation, Demote, TypeOK, FlowsOK,
           Flows
    <3>4. CountersOK'
      BY <2>23 DEF HelloCall, BeginRenegotiation, Demote, TypeOK, CountersOK
    <3>5. CallsOK'
      BY <2>23 DEF HelloCall, BeginRenegotiation, Demote, TypeOK, CallsOK,
           CountersOK
    <3>6. QED BY <3>1, <3>2, <3>3, <3>4, <3>5 DEF TypeOK
  <2>24. ASSUME NEW h \in Hellos, HelloSend(h) PROVE TypeOK'
    <3>1. FlagsOK'
      BY <2>24 DEF HelloSend, BeginRenegotiation, Demote, Wrote, TypeOK,
           FlagsOK
    <3>2. ModesOK'
      BY <2>24 DEF HelloSend, BeginRenegotiation, Demote, Wrote, TypeOK,
           ModesOK
    <3>3. FlowsOK'
      BY <2>24 DEF HelloSend, BeginRenegotiation, Demote, Wrote, TypeOK,
           FlowsOK, Flows
    <3>4. CountersOK'
      BY <2>24 DEF HelloSend, BeginRenegotiation, Demote, Wrote, TypeOK,
           CountersOK
    <3>5. CallsOK'
      BY <2>24 DEF HelloSend, BeginRenegotiation, Demote, Wrote, TypeOK,
           CallsOK, CountersOK
    <3>6. QED BY <3>1, <3>2, <3>3, <3>4, <3>5 DEF TypeOK
  <2>25. ASSUME NEW h \in Hellos, HelloPark(h) PROVE TypeOK'
    <3>1. FrameOK
      BY <2>25 DEF HelloPark, TypeOK, FrameOK, FlagsOK, CountersOK, CallsOK
    <3>2. CASE UNCHANGED <<stateVars, linkVars, helloVars, retryVars, startVars,
                           beat, sentOn, heldOn, begun, sub>>
      <4>1. FlagsOK' /\ ModesOK' /\ FlowsOK'
        BY <2>25, <3>1, <3>2 DEF HelloPark, TypeOK, FrameOK, FlagsOK, ModesOK,
             FlowsOK
      <4>2. CountersOK' /\ CallsOK'
        BY <2>25, <3>1, <3>2 DEF HelloPark, TypeOK, FrameOK, CountersOK,
             CallsOK, Failed
      <4>3. QED BY <4>1, <4>2 DEF TypeOK
    <3>3. CASE /\ Connect /\ hello' = [hello EXCEPT ![h] = "parked"]
               /\ UNCHANGED <<disposed, hs, attempt, renegotiating,
                 snapshot, revision, greeted, first, delay, limited, recovery,
                 streak, startVars, beat, req, sentOn, heldOn,
                 begun, sub>>
      <4>1. CallsOK' /\ delay' \in Nat
        BY <3>1, <3>3 DEF TypeOK, FrameOK, CallsOK, CountersOK
      <4>2. QED BY <3>1, <3>3, <4>1, ConnectKeepsType
    <3>4. CASE DropTo("drop", startup, delay)
      <4>1. CallsOK'
        BY <2>25, <3>4 DEF HelloPark, TypeOK, CallsOK, Failed
      <4>2. QED BY <3>1, <3>4, <4>1, DropKeepsType DEF TypeOK, ModesOK,
           CountersOK
    <3>5. QED BY <2>25, <3>2, <3>3, <3>4 DEF HelloPark
  <2>26. ASSUME NEW h \in Hellos, HelloRefused(h) PROVE TypeOK'
    <3>1. FlagsOK'
      BY <2>26 DEF HelloRefused, TypeOK, FlagsOK
    <3>2. ModesOK'
      BY <2>26 DEF HelloRefused, TypeOK, ModesOK
    <3>3. FlowsOK'
      BY <2>26 DEF HelloRefused, TypeOK, FlowsOK, Flows
    <3>4. CountersOK'
      BY <2>26 DEF HelloRefused, TypeOK, CountersOK
    <3>5. CallsOK'
      BY <2>26 DEF HelloRefused, TypeOK, CallsOK, CountersOK
    <3>6. QED BY <3>1, <3>2, <3>3, <3>4, <3>5 DEF TypeOK
  <2>27. ASSUME NEW h \in Hellos, HelloParamsReject(h) PROVE TypeOK'
    <3>1. hs' \in {"none", "params", "sent"} /\ greeted' \in BOOLEAN
          /\ first' \in {"none", "hello", "reverse", "scoped"}
          /\ streak' \in 0..MaxStreak
      BY <2>27 DEF HelloParamsReject, TypeOK, FlagsOK, ModesOK, CountersOK
    <3>2. QED BY <2>27, <3>1, EndsKeepsType DEF HelloParamsReject, TypeOK,
         FlowsOK, Flows
  <2>28. ASSUME NEW h \in Hellos, NEW kind \in {"ok", "anonymous", "error"},
               HelloReply(h, kind)
        PROVE  TypeOK'
    <3>1. hs' \in {"none", "params", "sent"} /\ greeted' \in BOOLEAN
          /\ first' \in {"none", "hello", "reverse", "scoped"}
          /\ streak' \in 0..MaxStreak
      BY <2>28 DEF HelloReply, TypeOK, FlagsOK, ModesOK, CountersOK
    <3>2. QED BY <2>28, <3>1, EndsKeepsType DEF HelloReply, TypeOK, FlowsOK,
         Flows
  <2>29. ASSUME NEW h \in Hellos, HelloTimeout(h) PROVE TypeOK'
    <3>1. CASE Owns(h)
      <4>1. FrameOK
        BY <2>29, <3>1 DEF HelloTimeout, TypeOK, FrameOK, FlagsOK, CountersOK,
             CallsOK
      <4>2. QED BY <2>29, <3>1, <4>1, LossKeepsType DEF HelloTimeout
    <3>2. CASE ~Owns(h)
      <4>1. hs' \in {"none", "params", "sent"} /\ greeted' \in BOOLEAN
            /\ first' \in {"none", "hello", "reverse", "scoped"}
            /\ streak' \in 0..MaxStreak
        BY <2>29, <3>2 DEF HelloTimeout, TypeOK, FlagsOK, ModesOK, CountersOK
      <4>2. QED BY <2>29, <3>2, <4>1, EndsKeepsType DEF HelloTimeout, TypeOK,
           FlowsOK
    <3>3. QED BY <3>1, <3>2
  <2>30. ASSUME NEW s \in Sockets, ProbeOk(s) PROVE TypeOK'
    <3>1. FlagsOK'
      BY <2>30 DEF ProbeOk, TypeOK, FlagsOK
    <3>2. ModesOK'
      BY <2>30 DEF ProbeOk, TypeOK, ModesOK
    <3>3. FlowsOK'
      BY <2>30 DEF ProbeOk, TypeOK, FlowsOK, Flows
    <3>4. CountersOK'
      BY <2>30 DEF ProbeOk, TypeOK, CountersOK
    <3>5. CallsOK'
      BY <2>30 DEF ProbeOk, TypeOK, CallsOK, CountersOK
    <3>6. QED BY <3>1, <3>2, <3>3, <3>4, <3>5 DEF TypeOK
  <2>31. ASSUME NEW s \in Sockets, ProbeFail(s) PROVE TypeOK'
    <3>1. FrameOK
      <4>1. probing' \in BOOLEAN
        BY <2>31 DEF ProbeFail, TypeOK, FlagsOK
      <4>2. QED BY <2>31, <4>1 DEF ProbeFail, TypeOK, FrameOK, CountersOK,
           CallsOK
    <3>2. CASE LoseConnection("drop")
      BY <3>1, <3>2, LossKeepsType
    <3>3. CASE UNCHANGED <<stateVars, linkVars, helloVars, retryVars, startVars,
                           beat, callVars, sub>>
      BY <3>1, <3>3 DEF TypeOK, FrameOK, FlagsOK, ModesOK, FlowsOK, CountersOK,
           CallsOK
    <3>4. QED BY <2>31, <3>2, <3>3 DEF ProbeFail
  <2>32. ASSUME NEW q \in Reverse, RevArrives(q) PROVE TypeOK'
    <3>1. FlagsOK'
      BY <2>32 DEF RevArrives, TypeOK, FlagsOK
    <3>2. ModesOK'
      BY <2>32 DEF RevArrives, TypeOK, ModesOK
    <3>3. FlowsOK'
      BY <2>32 DEF RevArrives, TypeOK, FlowsOK, Flows
    <3>4. CountersOK'
      BY <2>32 DEF RevArrives, TypeOK, CountersOK
    <3>5. CallsOK'
      BY <2>32 DEF RevArrives, TypeOK, CallsOK, CountersOK
    <3>6. QED BY <3>1, <3>2, <3>3, <3>4, <3>5 DEF TypeOK
  <2>33. ASSUME NEW q \in Reverse, RevAnswers(q) PROVE TypeOK'
    <3>1. FlagsOK'
      BY <2>33 DEF RevAnswers, Wrote, TypeOK, FlagsOK
    <3>2. ModesOK'
      BY <2>33 DEF RevAnswers, Wrote, TypeOK, ModesOK
    <3>3. FlowsOK'
      BY <2>33 DEF RevAnswers, Wrote, TypeOK, FlowsOK, Flows
    <3>4. CountersOK'
      BY <2>33 DEF RevAnswers, Wrote, TypeOK, CountersOK
    <3>5. CallsOK'
      BY <2>33 DEF RevAnswers, Wrote, TypeOK, CallsOK, CountersOK
    <3>6. QED BY <3>1, <3>2, <3>3, <3>4, <3>5 DEF TypeOK
  <2>34. CASE UNCHANGED vars
    BY <2>34 DEF vars, TypeOK, FlagsOK, ModesOK, FlowsOK, CountersOK, CallsOK
    <2>35. QED BY <2>1, <2>2, <2>3, <2>4, <2>5, <2>6, <2>7, <2>8, <2>9, <2>10,
          <2>11, <2>12, <2>13, <2>14, <2>15, <2>16, <2>17, <2>18, <2>19,
          <2>20, <2>21, <2>22, <2>23, <2>24, <2>25, <2>26, <2>27, <2>28,
          <2>29, <2>30, <2>31, <2>32, <2>33, <2>34 DEF Next, DialStep,
          HandshakeStep, HandshakeAnswered, PollAnswered, RequestStep,
          HelloStep, HelloResolves, HelloAnswered, BeatStep, ReverseStep
<1>3. QED BY <1>1, <1>2, PTL DEF Spec

-----------------------------------------------------------------------------
(* Safety: ClientInv is inductive.                                         *)

\* A client whose connection failed and whose callers were failed satisfies the
\* invariant, whatever it was before.
LEMMA DropKeepsInv ==
  ASSUME TypeOK, ClientInv, ~disposed, FrameOK, CallsOK',
         NEW kind, NEW st \in {"none", "starting", "failed"}, NEW d \in Nat,
         DropTo(kind, st, d),
         \A r \in Requests : req'[r] # "pending",
         \A h \in Hellos : hello'[h] # "sent",
         \/ timer' # "none"
         \/ /\ \A r \in Requests : req'[r] # "parked"
            /\ \A h \in Hellos : hello'[h] # "parked"
  PROVE  ClientInv'
<1> USE ClientAssumption DEF ClientAssumption, TypeOK, ClientInv, DropTo,
      TeardownSocket, StopPoller
<1>1. LinkInv'
  BY DEF LinkInv, SocketCarries, HandshakeIsAlone, LossIsRemembered,
       NoOrphanSocket, PollerOwnsSocket, HeartbeatOnlyConnected, ModesOK
<1>2. HelloInv'
  BY DEF HelloInv, OwnerLeads, IdentityWrittenLast, IdentityIsCurrent, Owns
<1>3. WaitInv'
  BY DEF WaitInv, PendingOnCurrentSocket, NoStrandedWaiter,
       ConnectingProgresses, LoseSubscription
<1>4. QED BY <1>1, <1>2, <1>3

\* onConnectionFailure() re-establishes the invariant.
LEMMA FailureKeepsInv ==
  ASSUME TypeOK, ClientInv, ~disposed, FrameOK,
         NEW kind, NEW st \in {"none", "starting", "failed"}, NEW d \in Nat,
         ConnectionFailure(kind, st, d)
  PROVE  ClientInv'
<1>1. CallsOK'
  BY FailureKeepsType DEF TypeOK
<1>2. /\ \A r \in Requests : req'[r] \notin {"pending", "parked"}
      /\ \A h \in Hellos : hello'[h] \notin {"sent", "parked"}
  BY DEF ConnectionFailure, FailCalls, Failed, TypeOK, CallsOK
<1>3. QED BY <1>1, <1>2, DropKeepsInv DEF ConnectionFailure

\* startupHandoff() leaves a client that waits for the daemon with a timer armed.
LEMMA HandoffKeepsInv ==
  ASSUME TypeOK, ClientInv, bootstrap, FrameOK, NEW ready \in BOOLEAN,
         StartupHandoff(ready)
  PROVE  ClientInv'
<1> USE ClientAssumption DEF ClientAssumption, TypeOK, ClientInv,
      StartupHandoff, TeardownSocket, StopPoller
<1>1. /\ ~disposed /\ status = "connecting"
      /\ startup = "starting" /\ socket # 0
  BY DEF LinkInv, PollerOwnsSocket, SocketCarries
<1>2. LinkInv'
  BY <1>1 DEF LinkInv, SocketCarries, HandshakeIsAlone, LossIsRemembered,
       NoOrphanSocket, PollerOwnsSocket, HeartbeatOnlyConnected
<1>3. \A r \in Requests : req'[r] # "pending"
  BY DEF FailCalls, Failed, CallsOK
<1>4. \A h \in Hellos : hello'[h] # "sent"
  BY DEF FailCalls, Failed, CallsOK
<1>5. HelloInv'
  BY <1>4 DEF HelloInv, OwnerLeads, IdentityWrittenLast, IdentityIsCurrent,
       Owns
<1>6. WaitInv'
  BY <1>1, <1>3, <1>4 DEF WaitInv, PendingOnCurrentSocket, NoStrandedWaiter,
       ConnectingProgresses
<1>7. QED BY <1>2, <1>5, <1>6

\* Losing the socket is one or the other.
LEMMA LossKeepsInv ==
  ASSUME TypeOK, ClientInv, socket # 0, FrameOK, NEW kind, LoseConnection(kind)
  PROVE  ClientInv'
<1>1. ~disposed /\ delay \in Nat /\ startup \in {"none", "starting", "failed"}
  BY DEF ClientInv, LinkInv, SocketCarries, TypeOK, CountersOK, ModesOK
<1>2. CASE bootstrap
  BY <1>2, HandoffKeepsInv DEF LoseConnection
<1>3. CASE ~bootstrap
  BY <1>1, <1>3, FailureKeepsInv DEF LoseConnection
<1>4. QED BY <1>2, <1>3

\* connect() replaces no socket: it dials only when there is none.
LEMMA ConnectKeepsInv ==
  ASSUME TypeOK, ClientInv, socket = 0, ~disposed, Connect,
         UNCHANGED <<disposed, hs, attempt, renegotiating, snapshot, revision,
                     greeted, first, limited, recovery, streak, startup,
                     bootstrap, poll, beat, sub, heldOn, begun, sentOn>>,
         \A r \in Requests : req'[r] = "pending" => req[r] = "pending",
         \A h \in Hellos : hello'[h] = "sent" => hello[h] = "sent"
  PROVE  ClientInv'
<1> USE ClientAssumption DEF ClientAssumption, TypeOK, ClientInv, Connect
<1>1. /\ ~opened /\ hs = "none" /\ ~renegotiating /\ ~bootstrap
      /\ attempt = None /\ identity = None /\ poll = "off" /\ ~beat
  BY DEF LinkInv, SocketCarries, PollerOwnsSocket, HelloInv,
       IdentityIsCurrent, HeartbeatOnlyConnected, ModesOK
<1>2. generation + 1 # 0
  BY DEF CountersOK
<1>3. LinkInv'
  BY <1>1, <1>2 DEF LinkInv, SocketCarries, HandshakeIsAlone, LossIsRemembered,
       NoOrphanSocket, PollerOwnsSocket, HeartbeatOnlyConnected
<1>4. /\ \A r \in Requests : req'[r] # "pending"
      /\ \A h \in Hellos : hello'[h] # "sent"
  BY DEF WaitInv, PendingOnCurrentSocket
<1>5. HelloInv'
  BY <1>1, <1>4 DEF HelloInv, OwnerLeads, IdentityWrittenLast,
       IdentityIsCurrent, Owns
<1>6. WaitInv'
  BY <1>1, <1>2, <1>4 DEF WaitInv, PendingOnCurrentSocket, NoStrandedWaiter,
       ConnectingProgresses
<1>7. QED BY <1>3, <1>5, <1>6

\* finishConnect() releases every waiter with the socket it was waiting for.
LEMMA FinishKeepsInv ==
  ASSUME TypeOK, ClientInv, opened, hs' = "none",
         NEW confirmed \in Flows \cup {None},
         NEW snap \in Flows \cup {None}, NEW others,
         FinishConnect(confirmed, snap), ReleaseHellos(others),
         confirmed # None =>
           confirmed = attempt /\ snap = confirmed /\ revision = confirmed,
         \A h \in Hellos :
           hello[h] \in {"params", "sent"} /\ Owns(h) => h \in others
  PROVE  ClientInv'
<1> USE ClientAssumption DEF ClientAssumption, TypeOK, ClientInv,
     FinishConnect,
      StopPoller, linkVars
<1>1. socket # 0 /\ ~disposed /\ timer = "none"
  BY DEF LinkInv, SocketCarries, NoOrphanSocket
<1>2. LinkInv'
  BY <1>1 DEF LinkInv, SocketCarries, HandshakeIsAlone, LossIsRemembered,
       NoOrphanSocket, PollerOwnsSocket, HeartbeatOnlyConnected
<1>3. OwnerLeads'
  BY <1>1 DEF HelloInv, OwnerLeads, Owns, ReleaseHellos, HelloWaiters, CallsOK
<1>4. IdentityWrittenLast' /\ IdentityIsCurrent'
  BY DEF IdentityWrittenLast, IdentityIsCurrent
<1>5. PendingOnCurrentSocket'
  BY <1>1 DEF WaitInv, PendingOnCurrentSocket, ReleaseHellos, CallsOK
<1>6. NoStrandedWaiter'
  BY <1>1 DEF NoStrandedWaiter, ReleaseHellos, CallsOK
<1>7. ConnectingProgresses'
  BY <1>1 DEF ConnectingProgresses, ReleaseHellos, HelloWaiters, Owns, CallsOK
<1>8. QED BY <1>2, <1>3, <1>4, <1>5, <1>6, <1>7 DEF HelloInv, WaitInv

\* The invariant says nothing of probes, reverse requests and malformed lines.
LEMMA IdleKeepsInv ==
  ASSUME ClientInv,
         UNCHANGED <<stateVars, linkVars, helloVars, retryVars, startVars,
                     beat, callVars, sub>>
  PROVE  ClientInv'
<1> USE DEF stateVars, linkVars, helloVars, retryVars, startVars, callVars,
      ClientInv
<1>1. LinkInv'
  BY DEF LinkInv, SocketCarries, HandshakeIsAlone, LossIsRemembered,
       NoOrphanSocket,
       PollerOwnsSocket, HeartbeatOnlyConnected
<1>2. HelloInv'
  BY DEF HelloInv, OwnerLeads, IdentityWrittenLast, IdentityIsCurrent, Owns
<1>3. WaitInv'
  BY DEF WaitInv, PendingOnCurrentSocket, NoStrandedWaiter,
       ConnectingProgresses, Owns
<1>4. QED BY <1>1, <1>2, <1>3

\* A caller's hello that settles gives the renegotiation up if it is its owner.
LEMMA EndsKeepsInv ==
  ASSUME TypeOK, ClientInv, NEW h \in Hellos,
         hello[h] \in {"params", "sent"}, ~disposed,
         NEW confirmed \in Flows \cup {None}, NEW snap \in Flows \cup {None},
         HelloEnds(h, confirmed, snap), UNCHANGED hs,
         confirmed # None => confirmed = h /\ hello[h] = "sent",
         snap # snapshot => hello[h] = "sent" /\ revision = h,
         confirmed # None /\ revision = h => snap = h
  PROVE  ClientInv'
<1> USE DEF TypeOK, ClientInv
<1>1. CASE Owns(h)
  <2>1. renegotiating /\ opened /\ hs = "none"
    BY <1>1 DEF LinkInv, SocketCarries, HandshakeIsAlone, HelloInv, OwnerLeads,
         FlagsOK, ModesOK
  <2>2. confirmed # None =>
          confirmed = attempt /\ snap = confirmed /\ revision = confirmed
    BY <1>1 DEF HelloInv, OwnerLeads, Owns
  <2>3. \A g \in Hellos :
          hello[g] \in {"params", "sent"} /\ Owns(g) => g \in {h}
    BY <1>1 DEF Owns
  <2>4. FinishConnect(confirmed, snap) /\ ReleaseHellos({h})
    BY <1>1 DEF HelloEnds
  <2>5. QED BY <2>1, <2>2, <2>3, <2>4, FinishKeepsInv
<1>2. CASE ~Owns(h)
  <2> USE <1>2 DEF HelloEnds, linkVars, startVars, beatVars, probeVars
  <2>1. identity # None => snapshot' = snapshot
    BY DEF HelloInv, IdentityWrittenLast, IdentityIsCurrent, OwnerLeads,
         WaitInv, PendingOnCurrentSocket, Owns
  <2>2. LinkInv'
    BY DEF LinkInv, SocketCarries, HandshakeIsAlone, LossIsRemembered,
         NoOrphanSocket, PollerOwnsSocket, HeartbeatOnlyConnected
  <2>3. HelloInv'
    BY <2>1 DEF HelloInv, OwnerLeads, IdentityWrittenLast, IdentityIsCurrent,
         Owns, CallsOK
  <2>4. WaitInv'
    BY DEF WaitInv, PendingOnCurrentSocket, NoStrandedWaiter,
         ConnectingProgresses, Owns, CallsOK
  <2>5. QED BY <2>2, <2>3, <2>4
<1>3. QED BY <1>1, <1>2

\* The joint invariant of the client.
THEOREM ClientSafe == Spec => []ClientInv
<1>1. Init => ClientInv
  <2> USE ClientAssumption DEF ClientAssumption, Init, ClientInv
  <2>1. Init => LinkInv
    BY DEF LinkInv, SocketCarries, HandshakeIsAlone, LossIsRemembered,
         NoOrphanSocket,
           PollerOwnsSocket, HeartbeatOnlyConnected
  <2>2. Init => HelloInv
    BY DEF HelloInv, OwnerLeads, IdentityWrittenLast, IdentityIsCurrent, Owns
  <2>3. Init => WaitInv
    BY DEF WaitInv, PendingOnCurrentSocket, NoStrandedWaiter,
           ConnectingProgresses, Owns
  <2>4. QED BY <2>1, <2>2, <2>3
<1>2. TypeOK /\ ClientInv /\ [Next]_vars => ClientInv'
  <2> SUFFICES ASSUME TypeOK, ClientInv, [Next]_vars PROVE ClientInv'
    OBVIOUS
  <2> USE ClientAssumption DEF ClientAssumption, TypeOK, ClientInv, stateVars,
        linkVars, helloVars, retryVars, startVars, beatVars, probeVars, callVars,
        LinkInv, SocketCarries, HandshakeIsAlone, LossIsRemembered,
        NoOrphanSocket, PollerOwnsSocket, HeartbeatOnlyConnected, HelloInv,
        OwnerLeads, IdentityWrittenLast, IdentityIsCurrent, Owns, WaitInv,
        PendingOnCurrentSocket, NoStrandedWaiter, ConnectingProgresses
  <2>1. CASE Start
    <3>1. FrameOK
      BY <2>1 DEF Start, FrameOK, FlagsOK, CountersOK, CallsOK
    <3>2. /\ socket = 0 /\ ~disposed /\ delay \in Nat
          /\ startup \in {"none", "starting", "failed"}
      BY <2>1 DEF Start, Startable, CountersOK, ModesOK
    <3>3. CASE ConnectionFailure("drop", startup, delay)
      BY <3>1, <3>2, <3>3, FailureKeepsInv
    <3>4. CASE Connect /\ UNCHANGED <<disposed, hs, attempt, renegotiating,
                 snapshot, revision, greeted, first, delay, limited, recovery,
                 streak, startVars, beat, callVars, sub>>
      BY <3>2, <3>4, ConnectKeepsInv
    <3>5. QED BY <2>1, <3>3, <3>4 DEF Start
  <2>2. CASE TimerFires
    <3> DEFINE next == IF timer = "retry" THEN Min2(2 * wait, MaxDelay)
                                         ELSE delay
    <3>1. FrameOK /\ next \in Nat
      BY <2>2 DEF TimerFires, FrameOK, FlagsOK, CountersOK, CallsOK, Min2
    <3>2. socket = 0 /\ ~disposed /\ startup \in {"none", "starting", "failed"}
      BY <2>2 DEF TimerFires, ModesOK
    <3>3. CASE ConnectionFailure("drop", startup, next)
      BY <3>1, <3>2, <3>3, FailureKeepsInv
    <3>4. CASE Connect /\ delay' = next /\ UNCHANGED <<disposed, hs, attempt,
                 renegotiating, snapshot, revision, greeted, first, limited,
                 recovery, streak, startVars, beat, callVars, sub>>
      BY <3>2, <3>4, ConnectKeepsInv
    <3>5. QED BY <2>2, <3>3, <3>4 DEF TimerFires
  <2>3. CASE Open
    <3>1. LinkInv'
      BY <2>3 DEF Open, ModesOK
    <3>2. HelloInv'
      BY <2>3 DEF Open, CallsOK, FlowsOK, CountersOK
    <3>3. WaitInv'
      BY <2>3 DEF Open, ModesOK, CallsOK, CountersOK
    <3>4. QED BY <3>1, <3>2, <3>3
  <2>4. CASE DialFails
    <3>1. FrameOK
      BY <2>4 DEF DialFails, FrameOK, FlagsOK, CountersOK, CallsOK
    <3>2. socket # 0
      BY <2>4 DEF DialFails, CountersOK
    <3>3. QED BY <2>4, <3>1, <3>2, LossKeepsInv DEF DialFails
  <2>5. CASE SocketDrops
    <3>1. FrameOK
      BY <2>5 DEF SocketDrops, FrameOK, FlagsOK, CountersOK, CallsOK
    <3>2. socket # 0
      BY <2>5 DEF SocketDrops, CountersOK
    <3>3. QED BY <2>5, <3>1, <3>2, LossKeepsInv DEF SocketDrops
  <2>6. CASE MalformedFrame
    <3>1. PICK spent \in {0, malformed} :
             \/ /\ malformed' = spent
                /\ UNCHANGED <<stateVars, linkVars, helloVars, retryVars,
                               startVars, beat, callVars, sub>>
             \/ /\ WithinBudget(spent) /\ malformed' = spent + 1
                /\ LoseConnection("drop")
      BY <2>6 DEF MalformedFrame
    <3>2. FrameOK /\ socket # 0
      <4>1. malformed' \in 0..MaxMalformed
        BY <3>1 DEF WithinBudget, CountersOK
      <4>2. QED BY <2>6, <4>1 DEF MalformedFrame, FrameOK, FlagsOK, CountersOK,
                CallsOK
    <3>3. CASE LoseConnection("drop")
      BY <3>2, <3>3, LossKeepsInv
    <3>4. CASE UNCHANGED <<stateVars, linkVars, helloVars, retryVars,
                           startVars, beat, callVars, sub>>
      BY <3>4, IdleKeepsInv
    <3>5. QED BY <3>1, <3>3, <3>4
  <2>7. CASE Dispose
    <3>1. /\ \A r \in Requests : req'[r] \notin {"pending", "parked"}
          /\ \A h \in Hellos : hello'[h] \notin {"sent", "parked"}
      BY <2>7 DEF Dispose, FailCalls, Failed, CallsOK
    <3>2. LinkInv'
      BY <2>7 DEF Dispose, TeardownSocket, StopPoller
    <3>3. HelloInv'
      BY <2>7, <3>1 DEF Dispose, TeardownSocket
    <3>4. WaitInv'
      BY <2>7, <3>1 DEF Dispose, TeardownSocket, LoseSubscription
    <3>5. QED BY <3>2, <3>3, <3>4
  <2>8. CASE HandshakeParams
    <3>1. LinkInv'
      BY <2>8 DEF HandshakeParams, ModesOK
    <3>2. HelloInv'
      BY <2>8 DEF HandshakeParams, CallsOK, FlowsOK, CountersOK
    <3>3. WaitInv'
      BY <2>8 DEF HandshakeParams, ModesOK, CallsOK, CountersOK
    <3>4. QED BY <3>1, <3>2, <3>3
  <2>9. CASE HandshakeParamsReject
    <3>1. opened /\ attempt = Handshake
      BY <2>9 DEF HandshakeParamsReject
    <3>2. QED BY <2>9, <3>1, FinishKeepsInv DEF HandshakeParamsReject
  <2>10. ASSUME NEW kind \in {"ok", "anonymous", "error"}, HandshakeReply(kind)
        PROVE  ClientInv'
    <3>1. opened /\ attempt = Handshake /\ revision = Handshake
      BY <2>10 DEF HandshakeReply
    <3>2. QED BY <2>10, <3>1, FinishKeepsInv DEF HandshakeReply, Flows
  <2>11. CASE HandshakeNotReady
    <3>1. LinkInv'
      BY <2>11 DEF HandshakeNotReady, EnterStartup, RefuseWaiters, FailCalls,
           Failed, ModesOK
    <3>2. HelloInv'
      BY <2>11 DEF HandshakeNotReady, EnterStartup, RefuseWaiters, FailCalls,
           Failed, CallsOK, FlowsOK, CountersOK
    <3>3. WaitInv'
      BY <2>11 DEF HandshakeNotReady, EnterStartup, RefuseWaiters, FailCalls,
           Failed, ModesOK, CallsOK, CountersOK
    <3>4. QED BY <3>1, <3>2, <3>3
  <2>12. CASE HandshakeStartupFailed
    <3>1. FrameOK
      BY <2>12 DEF HandshakeStartupFailed, FrameOK, FlagsOK, CountersOK,
           CallsOK
    <3>2. ~disposed /\ delay \in Nat
      BY <2>12 DEF HandshakeStartupFailed, CountersOK
    <3>3. QED BY <2>12, <3>1, <3>2, FailureKeepsInv DEF HandshakeStartupFailed,
              FailStartup
  <2>13. CASE HandshakeTimeout
    <3>1. FrameOK
      BY <2>13 DEF HandshakeTimeout, FrameOK, FlagsOK, CountersOK, CallsOK
    <3>2. socket # 0
      BY <2>13 DEF HandshakeTimeout, CountersOK
    <3>3. QED BY <2>13, <3>1, <3>2, LossKeepsInv DEF HandshakeTimeout
  <2>14. CASE PollFires
    <3>1. LinkInv'
      BY <2>14 DEF PollFires, ModesOK
    <3>2. HelloInv'
      BY <2>14 DEF PollFires, CallsOK, FlowsOK, CountersOK
    <3>3. WaitInv'
      BY <2>14 DEF PollFires, ModesOK, CallsOK, CountersOK
    <3>4. QED BY <3>1, <3>2, <3>3
  <2>15. CASE PollStarting
    <3>1. LinkInv'
      BY <2>15 DEF PollStarting, ModesOK
    <3>2. HelloInv'
      BY <2>15 DEF PollStarting, CallsOK, FlowsOK, CountersOK
    <3>3. WaitInv'
      BY <2>15 DEF PollStarting, ModesOK, CallsOK, CountersOK
    <3>4. QED BY <3>1, <3>2, <3>3
  <2>16. ASSUME NEW ready \in BOOLEAN, PollHandsOff(ready) PROVE ClientInv'
    <3>1. FrameOK
      BY <2>16 DEF PollHandsOff, FrameOK, FlagsOK, CountersOK, CallsOK
    <3>2. bootstrap
      BY <2>16 DEF PollHandsOff, CountersOK
    <3>3. QED BY <2>16, <3>1, <3>2, HandoffKeepsInv DEF PollHandsOff
  <2>17. CASE PollFailed
    <3>1. FrameOK
      BY <2>17 DEF PollFailed, FrameOK, FlagsOK, CountersOK, CallsOK
    <3>2. ~disposed /\ delay \in Nat
      BY <2>17 DEF PollFailed, CountersOK
    <3>3. QED BY <2>17, <3>1, <3>2, FailureKeepsInv DEF PollFailed, FailStartup
  <2>18. CASE Subscribe
    <3>1. LinkInv'
      BY <2>18 DEF Subscribe, InCooldown, Startable, ModesOK
    <3>2. HelloInv'
      BY <2>18 DEF Subscribe, InCooldown, Startable, CallsOK, FlowsOK,
           CountersOK
    <3>3. WaitInv'
      BY <2>18 DEF Subscribe, InCooldown, Startable, ModesOK, CallsOK,
           CountersOK
    <3>4. QED BY <3>1, <3>2, <3>3
  <2>19. CASE BeatTick
    BY <2>19, IdleKeepsInv DEF BeatTick
  <2>20. ASSUME NEW r \in Requests, RequestSend(r) PROVE ClientInv'
    <3>1. LinkInv'
      BY <2>20 DEF RequestSend, MaySend, ModesOK
    <3>2. HelloInv'
      BY <2>20 DEF RequestSend, MaySend, CallsOK, FlowsOK, CountersOK
    <3>3. WaitInv'
      BY <2>20 DEF RequestSend, MaySend, ModesOK, CallsOK, CountersOK
    <3>4. QED BY <3>1, <3>2, <3>3
  <2>21. ASSUME NEW r \in Requests, RequestPark(r) PROVE ClientInv'
    <3>1. FrameOK
      BY <2>21 DEF RequestPark, FrameOK, FlagsOK, CountersOK, CallsOK
    <3>2. /\ ~disposed /\ delay \in Nat
          /\ startup \in {"none", "starting", "failed"}
      BY <2>21 DEF RequestPark, CountersOK, ModesOK
    <3>3. CASE ~Startable /\ req' = [req EXCEPT ![r] = "parked"]
               /\ UNCHANGED <<stateVars, linkVars, helloVars, retryVars,
                              startVars, beat, sentOn, hello, heldOn, begun, sub>>
      <4>1. LinkInv'
        BY <3>3
      <4>2. HelloInv'
        BY <3>3 DEF CallsOK
      <4>3. WaitInv'
        BY <2>21, <3>3 DEF RequestPark, Startable, MaySend, Joins, ModesOK,
             CallsOK
      <4>4. QED BY <4>1, <4>2, <4>3
    <3>4. CASE /\ Startable /\ Connect /\ req' = [req EXCEPT ![r] = "parked"]
               /\ UNCHANGED <<disposed, hs, attempt, renegotiating,
                 snapshot, revision, greeted, first, delay, limited, recovery,
                 streak, startVars, beat, sentOn, hello, heldOn, begun, sub>>
      <4>1. socket = 0
        BY <3>4 DEF Startable
      <4>2. /\ \A r1 \in Requests : req'[r1] = "pending" => req[r1] = "pending"
            /\ \A h1 \in Hellos : hello'[h1] = "sent" => hello[h1] = "sent"
        BY <3>4 DEF CallsOK
      <4>3. QED BY <3>2, <3>4, <4>1, <4>2, ConnectKeepsInv
    <3>5. CASE /\ Startable /\ DropTo("drop", startup, delay)
               /\ req' = [Failed(req, {"pending", "parked"}) EXCEPT ![r] = "parked"]
               /\ hello' = Failed(hello, {"sent", "parked"})
               /\ UNCHANGED <<sentOn, heldOn, begun>>
      <4>1. CallsOK'
        BY <2>21, <3>5 DEF RequestPark, CallsOK, Failed
      <4>2. \A r1 \in Requests : req'[r1] # "pending"
        BY <3>5 DEF CallsOK, Failed
      <4>3. \A h1 \in Hellos : hello'[h1] # "sent"
        BY <3>5 DEF CallsOK, Failed
      <4>4. timer' # "none"
        BY <3>5 DEF DropTo
      <4>5. QED BY <3>1, <3>2, <3>5, <4>1, <4>2, <4>3, <4>4, DropKeepsInv
    <3>6. QED BY <2>21, <3>3, <3>4, <3>5 DEF RequestPark
  <2>22. ASSUME NEW r \in Requests, RequestSettles(r) PROVE ClientInv'
    <3>1. LinkInv'
      BY <2>22 DEF RequestSettles, ModesOK
    <3>2. HelloInv'
      BY <2>22 DEF RequestSettles, CallsOK, FlowsOK, CountersOK
    <3>3. WaitInv'
      BY <2>22 DEF RequestSettles, ModesOK, CallsOK, CountersOK
    <3>4. QED BY <3>1, <3>2, <3>3
  <2>23. ASSUME NEW h \in Hellos, HelloCall(h) PROVE ClientInv'
    <3>1. LinkInv'
      BY <2>23 DEF HelloCall, BeginRenegotiation, Demote, ModesOK
    <3>2. HelloInv'
      BY <2>23 DEF HelloCall, BeginRenegotiation, Demote, CallsOK, FlowsOK,
           CountersOK
    <3>3. WaitInv'
      BY <2>23 DEF HelloCall, BeginRenegotiation, Demote, ModesOK, CallsOK,
           CountersOK
    <3>4. QED BY <3>1, <3>2, <3>3
  <2>24. ASSUME NEW h \in Hellos, HelloSend(h) PROVE ClientInv'
    <3>1. LinkInv'
      BY <2>24 DEF HelloSend, Joins, BeginRenegotiation, Demote, ModesOK
    <3>2. HelloInv'
      BY <2>24 DEF HelloSend, Joins, BeginRenegotiation, Demote, CallsOK,
           FlowsOK, CountersOK
    <3>3. WaitInv'
      BY <2>24 DEF HelloSend, Joins, BeginRenegotiation, Demote, ModesOK,
           CallsOK, CountersOK
    <3>4. QED BY <3>1, <3>2, <3>3
  <2>25. ASSUME NEW h \in Hellos, HelloPark(h) PROVE ClientInv'
    <3>1. FrameOK
      BY <2>25 DEF HelloPark, FrameOK, FlagsOK, CountersOK, CallsOK
    <3>2. /\ ~disposed /\ delay \in Nat
          /\ startup \in {"none", "starting", "failed"}
      BY <2>25 DEF HelloPark, CountersOK, ModesOK
    <3>3. CASE ~Startable /\ hello' = [hello EXCEPT ![h] = "parked"]
               /\ UNCHANGED <<stateVars, linkVars, helloVars, retryVars,
                              startVars, beat, req, sentOn, heldOn, begun, sub>>
      <4>1. LinkInv'
        BY <3>3
      <4>2. HelloInv'
        BY <3>3 DEF CallsOK
      <4>3. WaitInv'
        BY <2>25, <3>3 DEF HelloPark, Startable, MaySend, Joins, ModesOK,
             CallsOK
      <4>4. QED BY <4>1, <4>2, <4>3
    <3>4. CASE /\ Startable /\ Connect /\ hello' = [hello EXCEPT ![h] = "parked"]
               /\ UNCHANGED <<disposed, hs, attempt, renegotiating,
                 snapshot, revision, greeted, first, delay, limited, recovery,
                 streak, startVars, beat, req, sentOn, heldOn, begun, sub>>
      <4>1. socket = 0
        BY <3>4 DEF Startable
      <4>2. /\ \A r1 \in Requests : req'[r1] = "pending" => req[r1] = "pending"
            /\ \A h1 \in Hellos : hello'[h1] = "sent" => hello[h1] = "sent"
        BY <3>4 DEF CallsOK
      <4>3. QED BY <3>2, <3>4, <4>1, <4>2, ConnectKeepsInv
    <3>5. CASE /\ Startable /\ DropTo("drop", startup, delay)
               /\ req' = Failed(req, {"pending", "parked"})
               /\ hello' = [Failed(hello, {"sent", "parked"}) EXCEPT ![h] = "parked"]
               /\ UNCHANGED <<sentOn, heldOn, begun>>
      <4>1. CallsOK'
        BY <2>25, <3>5 DEF HelloPark, CallsOK, Failed
      <4>2. \A r1 \in Requests : req'[r1] # "pending"
        BY <3>5 DEF CallsOK, Failed
      <4>3. \A h1 \in Hellos : hello'[h1] # "sent"
        BY <3>5 DEF CallsOK, Failed
      <4>4. timer' # "none"
        BY <3>5 DEF DropTo
      <4>5. QED BY <3>1, <3>2, <3>5, <4>1, <4>2, <4>3, <4>4, DropKeepsInv
    <3>6. QED BY <2>25, <3>3, <3>4, <3>5 DEF HelloPark
  <2>26. ASSUME NEW h \in Hellos, HelloRefused(h) PROVE ClientInv'
    <3>1. LinkInv'
      BY <2>26 DEF HelloRefused, InCooldown, Joins, ModesOK
    <3>2. HelloInv'
      BY <2>26 DEF HelloRefused, InCooldown, Joins, CallsOK, FlowsOK,
           CountersOK
    <3>3. WaitInv'
      BY <2>26 DEF HelloRefused, InCooldown, Joins, ModesOK, CallsOK,
           CountersOK
    <3>4. QED BY <3>1, <3>2, <3>3
  <2>27. ASSUME NEW h \in Hellos, HelloParamsReject(h) PROVE ClientInv'
    BY <2>27, EndsKeepsInv DEF HelloParamsReject, FlowsOK
  <2>28. ASSUME NEW h \in Hellos, NEW kind \in {"ok", "anonymous", "error"},
               HelloReply(h, kind)
        PROVE  ClientInv'
    <3> DEFINE confirmed == IF kind = "ok" THEN h ELSE None
               snap == IF kind # "error" /\ revision = h THEN h ELSE snapshot
    <3>1. hello[h] = "sent" /\ HelloEnds(h, confirmed, snap) /\ UNCHANGED hs
      BY <2>28 DEF HelloReply
    <3>2. ~disposed
      BY <3>1
    <3>3. confirmed \in Flows \cup {None} /\ snap \in Flows \cup {None}
      BY DEF FlowsOK, Flows
    <3>4. /\ confirmed # None => confirmed = h
          /\ snap # snapshot => revision = h
          /\ confirmed # None /\ revision = h => snap = h
      OBVIOUS
    <3> HIDE DEF confirmed, snap
    <3>5. QED BY <3>1, <3>2, <3>3, <3>4, EndsKeepsInv
  <2>29. ASSUME NEW h \in Hellos, HelloTimeout(h) PROVE ClientInv'
    <3>1. CASE Owns(h)
      <4>1. FrameOK /\ socket # 0
        BY <2>29, <3>1 DEF HelloTimeout, FrameOK, FlagsOK, CountersOK, CallsOK
      <4>2. QED BY <2>29, <3>1, <4>1, LossKeepsInv DEF HelloTimeout
    <3>2. CASE ~Owns(h)
      <4>1. /\ hello[h] = "sent" /\ HelloEnds(h, None, snapshot)
            /\ UNCHANGED hs
        BY <2>29, <3>2 DEF HelloTimeout
      <4>2. ~disposed /\ snapshot \in Flows \cup {None}
        BY <4>1 DEF FlowsOK
      <4>3. QED BY <4>1, <4>2, EndsKeepsInv
    <3>3. QED BY <3>1, <3>2
  <2>30. ASSUME NEW s \in Sockets, ProbeOk(s) PROVE ClientInv'
    BY <2>30, IdleKeepsInv DEF ProbeOk
  <2>31. ASSUME NEW s \in Sockets, ProbeFail(s) PROVE ClientInv'
    <3>1. FrameOK
      <4>1. probing' \in BOOLEAN
        BY <2>31 DEF ProbeFail, FlagsOK
      <4>2. QED BY <2>31, <4>1 DEF ProbeFail, FrameOK, CountersOK, CallsOK
    <3>2. CASE socket # 0 /\ LoseConnection("drop")
      BY <3>1, <3>2, LossKeepsInv
    <3>3. CASE UNCHANGED <<stateVars, linkVars, helloVars, retryVars, startVars,
                           beat, callVars, sub>>
      BY <3>3, IdleKeepsInv
    <3>4. QED BY <2>31, <3>2, <3>3 DEF ProbeFail, Concerns, Sockets
  <2>32. ASSUME NEW q \in Reverse, RevArrives(q) PROVE ClientInv'
    BY <2>32, IdleKeepsInv DEF RevArrives
  <2>33. ASSUME NEW q \in Reverse, RevAnswers(q) PROVE ClientInv'
    <3>1. LinkInv'
      BY <2>33 DEF RevAnswers, ModesOK
    <3>2. HelloInv'
      BY <2>33 DEF RevAnswers, CallsOK, FlowsOK, CountersOK
    <3>3. WaitInv'
      BY <2>33 DEF RevAnswers, ModesOK, CallsOK, CountersOK
    <3>4. QED BY <3>1, <3>2, <3>3
  <2>34. CASE UNCHANGED vars
    BY <2>34, IdleKeepsInv DEF vars
  <2>35. QED BY <2>1, <2>2, <2>3, <2>4, <2>5, <2>6, <2>7, <2>8, <2>9, <2>10,
          <2>11, <2>12, <2>13, <2>14, <2>15, <2>16, <2>17, <2>18, <2>19,
          <2>20, <2>21, <2>22, <2>23, <2>24, <2>25, <2>26, <2>27, <2>28,
          <2>29, <2>30, <2>31, <2>32, <2>33, <2>34 DEF Next, DialStep,
          HandshakeStep, HandshakeAnswered, PollAnswered, RequestStep,
          HelloStep, HelloResolves, HelloAnswered, BeatStep, ReverseStep
<1>3. QED BY <1>1, <1>2, TypeCorrect, PTL DEF Spec

-----------------------------------------------------------------------------
(* The properties.  Most follow from ClientInv; the ones about the session *)
(* (the replayed subscription, the answered handshake, the connection-limit *)
(* cooldown, the retired identity) need SessionInv, proved here on top.    *)

\* A connected client, or one that renegotiates a connection, has replayed the
\* subscriptions that were lost, and is past the startup wait.
ReplayDone ==
  status = "connected" \/ renegotiating => sub # "lost" /\ startup # "starting"

\* With a provider that cannot reject, connected means answered.
AnsweredUnlessRejected == ~ParamsMayFail => AnsweredBeforeConnected

\* The retry after a refusal for the connection cap waits for as long as the
\* daemon asked.
CooldownWaits == limited /\ timer = "retry" => wait >= LimitDelay

\* A connected client is not renegotiating.
Undisputed == status = "connected" => ~renegotiating

SessionInv ==
  ReplayDone /\ AnsweredUnlessRejected /\ CooldownWaits /\ Undisputed

\* A failure leaves no session behind, and a cap refusal waits long enough.
LEMMA DropKeepsSession ==
  ASSUME NEW kind, NEW st, NEW d \in Nat, DropTo(kind, st, d)
  PROVE  SessionInv'
<1> USE DEF DropTo, TeardownSocket
<1>1. ReplayDone' /\ AnsweredUnlessRejected' /\ Undisputed'
  BY DEF ReplayDone, AnsweredUnlessRejected, AnsweredBeforeConnected,
       Undisputed
<1>2. CooldownWaits'
  <2>1. kind = "limit" => wait' >= LimitDelay \/ timer' # "retry"
    BY ClientAssumption DEF ClientAssumption, RetryDelay, Max2
  <2>2. kind # "limit" => ~limited'
    OBVIOUS
  <2>3. QED BY <2>1, <2>2 DEF CooldownWaits
<1>3. QED BY <1>1, <1>2 DEF SessionInv

\* So does the handoff, which arms no retry.
LEMMA HandoffKeepsSession ==
  ASSUME TypeOK, ClientInv, bootstrap, NEW ready \in BOOLEAN,
         StartupHandoff(ready)
  PROVE  SessionInv'
<1>1. status = "connecting"
  BY DEF ClientInv, LinkInv, PollerOwnsSocket, SocketCarries
<1>2. QED BY <1>1 DEF StartupHandoff, TeardownSocket, SessionInv,
            ReplayDone, AnsweredUnlessRejected, AnsweredBeforeConnected,
            CooldownWaits, Undisputed

\* Losing the socket is one or the other.
LEMMA LossKeepsSession ==
  ASSUME TypeOK, ClientInv, NEW kind, LoseConnection(kind)
  PROVE  SessionInv'
<1>1. delay \in Nat
  BY DEF TypeOK, CountersOK
<1>2. CASE bootstrap
  BY <1>2, HandoffKeepsSession DEF LoseConnection
<1>3. CASE ~bootstrap
  BY <1>1, <1>3, DropKeepsSession DEF LoseConnection, ConnectionFailure
<1>4. QED BY <1>2, <1>3

\* A dial starts from a client without a session.
LEMMA ConnectKeepsSession ==
  ASSUME TypeOK, ClientInv, socket = 0, Connect, UNCHANGED renegotiating
  PROVE  SessionInv'
<1>1. ~renegotiating
  BY DEF TypeOK, FlagsOK, ClientInv, LinkInv, SocketCarries
<1>2. QED BY <1>1 DEF Connect, SessionInv, ReplayDone,
            AnsweredUnlessRejected, AnsweredBeforeConnected,
            CooldownWaits, Undisputed

\* Reporting the connection replays the lost subscription and ends the
\* cooldown.
LEMMA FinishKeepsSession ==
  ASSUME TypeOK, ClientInv, SessionInv, opened,
         NEW confirmed, NEW snap, FinishConnect(confirmed, snap),
         ~ParamsMayFail => greeted'
  PROVE  SessionInv'
<1>1. ~disposed /\ sub \in {"idle", "parked", "lost", "live"}
  BY DEF TypeOK, ModesOK, ClientInv, LinkInv, SocketCarries
<1>2. sub = "lost" => recovery
  BY <1>1 DEF ClientInv, LinkInv, LossIsRemembered
<1>3. ReplayDone'
  BY <1>1, <1>2 DEF FinishConnect, ReplayDone
<1>4. AnsweredUnlessRejected' /\ CooldownWaits'
  BY DEF FinishConnect, AnsweredUnlessRejected, AnsweredBeforeConnected,
       CooldownWaits
<1>5. Undisputed'
  BY DEF FinishConnect, Undisputed
<1>6. QED BY <1>3, <1>4, <1>5 DEF SessionInv

\* A step that leaves the session's variables alone.
LEMMA IdleKeepsSession ==
  ASSUME SessionInv,
         UNCHANGED <<status, renegotiating, sub, startup, greeted, identity,
                     limited, timer, wait>>
  PROVE  SessionInv'
BY DEF SessionInv, ReplayDone, AnsweredUnlessRejected,
     AnsweredBeforeConnected, CooldownWaits, Undisputed

\* A renegotiation begins: only a connected or renegotiating client may.
LEMMA BeginKeepsSession ==
  ASSUME SessionInv, status = "connected" \/ renegotiating, Demote,
         UNCHANGED <<sub, startup, limited, timer, wait>>
  PROVE  SessionInv'
BY DEF Demote, SessionInv, ReplayDone, AnsweredUnlessRejected,
     AnsweredBeforeConnected, CooldownWaits, Undisputed

\* A hello that settles, whether or not it owns the renegotiation.
LEMMA EndsKeepsSession ==
  ASSUME TypeOK, ClientInv, SessionInv, NEW h \in Hellos,
         hello[h] \in {"params", "sent"}, NEW confirmed, NEW snap,
         HelloEnds(h, confirmed, snap),
         greeted => greeted',
         Owns(h) /\ ~ParamsMayFail => greeted'
  PROVE  SessionInv'
<1>1. CASE Owns(h)
  <2>1. opened
    BY <1>1 DEF Owns, ClientInv, LinkInv, SocketCarries, HelloInv, OwnerLeads
  <2>2. QED BY <1>1, <2>1, FinishKeepsSession DEF HelloEnds
<1>2. CASE ~Owns(h)
  BY <1>2 DEF HelloEnds, startVars, SessionInv, ReplayDone,
       AnsweredUnlessRejected, AnsweredBeforeConnected, CooldownWaits,
       Undisputed
<1>3. QED BY <1>1, <1>2

\* Every step keeps the session's promises, given the client's own.
LEMMA SessionSteps ==
  ASSUME TypeOK, ClientInv, SessionInv, [Next]_vars
  PROVE  SessionInv'
<1> USE DEF TypeOK, ClientInv, stateVars, linkVars, helloVars, retryVars,
      startVars, beatVars, probeVars, callVars
<1>1. delay \in Nat /\ wait \in Nat
  BY DEF CountersOK
<1>2. CASE Start
  <2>1. CASE Connect /\ UNCHANGED <<disposed, hs, attempt, renegotiating,
               snapshot, revision, greeted, first, delay, limited, recovery,
               streak, startVars, beat, callVars, sub>>
    BY <1>2, <2>1, ConnectKeepsSession DEF Start, Startable
  <2>2. CASE ConnectionFailure("drop", startup, delay)
    BY <1>1, <2>2, DropKeepsSession DEF ConnectionFailure
  <2>3. QED BY <1>2, <2>1, <2>2 DEF Start
<1>3. CASE TimerFires
  <2> DEFINE next == IF timer = "retry" THEN Min2(2 * wait, MaxDelay)
                                        ELSE delay
  <2>1. next \in Nat /\ socket = 0
    BY <1>1, <1>3, ClientAssumption DEF ClientAssumption, Min2, TimerFires,
         LinkInv, NoOrphanSocket
  <2>2. CASE Connect /\ UNCHANGED renegotiating
    BY <2>1, <2>2, ConnectKeepsSession
  <2>3. CASE ConnectionFailure("drop", startup, next)
    BY <2>1, <2>3, DropKeepsSession DEF ConnectionFailure
  <2>4. QED BY <1>3, <2>2, <2>3 DEF TimerFires
<1>4. CASE Open
  BY <1>4 DEF Open, LinkInv, SocketCarries, SessionInv,
       ReplayDone,
       AnsweredUnlessRejected, AnsweredBeforeConnected, CooldownWaits,
       Undisputed
<1>5. CASE DialFails \/ SocketDrops
  BY <1>5, LossKeepsSession DEF DialFails, SocketDrops
<1>6. CASE MalformedFrame
  BY <1>6, LossKeepsSession, IdleKeepsSession DEF MalformedFrame
<1>7. CASE Dispose
  BY <1>7 DEF Dispose, TeardownSocket, SessionInv, ReplayDone,
       AnsweredUnlessRejected, AnsweredBeforeConnected, CooldownWaits,
       Undisputed
<1>8. CASE HandshakeParams
  BY <1>8, IdleKeepsSession DEF HandshakeParams
<1>9. CASE HandshakeParamsReject
  BY <1>9, FinishKeepsSession DEF HandshakeParamsReject, LinkInv, SocketCarries
<1>10. ASSUME NEW kind \in {"ok", "anonymous", "error"}, HandshakeReply(kind)
       PROVE  SessionInv'
  <2>1. opened
    BY <1>10 DEF HandshakeReply, LinkInv, SocketCarries
  <2>2. QED BY <1>10, <2>1, FinishKeepsSession DEF HandshakeReply
<1>11. CASE HandshakeNotReady
  BY <1>11 DEF HandshakeNotReady, EnterStartup, LinkInv, HandshakeIsAlone,
       SessionInv, ReplayDone, AnsweredUnlessRejected,
       AnsweredBeforeConnected, CooldownWaits, Undisputed
<1>12. CASE HandshakeStartupFailed \/ PollFailed
  BY <1>1, <1>12, DropKeepsSession DEF HandshakeStartupFailed, PollFailed,
       FailStartup, ConnectionFailure
<1>13. CASE HandshakeTimeout
  BY <1>13, LossKeepsSession DEF HandshakeTimeout
<1>14. CASE PollFires \/ PollStarting
  BY <1>14, IdleKeepsSession DEF PollFires, PollStarting
<1>15. ASSUME NEW ready \in BOOLEAN, PollHandsOff(ready) PROVE SessionInv'
  <2>1. bootstrap
    BY <1>15 DEF PollHandsOff, LinkInv, PollerOwnsSocket
  <2>2. QED BY <1>15, <2>1, HandoffKeepsSession DEF PollHandsOff
<1>16. CASE Subscribe
  <2>1. InCooldown => ~opened
    BY DEF InCooldown, LinkInv, NoOrphanSocket, SocketCarries
  <2>2. sub' = "lost" => status # "connected" /\ ~renegotiating
    BY <1>16, <2>1 DEF Subscribe, SessionInv, ReplayDone, LinkInv,
         SocketCarries
  <2>3. QED BY <1>16, <2>2 DEF Subscribe, SessionInv, ReplayDone,
              AnsweredUnlessRejected, AnsweredBeforeConnected,
              CooldownWaits, Undisputed
<1>17. CASE BeatTick
  BY <1>17, IdleKeepsSession DEF BeatTick
<1>18. ASSUME NEW s \in Sockets, ProbeOk(s) \/ ProbeFail(s) PROVE SessionInv'
  BY <1>18, LossKeepsSession, IdleKeepsSession DEF ProbeOk, ProbeFail
<1>19. ASSUME NEW r \in Requests, RequestSend(r) \/ RequestSettles(r)
       PROVE  SessionInv'
  BY <1>19, IdleKeepsSession DEF RequestSend, RequestSettles
<1>20. ASSUME NEW r \in Requests, RequestPark(r) PROVE SessionInv'
  <2>1. CASE ~Startable
    BY <1>20, <2>1, IdleKeepsSession DEF RequestPark
  <2>2. CASE Startable /\ Connect /\ UNCHANGED renegotiating
    BY <2>2, ConnectKeepsSession DEF Startable
  <2>3. CASE DropTo("drop", startup, delay)
    BY <1>1, <2>3, DropKeepsSession
  <2>4. QED BY <1>20, <2>1, <2>2, <2>3 DEF RequestPark
<1>21. ASSUME NEW h \in Hellos, HelloCall(h) PROVE SessionInv'
  <2>1. CASE (status = "connected" \/ renegotiating) /\ BeginRenegotiation(h)
    BY <1>21, <2>1, BeginKeepsSession DEF HelloCall, BeginRenegotiation
  <2>2. CASE UNCHANGED <<status, renegotiating, identity>>
    BY <1>21, <2>2, IdleKeepsSession DEF HelloCall
  <2>3. QED BY <1>21, <2>1, <2>2 DEF HelloCall
<1>22. ASSUME NEW h \in Hellos, HelloSend(h) PROVE SessionInv'
  BY <1>22, BeginKeepsSession DEF HelloSend, Joins, BeginRenegotiation
<1>23. ASSUME NEW h \in Hellos, HelloPark(h) PROVE SessionInv'
  <2>1. CASE ~Startable
    BY <1>23, <2>1, IdleKeepsSession DEF HelloPark
  <2>2. CASE Startable /\ Connect /\ UNCHANGED renegotiating
    BY <2>2, ConnectKeepsSession DEF Startable
  <2>3. CASE DropTo("drop", startup, delay)
    BY <1>1, <2>3, DropKeepsSession
  <2>4. QED BY <1>23, <2>1, <2>2, <2>3 DEF HelloPark
<1>24. ASSUME NEW h \in Hellos, HelloRefused(h) PROVE SessionInv'
  BY <1>24, IdleKeepsSession DEF HelloRefused
<1>25. ASSUME NEW h \in Hellos, HelloParamsReject(h) PROVE SessionInv'
  BY <1>25, EndsKeepsSession DEF HelloParamsReject
<1>26. ASSUME NEW h \in Hellos, NEW kind \in {"ok", "anonymous", "error"},
              HelloReply(h, kind)
       PROVE  SessionInv'
  BY <1>26, EndsKeepsSession DEF HelloReply
<1>27. ASSUME NEW h \in Hellos, HelloTimeout(h) PROVE SessionInv'
  <2>1. CASE Owns(h)
    BY <1>27, <2>1, LossKeepsSession DEF HelloTimeout
  <2>2. CASE ~Owns(h)
    BY <1>27, <2>2, EndsKeepsSession DEF HelloTimeout
  <2>3. QED BY <2>1, <2>2
<1>28. ASSUME NEW q \in Reverse, RevArrives(q) \/ RevAnswers(q)
       PROVE  SessionInv'
  BY <1>28, IdleKeepsSession DEF RevArrives, RevAnswers
<1>29. CASE UNCHANGED vars
  BY <1>29, IdleKeepsSession DEF vars
<1>30. QED BY <1>2, <1>3, <1>4, <1>5, <1>6, <1>7, <1>8, <1>9, <1>10, <1>11,
        <1>12, <1>13, <1>14, <1>15, <1>16, <1>17, <1>18, <1>19, <1>20, <1>21,
        <1>22, <1>23, <1>24, <1>25, <1>26, <1>27, <1>28, <1>29 DEF Next,
        DialStep, HandshakeStep, HandshakeAnswered, PollAnswered, RequestStep,
        HelloStep, HelloResolves, HelloAnswered, BeatStep, ReverseStep

\* The invariant of the session.
LEMMA SessionSafe == Spec => []SessionInv
<1>1. Init => SessionInv
  BY DEF Init, SessionInv, ReplayDone, AnsweredUnlessRejected,
       AnsweredBeforeConnected, CooldownWaits, Undisputed
<1>2. TypeOK /\ ClientInv /\ SessionInv /\ [Next]_vars => SessionInv'
  BY SessionSteps
<1>3. QED BY <1>1, <1>2, TypeCorrect, ClientSafe, PTL DEF Spec

-----------------------------------------------------------------------------
\* No caller waits for a reply that cannot come: the socket a call was written
\* to is the one the client still reads.
THEOREM RepliesCanCome == Spec => []PendingOnCurrentSocket
<1>1. ClientInv => PendingOnCurrentSocket
  BY DEF ClientInv, WaitInv
<1>2. QED BY <1>1, ClientSafe, PTL

\* No caller is parked on a client that will not connect.
THEOREM WaitersCanGo == Spec => []NoStrandedWaiter
<1>1. ClientInv => NoStrandedWaiter
  BY DEF ClientInv, WaitInv
<1>2. QED BY <1>1, ClientSafe, PTL

\* "connecting" always has something under way that decides it.
THEOREM ConnectingIsDecided == Spec => []ConnectingProgresses
<1>1. ClientInv => ConnectingProgresses
  BY DEF ClientInv, WaitInv
<1>2. QED BY <1>1, ClientSafe, PTL

\* The client never leaks a socket, and never arms a retry beside one.
THEOREM OneSocketAtATime == Spec => []NoOrphanSocket
<1>1. ClientInv => NoOrphanSocket
  BY DEF ClientInv, LinkInv
<1>2. QED BY <1>1, ClientSafe, PTL

\* The acknowledged identity is the one of the last hello of this socket.
THEOREM IdentityOfTheLastHello == Spec => []IdentityIsCurrent
<1>1. ClientInv => IdentityIsCurrent
  BY DEF ClientInv, HelloInv
<1>2. QED BY <1>1, ClientSafe, PTL

\* A starting daemon is polled, awaited or dialled: one of the three, always,
\* and never two of them.
THEOREM StartupAttended == Spec => []StartupIsAttended
<1>1. TypeOK /\ ClientInv /\ SessionInv => StartupIsAttended
  <2> SUFFICES ASSUME TypeOK, ClientInv, SessionInv PROVE StartupIsAttended
    OBVIOUS
  <2> USE DEF TypeOK, ModesOK, FlagsOK, ClientInv, LinkInv, SocketCarries,
        NoOrphanSocket, PollerOwnsSocket
  <2>1. ASSUME startup = "starting", ~disposed
        PROVE  /\ status = "connecting"
               /\ \/ poll # "off" /\ timer = "none" /\ opened /\ hs = "none"
                  \/ poll = "off" /\ timer # "none" /\ socket = 0
                  \/ /\ poll = "off" /\ timer = "none" /\ socket # 0
                     /\ ~opened \/ hs # "none"
    <3>1. status = "connecting"
      BY <2>1
    <3>2. ~renegotiating
      BY <2>1 DEF SessionInv, ReplayDone
    <3>3. \A h \in Hellos : ~(Owns(h) /\ hello[h] \in {"params", "sent"})
      BY <3>2 DEF HelloInv, OwnerLeads
    <3>4. timer # "none" \/ (socket # 0 /\ (~opened \/ hs # "none" \/ poll # "off"))
      BY <3>1, <3>3 DEF WaitInv, ConnectingProgresses
    <3>5. poll # "off" => opened /\ hs = "none" /\ timer = "none"
      OBVIOUS
    <3>6. timer # "none" => socket = 0
      OBVIOUS
    <3>7. QED BY <3>1, <3>4, <3>5, <3>6
  <2>2. (bootstrap <=> poll # "off") /\ (bootstrap => startup = "starting")
    OBVIOUS
  <2>3. QED BY <2>1, <2>2 DEF StartupIsAttended
<1>2. QED BY <1>1, TypeCorrect, ClientSafe, SessionSafe, PTL

\* No heartbeat while the identity is in question or after dispose().
THEOREM HeartbeatStopsInTime == Spec => []HeartbeatOnlyConnected
<1>1. ClientInv => HeartbeatOnlyConnected
  BY DEF ClientInv, LinkInv
<1>2. QED BY <1>1, ClientSafe, PTL

\* A consumer that asked for events has them whenever the client is connected.
THEOREM SubscriptionsComeBack == Spec => []SubscriptionRestored
<1>1. TypeOK /\ ClientInv /\ SessionInv => SubscriptionRestored
  <2>1. ASSUME TypeOK, ClientInv, SessionInv, status = "connected"
        PROVE  sub \notin {"parked", "lost"}
    BY <2>1 DEF TypeOK, ModesOK, ClientInv, LinkInv, SocketCarries,
         NoOrphanSocket, WaitInv, NoStrandedWaiter, SessionInv, ReplayDone
  <2>2. QED BY <2>1 DEF SubscriptionRestored, TypeOK, ModesOK
<1>2. QED BY <1>1, TypeCorrect, ClientSafe, SessionSafe, PTL

\* A client whose provider cannot reject is connected only on an answered
\* hello.
THEOREM ConnectedIsAnswered ==
  ASSUME ~ParamsMayFail PROVE Spec => []AnsweredBeforeConnected
<1>1. SessionInv => AnsweredBeforeConnected
  BY DEF SessionInv, AnsweredUnlessRejected
<1>2. QED BY <1>1, SessionSafe, PTL

\* While a retry is armed after a refusal for the connection cap, only its
\* timer and dispose() touch the retry or dial a socket.
LEMMA CooldownSteps ==
  ASSUME TypeOK, ClientInv, SessionInv, [Next]_vars, limited, timer = "retry"
  PROVE  \/ UNCHANGED <<timer, wait, limited, socket>>
         \/ TimerFires \/ Dispose
<1> USE DEF linkVars, retryVars
<1>1. /\ socket = 0 /\ ~opened /\ hs = "none" /\ poll = "off"
      /\ status # "connected" /\ ~Startable
  BY DEF TypeOK, FlagsOK, ClientInv, LinkInv, SocketCarries, NoOrphanSocket,
       PollerOwnsSocket, Startable
<1>2. \A h \in Hellos : hello[h] # "sent" /\ ~Owns(h)
  BY <1>1 DEF ClientInv, WaitInv, PendingOnCurrentSocket, Owns
<1>3. CASE Start \/ Open \/ DialFails \/ SocketDrops \/ MalformedFrame
  BY <1>1, <1>3 DEF Start, Open, DialFails, SocketDrops, MalformedFrame
<1>4. CASE HandshakeStep
  BY <1>1, <1>4 DEF HandshakeStep, HandshakeParams, HandshakeParamsReject,
       HandshakeAnswered, HandshakeReply, HandshakeNotReady,
       HandshakeStartupFailed, HandshakeTimeout, PollFires, PollAnswered,
       PollStarting, PollHandsOff, PollFailed
<1>5. CASE Subscribe \/ BeatTick
  BY <1>5 DEF Subscribe, BeatTick
<1>6. ASSUME NEW s \in Sockets, ProbeOk(s) \/ ProbeFail(s)
      PROVE  UNCHANGED <<timer, wait, limited, socket>>
  <2>1. ~Concerns(s)
    BY <1>1, ClientAssumption DEF ClientAssumption, Concerns, Sockets
  <2>2. QED BY <1>6, <2>1 DEF ProbeOk, ProbeFail
<1>7. ASSUME NEW r \in Requests, RequestStep(r)
      PROVE  UNCHANGED <<timer, wait, limited, socket>>
  BY <1>1, <1>7 DEF RequestStep, RequestSend, RequestPark, RequestSettles
<1>8. ASSUME NEW h \in Hellos, HelloStep(h)
      PROVE  UNCHANGED <<timer, wait, limited, socket>>
  BY <1>1, <1>2, <1>8 DEF HelloStep, HelloCall, HelloResolves, HelloSend,
       HelloPark, HelloRefused, HelloParamsReject, HelloAnswered, HelloReply,
       HelloTimeout, HelloEnds
<1>9. ASSUME NEW q \in Reverse, ReverseStep(q)
      PROVE  UNCHANGED <<timer, wait, limited, socket>>
  BY <1>9 DEF ReverseStep, RevArrives, RevAnswers
<1>10. CASE UNCHANGED vars
  BY <1>10 DEF vars
<1>11. QED BY <1>3, <1>4, <1>5, <1>6, <1>7, <1>8, <1>9, <1>10
           DEF Next, DialStep, BeatStep

\* A connection-limit refusal is sat out: its retry is never early, and no
\* other dial takes its place.
THEOREM CapIsRespected == Spec => RetryCooldownIsSlow
<1>1. TypeOK /\ ClientInv /\ SessionInv /\ [Next]_vars =>
        [limited /\ timer = "retry" =>
           /\ wait >= LimitDelay
           /\ \/ UNCHANGED <<timer, wait, limited, socket>>
              \/ TimerFires \/ Dispose]_vars
  BY CooldownSteps DEF SessionInv, CooldownWaits
<1>2. QED BY <1>1, TypeCorrect, ClientSafe, SessionSafe, PTL
        DEF Spec, RetryCooldownIsSlow

\* What a step leaves alone if the acknowledged identity survives it.
Unquestioned ==
  /\ UNCHANGED <<identity, socket, attempt, revision>>
  /\ \A h \in Hellos : hello'[h] \in {"idle", hello[h]}

\* A socket that is lost takes the identity with it.
LEMMA LossRetires ==
  ASSUME NEW kind, LoseConnection(kind)
  PROVE  identity' = None
BY DEF LoseConnection, StartupHandoff, ConnectionFailure, DropTo, TeardownSocket

\* A step retires the acknowledged identity, or touches nothing it rests on.
LEMMA IdentitySteps ==
  ASSUME TypeOK, ClientInv, SessionInv, [Next]_vars,
         identity # None, identity' # None
  PROVE  Unquestioned
<1> USE DEF linkVars, helloVars, callVars, Unquestioned
<1>1. /\ status = "connected" /\ opened /\ socket # 0 /\ ~renegotiating
      /\ hs = "none" /\ poll = "off" /\ timer = "none"
  BY DEF TypeOK, FlagsOK, ModesOK, ClientInv, LinkInv, SocketCarries,
       HandshakeIsAlone, NoOrphanSocket, PollerOwnsSocket, HelloInv,
       IdentityIsCurrent, SessionInv, Undisputed
<1>2. \A h \in Hellos : hello[h] \in {"params", "sent"} => ~Owns(h)
  BY <1>1 DEF ClientInv, HelloInv, OwnerLeads
<1>3. hello \in [Hellos -> {"idle", "params", "parked", "sent"}]
  BY DEF TypeOK, CallsOK
<1>4. CASE Start \/ TimerFires \/ Open \/ DialFails
  BY <1>1, <1>4 DEF Start, Startable, TimerFires, Open, DialFails
<1>5. CASE SocketDrops \/ MalformedFrame
  BY <1>5, LossRetires DEF SocketDrops, MalformedFrame
<1>6. CASE Dispose
  BY <1>6 DEF Dispose, TeardownSocket
<1>7. CASE HandshakeStep
  BY <1>1, <1>7 DEF HandshakeStep, HandshakeParams, HandshakeParamsReject,
       HandshakeAnswered, HandshakeReply, HandshakeNotReady,
       HandshakeStartupFailed, HandshakeTimeout, PollFires, PollAnswered,
       PollStarting, PollHandsOff, PollFailed
<1>8. CASE Subscribe \/ BeatTick
  BY <1>8 DEF Subscribe, BeatTick
<1>9. ASSUME NEW s \in Sockets, ProbeOk(s) \/ ProbeFail(s)
      PROVE  Unquestioned
  BY <1>9, LossRetires DEF ProbeOk, ProbeFail
<1>10. ASSUME NEW r \in Requests, RequestStep(r)
       PROVE  Unquestioned
  BY <1>1, <1>10 DEF RequestStep, RequestSend, RequestPark, RequestSettles,
       MaySend
<1>11. ASSUME NEW h \in Hellos, HelloStep(h)
       PROVE  Unquestioned
  <2>1. CASE HelloCall(h) \/ HelloSend(h)
    BY <1>1, <2>1 DEF HelloCall, HelloSend, BeginRenegotiation, Demote
  <2>2. CASE HelloPark(h)
    BY <1>1, <2>2 DEF HelloPark, Joins
  <2>3. CASE HelloRefused(h)
    BY <1>3, <2>3 DEF HelloRefused
  <2>4. ASSUME NEW confirmed, NEW snap, HelloEnds(h, confirmed, snap), ~Owns(h)
        PROVE  Unquestioned
    BY <1>3, <2>4 DEF HelloEnds
  <2>5. CASE HelloParamsReject(h)
    BY <1>2, <2>4, <2>5 DEF HelloParamsReject
  <2>6. ASSUME NEW kind, HelloReply(h, kind)
        PROVE  Unquestioned
    BY <1>2, <2>4, <2>6 DEF HelloReply
  <2>7. CASE HelloTimeout(h)
    BY <1>2, <2>4, <2>7 DEF HelloTimeout
  <2>8. QED BY <1>11, <2>1, <2>2, <2>3, <2>5, <2>6, <2>7
            DEF HelloStep, HelloResolves, HelloAnswered
<1>12. ASSUME NEW q \in Reverse, ReverseStep(q)
       PROVE  Unquestioned
  BY <1>12 DEF ReverseStep, RevArrives, RevAnswers
<1>13. CASE UNCHANGED vars
  BY <1>13 DEF vars
<1>14. QED BY <1>4, <1>5, <1>6, <1>7, <1>8, <1>9, <1>10, <1>11, <1>12, <1>13
           DEF Next, DialStep, BeatStep

\* Authority is retired before anything may replace it or take its connection.
THEOREM AuthorityIsRetiredFirst == Spec => IdentityRetiredFirst
<1>1. TypeOK /\ ClientInv /\ SessionInv /\ [Next]_vars =>
        [identity # None /\ identity' # None =>
           /\ UNCHANGED <<identity, socket, attempt, revision>>
           /\ \A h \in Hellos : hello'[h] \in {"idle", hello[h]}]_vars
  BY IdentitySteps DEF Unquestioned
<1>2. QED BY <1>1, TypeCorrect, ClientSafe, SessionSafe, PTL
        DEF Spec, IdentityRetiredFirst

-----------------------------------------------------------------------------
(* The first frame of a socket, and the health checks that outlive theirs. *)

\* Whoever may write a frame, or will be taken for connected, comes after a
\* first frame.
Greeting == status = "connected" \/ renegotiating \/ hs = "sent"

\* A provider that cannot reject never leaves a scoped frame first, and a
\* frame was written before the socket counts for anything.
GreetingInv ==
  ~ParamsMayFail => first # "scoped" /\ (Greeting => first # "none")

\* A socket that is left takes its frames with it.
LEMMA LeavingKeepsGreeting ==
  ASSUME TeardownSocket, status' # "connected"
  PROVE  GreetingInv'
BY DEF TeardownSocket, GreetingInv, Greeting

\* So does every failure of the connection.
LEMMA DropKeepsGreeting ==
  ASSUME NEW kind, NEW st, NEW d, DropTo(kind, st, d)
  PROVE  GreetingInv'
BY LeavingKeepsGreeting DEF DropTo

\* Losing the socket, for whatever reason.
LEMMA LossKeepsGreeting ==
  ASSUME ClientInv, NEW kind, LoseConnection(kind)
  PROVE  GreetingInv'
<1>1. CASE bootstrap
  <2>1. status # "connected"
    BY <1>1 DEF ClientInv, LinkInv, PollerOwnsSocket, SocketCarries
  <2>2. QED BY <1>1, <2>1, LeavingKeepsGreeting DEF LoseConnection,
              StartupHandoff
<1>2. CASE ~bootstrap
  BY <1>2, DropKeepsGreeting DEF LoseConnection, ConnectionFailure
<1>3. QED BY <1>1, <1>2

\* A step that writes nothing and makes nobody a writer.
LEMMA SilentKeepsGreeting ==
  ASSUME GreetingInv, UNCHANGED first, Greeting' => Greeting
  PROVE  GreetingInv'
BY DEF GreetingInv

\* A hello, or the answer to a reverse request, may be written at any time, a
\* scoped frame on a connected client.
LEMMA WritingKeepsGreeting ==
  ASSUME GreetingInv, NEW kind \in {"hello", "scoped", "reverse"}, Wrote(kind),
         kind = "scoped" => Greeting
  PROVE  GreetingInv'
BY DEF GreetingInv, Wrote

\* A hello that settles reports a connection that has been greeted.
LEMMA EndsKeepsGreeting ==
  ASSUME ClientInv, GreetingInv, NEW h \in Hellos,
         hello[h] \in {"params", "sent"}, NEW confirmed, NEW snap,
         HelloEnds(h, confirmed, snap), UNCHANGED <<hs, first>>
  PROVE  GreetingInv'
<1>1. CASE Owns(h)
  <2>1. renegotiating
    BY <1>1 DEF ClientInv, HelloInv, OwnerLeads
  <2>2. QED BY <2>1, SilentKeepsGreeting DEF Greeting
<1>2. CASE ~Owns(h)
  BY <1>2, SilentKeepsGreeting DEF HelloEnds, Greeting
<1>3. QED BY <1>1, <1>2

\* Every step keeps the order of the frames.
LEMMA GreetingSteps ==
  ASSUME TypeOK, ClientInv, GreetingInv, [Next]_vars
  PROVE  GreetingInv'
<1> USE DEF stateVars, linkVars, helloVars, Greeting
<1>1. ASSUME Connect, UNCHANGED <<renegotiating, hs, first>>
      PROVE  GreetingInv'
  BY <1>1, SilentKeepsGreeting DEF Connect
<1>2. CASE Start \/ TimerFires
  <2>1. CASE Connect /\ UNCHANGED <<renegotiating, hs, first>>
    BY <1>1, <2>1
  <2>2. ASSUME NEW d, ConnectionFailure("drop", startup, d)
        PROVE  GreetingInv'
    BY <2>2, DropKeepsGreeting DEF ConnectionFailure
  <2>3. QED BY <1>2, <2>1, <2>2 DEF Start, TimerFires
<1>3. CASE Open
  BY <1>3, SilentKeepsGreeting DEF Open
<1>4. CASE DialFails \/ SocketDrops \/ HandshakeTimeout
  BY <1>4, LossKeepsGreeting DEF DialFails, SocketDrops, HandshakeTimeout
<1>5. CASE MalformedFrame
  <2>1. \/ LoseConnection("drop")
        \/ UNCHANGED <<status, renegotiating, hs, first>>
    BY <1>5 DEF MalformedFrame
  <2>2. QED BY <2>1, LossKeepsGreeting, SilentKeepsGreeting
<1>6. CASE Dispose
  BY <1>6, LeavingKeepsGreeting DEF Dispose
<1>7. CASE HandshakeParams
  BY <1>7, WritingKeepsGreeting DEF HandshakeParams
<1>8. CASE HandshakeParamsReject
  <2>1. ParamsMayFail
    BY <1>8 DEF HandshakeParamsReject
  <2>2. first' \in {first, "scoped", "hello"}
    BY <1>8 DEF HandshakeParamsReject, Wrote
  <2>3. QED BY <2>1, <2>2 DEF GreetingInv
<1>9. ASSUME NEW kind, HandshakeReply(kind)
      PROVE  GreetingInv'
  BY <1>9, SilentKeepsGreeting DEF HandshakeReply
<1>10. CASE HandshakeNotReady
  BY <1>10, SilentKeepsGreeting DEF HandshakeNotReady
<1>11. CASE HandshakeStartupFailed \/ PollFailed
  BY <1>11, DropKeepsGreeting DEF HandshakeStartupFailed, PollFailed,
       FailStartup, ConnectionFailure
<1>12. CASE PollFires \/ PollStarting
  BY <1>12, SilentKeepsGreeting DEF PollFires, PollStarting
<1>13. ASSUME NEW ready, PollHandsOff(ready)
       PROVE  GreetingInv'
  <2>1. status # "connected"
    BY <1>13 DEF PollHandsOff, ClientInv, LinkInv, PollerOwnsSocket,
         SocketCarries
  <2>2. QED BY <1>13, <2>1, LeavingKeepsGreeting DEF PollHandsOff,
              StartupHandoff
<1>14. CASE Subscribe
  <2>1. CASE sub' = "live"
    <3>1. status = "connected"
      BY <1>14, <2>1 DEF Subscribe
    <3>2. QED BY <1>14, <2>1, <3>1, WritingKeepsGreeting DEF Subscribe
  <2>2. CASE sub' # "live"
    BY <1>14, <2>2, SilentKeepsGreeting DEF Subscribe
  <2>3. QED BY <2>1, <2>2
<1>15. CASE BeatTick
  BY <1>15, SilentKeepsGreeting DEF BeatTick
<1>16. ASSUME NEW s \in Sockets, ProbeOk(s) \/ ProbeFail(s)
       PROVE  GreetingInv'
  BY <1>16, LossKeepsGreeting, SilentKeepsGreeting DEF ProbeOk, ProbeFail
<1>17. ASSUME NEW r \in Requests, RequestSend(r)
       PROVE  GreetingInv'
  BY <1>17, WritingKeepsGreeting DEF RequestSend, MaySend
<1>18. ASSUME NEW r \in Requests, RequestPark(r) \/ RequestSettles(r)
       PROVE  GreetingInv'
  BY <1>1, <1>18, DropKeepsGreeting, SilentKeepsGreeting
       DEF RequestPark, RequestSettles
<1>19. ASSUME NEW h \in Hellos, HelloCall(h)
       PROVE  GreetingInv'
  BY <1>19, SilentKeepsGreeting DEF HelloCall, BeginRenegotiation, Demote
<1>20. ASSUME NEW h \in Hellos, HelloSend(h)
       PROVE  GreetingInv'
  BY <1>20, WritingKeepsGreeting DEF HelloSend
<1>21. ASSUME NEW h \in Hellos, HelloPark(h) \/ HelloRefused(h)
       PROVE  GreetingInv'
  BY <1>1, <1>21, DropKeepsGreeting, SilentKeepsGreeting
       DEF HelloPark, HelloRefused
<1>22. ASSUME NEW h \in Hellos, NEW kind,
              \/ HelloParamsReject(h)
              \/ HelloReply(h, kind)
       PROVE  GreetingInv'
  BY <1>22, EndsKeepsGreeting DEF HelloParamsReject, HelloReply
<1>23. ASSUME NEW h \in Hellos, HelloTimeout(h)
       PROVE  GreetingInv'
  BY <1>23, LossKeepsGreeting, EndsKeepsGreeting DEF HelloTimeout
<1>24. ASSUME NEW q \in Reverse, RevArrives(q) \/ RevAnswers(q)
       PROVE  GreetingInv'
  BY <1>24, WritingKeepsGreeting, SilentKeepsGreeting DEF RevArrives,
       RevAnswers
<1>25. CASE UNCHANGED vars
  BY <1>25, SilentKeepsGreeting DEF vars
<1>26. QED BY <1>2, <1>3, <1>4, <1>5, <1>6, <1>7, <1>8, <1>9, <1>10, <1>11,
        <1>12, <1>13, <1>14, <1>15, <1>16, <1>17, <1>18, <1>19, <1>20, <1>21,
        <1>22, <1>23, <1>24, <1>25 DEF Next, DialStep, HandshakeStep,
        HandshakeAnswered, PollAnswered, RequestStep, HelloStep,
        HelloResolves, HelloAnswered, BeatStep, ReverseStep

\* The invariant of the frames.
LEMMA GreetingSafe == Spec => []GreetingInv
<1>1. Init => GreetingInv
  BY DEF Init, GreetingInv, Greeting
<1>2. TypeOK /\ ClientInv /\ GreetingInv /\ [Next]_vars => GreetingInv'
  BY GreetingSteps
<1>3. QED BY <1>1, <1>2, TypeCorrect, ClientSafe, PTL DEF Spec

\* Only the answer to a reverse request makes an answer the first frame.
LEMMA FramesOfSteps ==
  ASSUME [Next]_vars, \A q \in Reverse : ~RevAnswers(q)
  PROVE  first' \in {first, "none", "hello", "scoped"}
<1> USE DEF helloVars, Wrote
<1>1. ASSUME NEW kind, LoseConnection(kind)
      PROVE  first' = "none"
  BY <1>1 DEF LoseConnection, StartupHandoff, ConnectionFailure, DropTo,
       TeardownSocket
<1>2. ASSUME NEW kind, NEW st, NEW d, DropTo(kind, st, d)
      PROVE  first' = "none"
  BY <1>2 DEF DropTo, TeardownSocket
<1>3. CASE DialStep \/ Dispose \/ Subscribe
  BY <1>1, <1>2, <1>3 DEF DialStep, Start, TimerFires, Open, DialFails,
       SocketDrops, MalformedFrame, Dispose, Subscribe, ConnectionFailure,
       TeardownSocket
<1>4. CASE HandshakeStep
  BY <1>1, <1>2, <1>4 DEF HandshakeStep, HandshakeParams,
       HandshakeParamsReject, HandshakeAnswered, HandshakeReply,
       HandshakeNotReady, HandshakeStartupFailed, HandshakeTimeout, PollFires,
       PollAnswered, PollStarting, PollHandsOff, PollFailed, FailStartup,
       ConnectionFailure, StartupHandoff, TeardownSocket
<1>5. CASE BeatStep
  BY <1>1, <1>5 DEF BeatStep, BeatTick, ProbeOk, ProbeFail
<1>6. ASSUME NEW r \in Requests, RequestStep(r)
      PROVE  first' \in {first, "none", "hello", "scoped"}
  BY <1>2, <1>6 DEF RequestStep, RequestSend, RequestPark, RequestSettles
<1>7. ASSUME NEW h \in Hellos, HelloStep(h)
      PROVE  first' \in {first, "none", "hello", "scoped"}
  BY <1>1, <1>2, <1>7 DEF HelloStep, HelloCall, HelloResolves, HelloSend,
       HelloPark, HelloRefused, HelloParamsReject, HelloAnswered, HelloReply,
       HelloTimeout
<1>8. ASSUME NEW q \in Reverse, ReverseStep(q)
      PROVE  first' \in {first, "none", "hello", "scoped"}
  BY <1>8 DEF ReverseStep, RevArrives
<1>9. CASE UNCHANGED vars
  BY <1>9 DEF vars
<1>10. QED BY <1>3, <1>4, <1>5, <1>6, <1>7, <1>8, <1>9 DEF Next

\* Where the provider cannot reject, whatever the daemon asks of the client:
\* the first frame of a socket is its hello, or it is the answer to a reverse
\* request, and nothing but the end of such a request makes it one (the handler
\* writes to whatever socket there is).  No call and no subscription gets
\* ahead of the hello.
THEOREM HelloComesFirst ==
  ASSUME ~ParamsMayFail
  PROVE  Spec => /\ [](FirstFrameIsHello \/ first = "reverse")
                 /\ [][first' = "reverse" /\ first # "reverse" =>
                          \E q \in Reverse : RevAnswers(q)]_vars
<1>1. TypeOK /\ GreetingInv => FirstFrameIsHello \/ first = "reverse"
  BY DEF TypeOK, ModesOK, GreetingInv, FirstFrameIsHello
<1>2. [Next]_vars => [first' = "reverse" /\ first # "reverse" =>
                        \E q \in Reverse : RevAnswers(q)]_vars
  BY FramesOfSteps
<1>3. QED BY <1>1, <1>2, TypeCorrect, GreetingSafe, PTL DEF Spec

\* The promise of a step about the health checks of other sockets.
StaleIgnored ==
  \A s \in Sockets :
    probes'[s] < probes[s] /\ s # socket => UNCHANGED <<socket, misses, probing>>

\* Only the end of a health check takes one away.
LEMMA QuietProbes ==
  ASSUME TypeOK, UNCHANGED probes
  PROVE  StaleIgnored
BY DEF TypeOK, CountersOK, StaleIgnored

\* Every step leaves the current socket and its count alone when a health check
\* of another socket ends.
LEMMA ProbeSteps ==
  ASSUME TypeOK, [Next]_vars
  PROVE  StaleIgnored
<1> USE DEF beatVars, probeVars
<1>1. probes \in [Sockets -> Nat]
  BY DEF TypeOK, CountersOK
<1>2. CASE DialStep \/ Dispose \/ Subscribe
  BY <1>2, QuietProbes DEF DialStep, Start, TimerFires, Open, DialFails,
       SocketDrops, MalformedFrame, Dispose, Subscribe
<1>3. CASE HandshakeStep
  <2>1. UNCHANGED probes
    BY <1>3 DEF HandshakeStep, HandshakeParams, HandshakeParamsReject,
         HandshakeAnswered, HandshakeReply, HandshakeNotReady,
         HandshakeStartupFailed, HandshakeTimeout, PollFires, PollAnswered,
         PollStarting, PollHandsOff, PollFailed, FinishConnect
  <2>2. QED BY <2>1, QuietProbes
<1>4. CASE BeatTick
  BY <1>1, <1>4 DEF BeatTick, StaleIgnored
<1>5. ASSUME NEW s \in Sockets, ProbeOk(s) \/ ProbeFail(s)
      PROVE  StaleIgnored
  <2>1. \A t \in Sockets : probes'[t] < probes[t] => t = s
    BY <1>1, <1>5 DEF ProbeOk, ProbeFail
  <2>2. ASSUME s # socket
        PROVE  UNCHANGED <<socket, misses, probing>>
    <3>1. probing \in BOOLEAN
      BY DEF TypeOK, FlagsOK
    <3>2. ~Concerns(s)
      BY <2>2 DEF Concerns
    <3>3. CASE ProbeOk(s)
      BY <2>2, <3>3 DEF ProbeOk, linkVars
    <3>4. CASE ProbeFail(s)
      BY <3>1, <3>2, <3>4 DEF ProbeFail, linkVars
    <3>5. QED BY <1>5, <3>3, <3>4
  <2>3. QED BY <2>1, <2>2 DEF StaleIgnored
<1>6. ASSUME NEW r \in Requests, RequestStep(r)
      PROVE  StaleIgnored
  BY <1>6, QuietProbes DEF RequestStep, RequestSend, RequestPark,
       RequestSettles
<1>7. ASSUME NEW h \in Hellos, HelloStep(h)
      PROVE  StaleIgnored
  <2>1. UNCHANGED probes
    BY <1>7 DEF HelloStep, HelloCall, HelloResolves, HelloSend, HelloPark,
         HelloRefused, HelloParamsReject, HelloAnswered, HelloReply,
         HelloTimeout, HelloEnds, FinishConnect
  <2>2. QED BY <2>1, QuietProbes
<1>8. ASSUME NEW q \in Reverse, ReverseStep(q)
      PROVE  StaleIgnored
  BY <1>8, QuietProbes DEF ReverseStep, RevArrives, RevAnswers
<1>9. CASE UNCHANGED vars
  BY <1>9, QuietProbes DEF vars
<1>10. QED BY <1>2, <1>3, <1>4, <1>5, <1>6, <1>7, <1>8, <1>9
           DEF Next, BeatStep

\* A health check that ends after its socket was replaced neither counts
\* against the new one nor ends its check.
THEOREM StaleProbesIgnored == Spec => StaleProbesAreIgnored
<1>1. TypeOK /\ [Next]_vars =>
        [\A s \in Sockets :
           probes'[s] < probes[s] /\ s # socket =>
             UNCHANGED <<socket, misses, probing>>]_vars
  BY ProbeSteps DEF StaleIgnored
<1>2. QED BY <1>1, TypeCorrect, PTL DEF Spec, StaleProbesAreIgnored

-----------------------------------------------------------------------------
(* Each step of the client is a step of RequestChannel or leaves it alone.  *)

\* A written call has a client that is connected, or one that renegotiates:
\* never both at once.
WrittenOnLiveLink ==
  /\ \A r \in Requests :
       req[r] = "pending" => status = "connected" \/ renegotiating
  /\ renegotiating => status # "connected"

Sound == TypeOK /\ ClientInv /\ SessionInv /\ WrittenOnLiveLink

\* What every step has to show.
ChannelStep == WrittenOnLiveLink' /\ [Channel!ChannelNext]_<<Link, Seen>>

\* Every call ends with the link.
LEMMA DropIsDrop ==
  ASSUME Sound, ~disposed, NEW kind, NEW st, NEW d, ConnectionFailure(kind, st, d)
  PROVE  ChannelStep
<1>1. \A r \in Requests : req'[r] = "idle"
  BY DEF ConnectionFailure, FailCalls, Failed, Sound, TypeOK, CallsOK
<1>2. WrittenOnLiveLink'
  BY <1>1 DEF WrittenOnLiveLink, ConnectionFailure, DropTo, TeardownSocket
<1>3. Link' = "down" /\ Link # "closed"
  BY DEF ConnectionFailure, DropTo, TeardownSocket, Link
<1>4. Seen' = Channel!Ended({"waiting", "written"})
  BY <1>1 DEF Seen, Channel!Ended
<1>5. Channel!Drop
  BY <1>3, <1>4 DEF Channel!Drop
<1>6. QED BY <1>2, <1>5 DEF ChannelStep, Channel!ChannelNext

\* A starting daemon has no call to answer: leaving its socket ends none.
LEMMA HandoffIsIdle ==
  ASSUME Sound, bootstrap, NEW ready \in BOOLEAN, StartupHandoff(ready)
  PROVE  ChannelStep
<1>1. status = "connecting" /\ ~renegotiating /\ ~disposed
  BY DEF Sound, ClientInv, LinkInv, PollerOwnsSocket, SocketCarries,
       SessionInv, ReplayDone
<1>2. \A r \in Requests : req[r] # "pending"
  BY <1>1 DEF Sound, WrittenOnLiveLink
<1>3. \A r \in Requests : req'[r] = req[r]
  BY <1>2 DEF StartupHandoff, FailCalls, Failed, Sound, TypeOK, CallsOK
<1>4. UNCHANGED Link
  BY <1>1 DEF StartupHandoff, TeardownSocket, Link
<1>5. UNCHANGED Seen
  BY <1>3 DEF Seen
<1>6. WrittenOnLiveLink'
  BY <1>2, <1>3 DEF WrittenOnLiveLink, StartupHandoff, TeardownSocket
<1>7. QED BY <1>4, <1>5, <1>6 DEF ChannelStep

\* Losing the socket ends every call, or none when the daemon was starting.
LEMMA LossIsDrop ==
  ASSUME Sound, ~disposed, NEW kind, LoseConnection(kind)
  PROVE  ChannelStep
<1>1. CASE bootstrap
  BY <1>1, HandoffIsIdle DEF LoseConnection
<1>2. CASE ~bootstrap
  BY <1>2, DropIsDrop DEF LoseConnection
<1>3. QED BY <1>1, <1>2

\* Reporting the connection writes every call that waited.
LEMMA FinishIsOpen ==
  ASSUME Sound, opened, status # "connected", NEW confirmed, NEW snap,
         FinishConnect(confirmed, snap)
  PROVE  ChannelStep
<1>1. ~disposed
  BY DEF Sound, ClientInv, LinkInv, SocketCarries
<1>2. Link \in {"down", "held"} /\ Link' \in {"open", "held"}
  BY <1>1 DEF FinishConnect, Link
<1>3. Seen' = [c \in Requests |->
                 IF Seen[c] = "waiting" THEN "written" ELSE Seen[c]]
  BY DEF FinishConnect, Seen, Sound, TypeOK, CallsOK
<1>4. Channel!Open
  BY <1>2, <1>3 DEF Channel!Open
<1>5. WrittenOnLiveLink'
  BY DEF FinishConnect, WrittenOnLiveLink
<1>6. QED BY <1>4, <1>5 DEF ChannelStep, Channel!ChannelNext

\* A step that leaves the calls and what the link depends on alone.
LEMMA IdleIsIdle ==
  ASSUME Sound, UNCHANGED <<disposed, status, renegotiating, req>>
  PROVE  ChannelStep
BY DEF Sound, ChannelStep, WrittenOnLiveLink, Link, Seen

\* A dial leaves the link down.
LEMMA ConnectIsIdle ==
  ASSUME Sound, socket = 0, ~disposed, Connect, UNCHANGED <<disposed, renegotiating>>
  PROVE  /\ Link = "down" /\ Link' = "down"
         /\ \A r \in Requests : req[r] # "pending"
<1>1. ~renegotiating /\ status # "connected"
  BY DEF Sound, TypeOK, FlagsOK, ClientInv, LinkInv, SocketCarries
<1>2. QED BY <1>1 DEF Connect, Link, Sound, WrittenOnLiveLink

\* A renegotiation holds an open link.
LEMMA BeginIsHold ==
  ASSUME Sound, ~disposed, status = "connected" \/ renegotiating,
         status' = "connecting", renegotiating', UNCHANGED <<disposed, req>>
  PROVE  ChannelStep
<1>1. Link \in {"open", "held"} /\ Link' = "held" /\ UNCHANGED Seen
  BY DEF Link, Seen
<1>2. WrittenOnLiveLink'
  BY DEF WrittenOnLiveLink
<1>3. Link = "open" => Channel!Hold
  BY <1>1 DEF Channel!Hold
<1>4. QED BY <1>1, <1>2, <1>3 DEF ChannelStep, Channel!ChannelNext

\* A call may wait while the link is not open.
LEMMA ParkIsSubmit ==
  ASSUME Sound, NEW r \in Requests, req[r] = "idle", ~disposed,
         Link # "open", UNCHANGED Link, req' = [req EXCEPT ![r] = "parked"]
  PROVE  Channel!Submit(r)
<1>1. Seen[r] = "idle" /\ Link # "closed"
  BY DEF Seen, Link
<1>2. Seen' = [Seen EXCEPT ![r] = "waiting"]
  BY DEF Seen, Sound, TypeOK, CallsOK
<1>3. QED BY <1>1, <1>2 DEF Channel!Submit

\* request() on a client that is not connected.
LEMMA RequestParkIsChannel ==
  ASSUME Sound, NEW r \in Requests, RequestPark(r)
  PROVE  ChannelStep
<1> USE DEF stateVars, linkVars, helloVars, retryVars, startVars
<1>1. req[r] = "idle" /\ ~disposed /\ status # "connected"
  BY DEF RequestPark, MaySend
<1>2. Link # "open"
  BY <1>1 DEF Link
<1>3. CASE ~Startable
  <2>1. UNCHANGED Link /\ req' = [req EXCEPT ![r] = "parked"]
    BY <1>3 DEF RequestPark, Link
  <2>2. WrittenOnLiveLink'
    BY <1>3, <2>1 DEF RequestPark, Sound, WrittenOnLiveLink, TypeOK, CallsOK
  <2>3. QED BY <1>1, <1>2, <2>1, <2>2, ParkIsSubmit
          DEF ChannelStep, Channel!ChannelNext
<1>4. CASE /\ Startable /\ Connect /\ UNCHANGED <<disposed, renegotiating>>
           /\ req' = [req EXCEPT ![r] = "parked"]
  <2>1. /\ Link = "down" /\ Link' = "down"
        /\ \A c \in Requests : req[c] # "pending"
    BY <1>1, <1>4, ConnectIsIdle DEF Startable
  <2>2. \A c \in Requests : req'[c] # "pending"
    BY <1>4, <2>1 DEF Sound, TypeOK, CallsOK
  <2>3. WrittenOnLiveLink'
    BY <1>4, <2>2 DEF WrittenOnLiveLink, Connect
  <2>4. QED BY <1>1, <1>2, <1>4, <2>1, <2>3, ParkIsSubmit
          DEF ChannelStep, Channel!ChannelNext
<1>5. CASE /\ Startable /\ DropTo("drop", startup, delay)
           /\ req' = [Failed(req, {"pending", "parked"}) EXCEPT ![r] = "parked"]
  <2>1. Link = "down" /\ Link' = "down"
    BY <1>1, <1>5 DEF Startable, DropTo, TeardownSocket, Link, Sound, ClientInv,
         LinkInv, SocketCarries, TypeOK, FlagsOK
  <2>2. \A c \in Requests : req'[c] = IF c = r THEN "parked" ELSE "idle"
    BY <1>5 DEF Failed, Sound, TypeOK, CallsOK
  <2>3. Seen' = [Channel!Ended({"waiting", "written"}) EXCEPT ![r] = "waiting"]
    BY <2>2 DEF Seen, Channel!Ended
  <2>4. Seen[r] = "idle"
    BY <1>1 DEF Seen
  <2>5. Channel!DropUnder(r)
    BY <2>1, <2>3, <2>4 DEF Channel!DropUnder
  <2>6. WrittenOnLiveLink'
    BY <1>5, <2>2 DEF WrittenOnLiveLink, DropTo, TeardownSocket
  <2>7. QED BY <2>5, <2>6 DEF ChannelStep, Channel!ChannelNext
<1>6. QED BY <1>3, <1>4, <1>5 DEF RequestPark

\* A hello that has to wait for the connection.
LEMMA HelloParkIsChannel ==
  ASSUME Sound, NEW h \in Hellos, HelloPark(h)
  PROVE  ChannelStep
<1> USE DEF stateVars, linkVars, helloVars, retryVars, startVars
<1>1. CASE ~Startable
  BY <1>1, IdleIsIdle DEF HelloPark
<1>2. CASE Startable /\ Connect /\ UNCHANGED <<disposed, renegotiating, req>>
  <2>1. /\ Link = "down" /\ Link' = "down"
        /\ \A c \in Requests : req[c] # "pending"
    BY <1>2, ConnectIsIdle DEF Startable
  <2>2. QED BY <1>2, <2>1 DEF ChannelStep, WrittenOnLiveLink, Connect, Seen
<1>3. CASE /\ Startable /\ DropTo("drop", startup, delay)
           /\ req' = Failed(req, {"pending", "parked"})
  <2>1. Link' = "down" /\ Link # "closed"
    BY <1>3 DEF DropTo, TeardownSocket, Link, Startable
  <2>2. \A c \in Requests : req'[c] = "idle"
    BY <1>3 DEF Failed, Sound, TypeOK, CallsOK
  <2>3. Seen' = Channel!Ended({"waiting", "written"})
    BY <2>2 DEF Seen, Channel!Ended
  <2>4. Channel!Drop
    BY <2>1, <2>3 DEF Channel!Drop
  <2>5. WrittenOnLiveLink'
    BY <1>3, <2>2 DEF WrittenOnLiveLink, DropTo, TeardownSocket
  <2>6. QED BY <2>4, <2>5 DEF ChannelStep, Channel!ChannelNext
<1>4. QED BY <1>1, <1>2, <1>3 DEF HelloPark

\* A hello that settles.
LEMMA EndsIsChannel ==
  ASSUME Sound, NEW h \in Hellos, hello[h] \in {"params", "sent"},
         NEW confirmed, NEW snap, HelloEnds(h, confirmed, snap)
  PROVE  ChannelStep
<1>1. CASE Owns(h)
  <2>1. opened /\ status # "connected"
    BY <1>1 DEF Sound, ClientInv, LinkInv, SocketCarries, HelloInv, OwnerLeads,
         WrittenOnLiveLink
  <2>2. QED BY <1>1, <2>1, FinishIsOpen DEF HelloEnds
<1>2. CASE ~Owns(h)
  BY <1>2, IdleIsIdle DEF HelloEnds
<1>3. QED BY <1>1, <1>2

\* The daemon is starting: the calls that waited are refused.
LEMMA NotReadyIsRefuse ==
  ASSUME Sound, HandshakeNotReady
  PROVE  ChannelStep
<1>1. status = "connecting" /\ ~renegotiating /\ ~disposed
  BY DEF HandshakeNotReady, Sound, ClientInv, LinkInv, HandshakeIsAlone,
       SocketCarries
<1>2. \A r \in Requests : req'[r] = IF req[r] = "parked" THEN "idle" ELSE req[r]
  BY DEF HandshakeNotReady, RefuseWaiters, FailCalls, Failed, Sound, TypeOK,
       CallsOK
<1>3. Seen' = Channel!Ended({"waiting"})
  BY <1>2 DEF Seen, Channel!Ended
<1>4. Link = "down" /\ Link' = "down" /\ UNCHANGED <<status, renegotiating>>
  BY <1>1 DEF HandshakeNotReady, stateVars, Link
<1>5. Channel!Refuse
  BY <1>3, <1>4 DEF Channel!Refuse
<1>6. WrittenOnLiveLink'
  BY <1>2, <1>4 DEF Sound, WrittenOnLiveLink
<1>7. QED BY <1>5, <1>6 DEF ChannelStep, Channel!ChannelNext

\* dispose() closes the channel.
LEMMA DisposeIsClose ==
  ASSUME Sound, Dispose
  PROVE  ChannelStep
<1>1. \A r \in Requests : req'[r] = "idle"
  BY DEF Dispose, FailCalls, Failed, Sound, TypeOK, CallsOK
<1>2. Seen' = Channel!Ended({"waiting", "written"})
  BY <1>1 DEF Seen, Channel!Ended
<1>3. Link # "closed" /\ Link' = "closed"
  BY DEF Dispose, Link
<1>4. Channel!Close
  BY <1>2, <1>3 DEF Channel!Close
<1>5. WrittenOnLiveLink'
  BY <1>1 DEF Dispose, TeardownSocket, WrittenOnLiveLink
<1>6. QED BY <1>4, <1>5 DEF ChannelStep, Channel!ChannelNext

\* A call is written at once on an open link.
LEMMA SendIsSubmit ==
  ASSUME Sound, NEW r \in Requests, RequestSend(r)
  PROVE  ChannelStep
<1>1. Link = "open" /\ UNCHANGED Link /\ Seen[r] = "idle"
  BY DEF RequestSend, MaySend, stateVars, Link, Seen
<1>2. Seen' = [Seen EXCEPT ![r] = "written"]
  BY DEF RequestSend, Seen, Sound, TypeOK, CallsOK
<1>3. Channel!Submit(r)
  BY <1>1, <1>2 DEF Channel!Submit
<1>4. WrittenOnLiveLink'
  BY DEF RequestSend, MaySend, stateVars, Sound, WrittenOnLiveLink
<1>5. QED BY <1>3, <1>4 DEF ChannelStep, Channel!ChannelNext

\* A request that settles is a call that was answered.
LEMMA SettlesIsAnswer ==
  ASSUME Sound, NEW r \in Requests, RequestSettles(r)
  PROVE  ChannelStep
<1>1. Seen[r] = "written" /\ UNCHANGED Link
  BY DEF RequestSettles, stateVars, helloVars, Link, Seen
<1>2. Seen' = [Seen EXCEPT ![r] = "idle"]
  BY DEF RequestSettles, Seen, Sound, TypeOK, CallsOK
<1>3. Channel!Answer(r)
  BY <1>1, <1>2 DEF Channel!Answer
<1>4. WrittenOnLiveLink'
  BY DEF RequestSettles, stateVars, helloVars, Sound, WrittenOnLiveLink, TypeOK,
       CallsOK
<1>5. QED BY <1>3, <1>4 DEF ChannelStep, Channel!ChannelNext

-----------------------------------------------------------------------------
\* Every step of the client is a step of the channel, or leaves it alone.
LEMMA EveryStepIsChannel ==
  ASSUME Sound, [Next]_vars
  PROVE  ChannelStep
<1> USE DEF stateVars, linkVars, helloVars, retryVars, startVars, beatVars,
      probeVars, callVars
<1>1. /\ socket # 0 => ~disposed
      /\ opened => socket # 0
      /\ hs # "none" => opened /\ status # "connected"
      /\ timer # "none" => socket = 0 /\ ~disposed
      /\ poll # "off" => bootstrap /\ opened
  BY DEF Sound, ClientInv, LinkInv, SocketCarries, HandshakeIsAlone,
       NoOrphanSocket, PollerOwnsSocket
<1>2. CASE Start
  <2>1. CASE Connect /\ UNCHANGED <<disposed, renegotiating, req>>
    BY <1>2, <2>1, ConnectIsIdle DEF Start, Startable, ChannelStep,
         WrittenOnLiveLink, Connect, Seen
  <2>2. CASE ConnectionFailure("drop", startup, delay)
    BY <1>2, <2>2, DropIsDrop DEF Start, Startable
  <2>3. QED BY <1>2, <2>1, <2>2 DEF Start
<1>3. CASE TimerFires
  <2>1. CASE Connect /\ UNCHANGED <<disposed, renegotiating, req>>
    BY <1>1, <1>3, <2>1, ConnectIsIdle DEF TimerFires, ChannelStep,
         WrittenOnLiveLink, Connect, Seen
  <2>2. ASSUME NEW d, ConnectionFailure("drop", startup, d) PROVE ChannelStep
    BY <1>1, <1>3, <2>2, DropIsDrop DEF TimerFires
  <2>3. QED BY <1>3, <2>1, <2>2 DEF TimerFires
<1>4. CASE Open \/ HandshakeParams \/ PollFires \/ PollStarting \/ BeatTick
           \/ Subscribe
  BY <1>4, IdleIsIdle DEF Open, HandshakeParams, PollFires, PollStarting,
       BeatTick, Subscribe
<1>5. CASE DialFails \/ SocketDrops \/ HandshakeTimeout
  BY <1>1, <1>5, LossIsDrop DEF DialFails, SocketDrops, HandshakeTimeout
<1>6. CASE MalformedFrame
  BY <1>1, <1>6, LossIsDrop, IdleIsIdle DEF MalformedFrame
<1>7. CASE Dispose
  BY <1>7, DisposeIsClose
<1>8. CASE HandshakeParamsReject
  BY <1>1, <1>8, FinishIsOpen DEF HandshakeParamsReject
<1>9. ASSUME NEW kind \in {"ok", "anonymous", "error"}, HandshakeReply(kind)
      PROVE  ChannelStep
  BY <1>1, <1>9, FinishIsOpen DEF HandshakeReply
<1>10. CASE HandshakeNotReady
  BY <1>10, NotReadyIsRefuse
<1>11. CASE HandshakeStartupFailed \/ PollFailed
  BY <1>1, <1>11, DropIsDrop DEF HandshakeStartupFailed, PollFailed, FailStartup
<1>12. ASSUME NEW ready \in BOOLEAN, PollHandsOff(ready) PROVE ChannelStep
  BY <1>1, <1>12, HandoffIsIdle DEF PollHandsOff
<1>13. ASSUME NEW s \in Sockets, ProbeOk(s) \/ ProbeFail(s) PROVE ChannelStep
  BY <1>1, <1>13, LossIsDrop, IdleIsIdle, ClientAssumption
       DEF ClientAssumption, ProbeOk, ProbeFail, Concerns, Sockets
<1>14. ASSUME NEW r \in Requests, RequestStep(r) PROVE ChannelStep
  BY <1>14, SendIsSubmit, RequestParkIsChannel, SettlesIsAnswer DEF RequestStep
<1>15. ASSUME NEW h \in Hellos, HelloCall(h) PROVE ChannelStep
  <2>1. CASE (status = "connected" \/ renegotiating) /\ BeginRenegotiation(h)
    BY <1>15, <2>1, BeginIsHold DEF HelloCall, BeginRenegotiation, Demote
  <2>2. CASE UNCHANGED <<status, renegotiating>>
    BY <1>15, <2>2, IdleIsIdle DEF HelloCall
  <2>3. QED BY <1>15, <2>1, <2>2 DEF HelloCall
<1>16. ASSUME NEW h \in Hellos, HelloSend(h) PROVE ChannelStep
  BY <1>16, BeginIsHold DEF HelloSend, Joins, BeginRenegotiation, Demote
<1>17. ASSUME NEW h \in Hellos, HelloPark(h) PROVE ChannelStep
  BY <1>17, HelloParkIsChannel
<1>18. ASSUME NEW h \in Hellos, HelloRefused(h) PROVE ChannelStep
  BY <1>18, IdleIsIdle DEF HelloRefused
<1>19. ASSUME NEW h \in Hellos, HelloParamsReject(h) PROVE ChannelStep
  BY <1>19, EndsIsChannel DEF HelloParamsReject
<1>20. ASSUME NEW h \in Hellos, NEW kind \in {"ok", "anonymous", "error"},
              HelloReply(h, kind)
       PROVE  ChannelStep
  BY <1>20, EndsIsChannel DEF HelloReply
<1>21. ASSUME NEW h \in Hellos, HelloTimeout(h) PROVE ChannelStep
  <2>1. CASE Owns(h)
    BY <1>1, <1>21, <2>1, LossIsDrop DEF HelloTimeout, Owns
  <2>2. CASE ~Owns(h)
    BY <1>21, <2>2, EndsIsChannel DEF HelloTimeout
  <2>3. QED BY <2>1, <2>2
<1>22. ASSUME NEW q \in Reverse, ReverseStep(q) PROVE ChannelStep
  BY <1>22, IdleIsIdle DEF ReverseStep, RevArrives, RevAnswers
<1>23. CASE UNCHANGED vars
  BY <1>23, IdleIsIdle DEF vars
<1>24. QED BY <1>2, <1>3, <1>4, <1>5, <1>6, <1>7, <1>8, <1>9, <1>10, <1>11,
        <1>12, <1>13, <1>14, <1>15, <1>16, <1>17, <1>18, <1>19, <1>20, <1>21,
        <1>22, <1>23 DEF Next, DialStep, HandshakeStep, HandshakeAnswered,
        PollAnswered, HelloStep, HelloResolves, HelloAnswered, BeatStep

\* The strengthening holds: the steps that keep it are the ones above.
LEMMA ClientSound == Spec => []Sound
<1>1. Init => WrittenOnLiveLink
  BY DEF Init, WrittenOnLiveLink
<1>2. TypeOK /\ ClientInv /\ SessionInv /\ WrittenOnLiveLink /\ [Next]_vars
        => WrittenOnLiveLink'
  BY EveryStepIsChannel DEF ChannelStep, Sound
<1>3. QED BY <1>1, <1>2, TypeCorrect, ClientSafe, SessionSafe, PTL DEF Spec, Sound

\* The JSON-RPC client implements the request channel.
THEOREM ClientImplementsChannel == Spec => ImplementsChannel
<1>1. Init => Channel!ChannelInit
  BY DEF Init, Channel!ChannelInit, Link, Seen
<1>2. Sound /\ [Next]_vars => [Channel!ChannelNext]_Channel!cvars
  BY EveryStepIsChannel DEF ChannelStep, Channel!cvars
<1>3. QED BY <1>1, <1>2, ClientSound, PTL
        DEF Spec, ImplementsChannel, Channel!ChannelSpec

\* A written call has a live connection to answer it, and no call waits on a
\* connected or disposed client.
THEOREM ClientCallsFollowLink == Spec => []CallsFollowLink
<1>1. Sound => CallsFollowLink
  <2> SUFFICES ASSUME Sound, NEW c \in Requests
               PROVE  /\ Seen[c] = "written" => Link \in {"open", "held"}
                      /\ Seen[c] = "waiting" => Link \in {"down", "held"}
    BY DEF CallsFollowLink, Channel!CallsFollowLink
  <2>1. ~disposed \/ (req[c] # "pending" /\ req[c] # "parked")
    BY DEF Sound, ClientInv, LinkInv, SocketCarries, WaitInv, NoStrandedWaiter,
         PendingOnCurrentSocket
  <2>2. req[c] = "parked" => status # "connected"
    BY DEF Sound, ClientInv, LinkInv, SocketCarries, NoOrphanSocket, WaitInv,
         NoStrandedWaiter
  <2>3. QED BY <2>1, <2>2 DEF Sound, WrittenOnLiveLink, Link, Seen
<1>2. QED BY <1>1, ClientSound, PTL

=============================================================================
