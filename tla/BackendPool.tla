---------------------------- MODULE BackendPool ----------------------------
(***************************************************************************)
(* The main process's pool of backend clients (backend.ipc.ts): one client *)
(* per remote id, built from the id's stored credential.                   *)
(*                                                                         *)
(* Building a client reads the store twice, with the event loop free in    *)
(* between; callers for one id share one build.  The user's operations     *)
(* (open, forget, re-pair, update) run one at a time on the connection     *)
(* lane.  Everything else does not wait for the lane: the guest store's    *)
(* notices that a credential was replaced or removed by sync, the last     *)
(* window of a backend closing, and the dock and the boot restore, which   *)
(* connect directly.                                                       *)
(*                                                                         *)
(* One action is one turn of the event loop.  What a turn does after a     *)
(* promise it already holds (a shared build settling, then the lane going  *)
(* on) belongs to that turn.                                               *)
(***************************************************************************)
EXTENDS Naturals, Sequences

CONSTANTS Owners,    \* ids of the connections store
          Guests,    \* ids of the guest-sessions store
          Direct,    \* ids the dock or the boot restore connects off the lane
          None,      \* no client, no build, no notice
          MaxCreds,  \* bound: credentials one id goes through
          MaxOps     \* bound: operations the user asks for

Ids == Owners \cup Guests

\* A client in the pool, a construction in flight, a notification.
PooledClients == [cred : 0..MaxCreds, gen : Nat]
Builds == [stage : {"record", "token", "built"}, gen : Nat, cred : 0..MaxCreds]
Notices == [kind : {"replaced", "removed"}, id : Guests]

ASSUME PoolAssumption ==
  /\ Owners \cap Guests = {} /\ Direct \subseteq Ids
  /\ None \notin PooledClients \cup Builds \cup Notices
  /\ MaxCreds \in Nat \ {0} /\ MaxOps \in Nat

VARIABLES
  record,      \* id -> the credential its store holds, 0 for none
  generation,  \* backendCredentialGenerations
  pooled,      \* backendClients: each client's credential, and (history) the
               \* generation its configuration was read in
  build,       \* backendClientConnects: the construction in flight
  notice,      \* the guest store's notification that is on its way
  lane,        \* connectionOperationQueue; its head is the running operation
  windows,     \* ids with a window open
  ops          \* operations asked for so far (bound)

poolVars == <<record, generation, pooled, build, notice, lane, windows, ops>>

\* The state of backend.ipc.ts at start: saved credentials and no client.
PoolInit ==
  /\ record = [i \in Ids |-> 1]
  /\ generation = [i \in Ids |-> 0]
  /\ pooled = [i \in Ids |-> None]
  /\ build = [i \in Ids |-> None]
  /\ notice = None /\ lane = <<>> /\ windows = {} /\ ops = 0

-----------------------------------------------------------------------------
(* Helpers.                                                                *)

Op(kind, i) == [kind |-> kind, id |-> i, pc |-> "queued", had |-> FALSE]

\* The operation that runs is of this kind and at this point, on id i.
Running(kinds, pc, i) ==
  lane # <<>> /\ Head(lane).kind \in kinds /\ Head(lane).pc = pc
              /\ Head(lane).id = i

\* The lane after its head moves to pc, and after its head is done.
At(pc) == [lane EXCEPT ![1] = [Head(lane) EXCEPT !.pc = pc]]
Done == Tail(lane)

\* disconnectBackendClient(): what the pool is once i's client is disposed.
Disposed(i) == [pooled EXCEPT ![i] = None]

\* A construction that starts now.
Fresh(i) == [stage |-> "record", gen |-> generation[i], cred |-> 0]

\* connectBackendClientOriginal() for an id with no client: a new build, or the
\* one in flight.
Joined(i) == IF build[i] = None THEN [build EXCEPT ![i] = Fresh(i)] ELSE build

-----------------------------------------------------------------------------
(* The construction of a client.                                           *)

\* The dock, or the boot restore, connects without taking the lane.  The windows
\* that the boot restore opens afterwards are not modelled.
DirectConnect(i) ==
  /\ i \in Direct /\ pooled[i] = None /\ build[i] = None /\ ops < MaxOps
  /\ build' = Joined(i) /\ ops' = ops + 1
  /\ UNCHANGED <<record, generation, pooled, notice, lane, windows>>

\* Mutant of LaneAfterBuild: a build that fails does not end its operation.
LaneIfBuilt(i, ok) ==
  IF ~ok THEN lane
  ELSE IF Running({"rebuild", "repair", "update"}, "connecting", i) THEN Done
  ELSE IF ~Running({"open"}, "connecting", i) THEN lane
  ELSE IF i \notin windows THEN At("opening") ELSE Done

\* The build of i settles: the operation that awaits it goes on in this turn.
\* An open asks for its window unless one is up already.
LaneAfterBuild(i, ok) ==
  IF Running({"rebuild", "repair", "update"}, "connecting", i) THEN Done
  ELSE IF ~Running({"open"}, "connecting", i) THEN lane
  ELSE IF ok /\ i \notin windows THEN At("opening") ELSE Done

Settle(i, ok) ==
  /\ build' = [build EXCEPT ![i] = None]
  /\ lane' = LaneAfterBuild(i, ok)
  /\ UNCHANGED <<record, generation, notice, windows, ops>>

\* resolveBackendRecord(): the record, or nothing to connect to.
BuildReadsRecord(i) ==
  /\ build[i] # None /\ build[i].stage = "record"
  /\ \/ /\ record[i] # 0
        /\ build' = [build EXCEPT ![i].stage = "token"]
        /\ UNCHANGED <<record, generation, pooled, notice, lane, windows, ops>>
     \/ record[i] = 0 /\ Settle(i, FALSE) /\ UNCHANGED pooled

\* getDecryptedToken(): the credential the store holds by then.
BuildReadsToken(i) ==
  /\ build[i] # None /\ build[i].stage = "token"
  /\ \/ /\ record[i] # 0
        /\ build' = [build EXCEPT ![i].stage = "built", ![i].cred = record[i]]
        /\ UNCHANGED <<record, generation, pooled, notice, lane, windows, ops>>
     \/ record[i] = 0 /\ Settle(i, FALSE) /\ UNCHANGED pooled

\* Mutant of Superseded: the configuration is used whatever happened meanwhile.
NeverSuperseded(i) == FALSE

\* The credential was replaced while the configuration was being read.
Superseded(i) == build[i].gen # generation[i]

\* The configuration is there: read it again, or pool the client.  An open that
\* was cancelled while it waited takes the client back in the same turn.
BuildResumes(i) ==
  /\ build[i] # None /\ build[i].stage = "built"
  /\ \/ /\ pooled[i] # None
        /\ Settle(i, TRUE) /\ UNCHANGED pooled
     \/ /\ pooled[i] = None /\ Superseded(i)
        /\ build' = [build EXCEPT ![i] = Fresh(i)]
        /\ UNCHANGED <<record, generation, pooled, notice, lane, windows, ops>>
     \/ /\ pooled[i] = None /\ ~Superseded(i)
        /\ pooled' = [pooled EXCEPT ![i] = [cred |-> build[i].cred,
                                            gen |-> build[i].gen]]
        /\ Settle(i, TRUE)
     \/ /\ pooled[i] # None \/ ~Superseded(i)
        /\ Running({"open"}, "connecting", i)
        /\ pooled' = Disposed(i) /\ Settle(i, FALSE)

-----------------------------------------------------------------------------
(* The connection lane.                                                    *)

\* The user opens, forgets, re-pairs or edits a backend.
Ask(kind, i) ==
  /\ ops < MaxOps /\ ops' = ops + 1
  /\ kind \in {"repair", "update"} => i \in Owners
  /\ lane' = Append(lane, Op(kind, i))
  /\ UNCHANGED <<record, generation, pooled, build, notice, windows>>

\* An operation that connects i: at once when i has a client, or by waiting for
\* the build; an open remembers whether the client was there before it.
LaneConnects(i) ==
  IF pooled[i] # None
  THEN /\ lane' = IF i \in windows \/ Head(lane).kind # "open" THEN Done
                  ELSE [lane EXCEPT ![1] =
                              [Head(lane) EXCEPT !.pc = "opening", !.had = TRUE]]
       /\ UNCHANGED build
  ELSE build' = Joined(i) /\ lane' = At("connecting")

\* performOpenBackendWindow() begins; a cancelled invitation opens nothing.
OpenStarts(i) ==
  /\ Running({"open"}, "queued", i)
  /\ \/ LaneConnects(i)
     \/ lane' = Done /\ UNCHANGED build
  /\ UNCHANGED <<record, generation, pooled, notice, windows, ops>>

\* windowHooks.openOrFocus(): the window is up, or the open fails and takes
\* back the client it built.
OpenEnds(i) ==
  /\ Running({"open"}, "opening", i)
  /\ lane' = Done
  /\ \/ windows' = windows \cup {i} /\ UNCHANGED pooled
     \/ /\ pooled' = IF Head(lane).had THEN pooled ELSE Disposed(i)
        /\ UNCHANGED windows
  /\ UNCHANGED <<record, generation, build, notice, ops>>

\* forgetConnectionLocked() and leaveGuestSessionLocked(): the store first.
\* A guest session that is gone already leaves only its client to tear down.
ForgetStarts(i) ==
  /\ Running({"forget"}, "queued", i)
  /\ record' = [record EXCEPT ![i] = 0]
  /\ lane' = IF i \in Guests /\ record[i] = 0 /\ pooled[i] = None THEN Done
             ELSE At("closing")
  /\ UNCHANGED <<generation, pooled, build, notice, windows, ops>>

\* closeForBackend(): then the client.
ForgetCloses(i) ==
  /\ Running({"forget"}, "closing", i)
  /\ windows' = windows \ {i} /\ lane' = At("dropping")
  /\ UNCHANGED <<record, generation, pooled, build, notice, ops>>

ForgetDrops(i) ==
  /\ Running({"forget"}, "dropping", i)
  /\ pooled' = Disposed(i) /\ lane' = Done
  /\ UNCHANGED <<record, generation, build, notice, windows, ops>>

\* connections:add and connections:update of a saved backend: the store first.
RepairStarts(i) ==
  /\ Running({"repair", "update"}, "queued", i)
  /\ \/ /\ record[i] \in 1..(MaxCreds - 1)
        /\ record' = [record EXCEPT ![i] = @ + 1]
        /\ lane' = At("written")
     \/ lane' = Done /\ UNCHANGED record
  /\ UNCHANGED <<generation, pooled, build, notice, windows, ops>>

\* A live client is replaced by one built from the new record; connections:add
\* also connects the active backend.
RepairConnects(i) ==
  /\ Running({"repair", "update"}, "written", i)
  /\ pooled' = Disposed(i)
  /\ \/ /\ pooled[i] # None \/ Head(lane).kind = "repair"
        /\ build' = Joined(i) /\ lane' = At("connecting")
     \/ pooled[i] = None /\ lane' = Done /\ UNCHANGED build
  /\ UNCHANGED <<record, generation, notice, windows, ops>>

\* The rebuild queued by onGuestCredentialReplaced().
RebuildStarts(i) ==
  /\ Running({"rebuild"}, "queued", i)
  /\ LaneConnects(i)
  /\ UNCHANGED <<record, generation, pooled, notice, windows, ops>>

\* The teardown queued by onGuestSessionRemovedBySync().
CloseRuns(i) ==
  /\ Running({"close"}, "queued", i)
  /\ windows' = windows \ {i} /\ lane' = Done
  /\ UNCHANGED <<record, generation, pooled, build, notice, ops>>

LaneStep(i) ==
  OpenStarts(i) \/ OpenEnds(i) \/ ForgetStarts(i) \/ ForgetCloses(i)
    \/ ForgetDrops(i) \/ RepairStarts(i) \/ RepairConnects(i)
    \/ RebuildStarts(i) \/ CloseRuns(i)

-----------------------------------------------------------------------------
(* What does not wait for the lane.                                        *)

\* A re-join, or a newer record from keychain sync, replaces the credential.  The
\* store's mutations wait for each other on disk (mutate()), and a mutation's notice
\* is given in the microtasks of its commit: no other mutation commits before it.
StoreReplaces(i) ==
  /\ i \in Guests /\ notice = None /\ record[i] \in 1..(MaxCreds - 1)
  /\ record' = [record EXCEPT ![i] = @ + 1]
  /\ notice' = [kind |-> "replaced", id |-> i]
  /\ UNCHANGED <<generation, pooled, build, lane, windows, ops>>

\* Sync, or a rejected credential, deletes the session.
StoreRemoves(i) ==
  /\ i \in Guests /\ notice = None /\ record[i] # 0
  /\ record' = [record EXCEPT ![i] = 0]
  /\ notice' = [kind |-> "removed", id |-> i]
  /\ UNCHANGED <<generation, pooled, build, lane, windows, ops>>

\* The notice disposes the client at once.
Evict(i) == Disposed(i)

\* Mutant of Bumped: the eviction alone is taken to be enough.
NeverBumped(i) == generation

\* The notice invalidates the builds that are in flight.
Bumped(i) == [generation EXCEPT ![i] = @ + 1]

\* Mutant of FollowUp: only a removal has work left for the lane.
CloseOnly(i) ==
  IF pooled[i] = None \/ notice.kind = "replaced" THEN lane
  ELSE Append(lane, Op("close", i))

\* A live client had windows to serve, or to tear down, on the lane.
FollowUp(i) ==
  IF pooled[i] = None THEN lane
  ELSE Append(lane, Op(IF notice.kind = "replaced" THEN "rebuild" ELSE "close", i))

\* onGuestCredentialReplaced() and onGuestSessionRemovedBySync().
Notified(i) ==
  /\ notice # None /\ notice.id = i /\ notice' = None
  /\ generation' = Bumped(i)
  /\ pooled' = Evict(i)
  /\ lane' = FollowUp(i)
  /\ UNCHANGED <<record, build, windows, ops>>

\* The user closes the last window of i: its client goes with it, if another
\* window or a dock survives and no dock serves i.
LastWindowCloses(i) ==
  /\ i \in windows
  /\ windows' = windows \ {i} /\ pooled' \in {pooled, Disposed(i)}
  /\ UNCHANGED <<record, generation, build, notice, lane, ops>>

-----------------------------------------------------------------------------

BuildStep(i) == BuildReadsRecord(i) \/ BuildReadsToken(i) \/ BuildResumes(i)

OutsideStep(i) ==
  \/ DirectConnect(i) \/ StoreReplaces(i) \/ StoreRemoves(i)
  \/ LastWindowCloses(i)

Asked(i) ==
  \E kind \in {"open", "forget", "repair", "update"} : Ask(kind, i)

PoolNext ==
  \E i \in Ids : Asked(i) \/ BuildStep(i) \/ LaneStep(i) \/ Notified(i)
                   \/ OutsideStep(i)

PoolSpec == PoolInit /\ [][PoolNext]_poolVars

\* A read completes, and the event loop runs what is queued on it.
PoolFairness ==
  /\ \A i \in Ids : /\ WF_poolVars(BuildStep(i))
                    /\ WF_poolVars(Notified(i))
  /\ WF_poolVars(\E i \in Ids : LaneStep(i))

PoolFairSpec == PoolSpec /\ PoolFairness

-----------------------------------------------------------------------------
(* Properties.                                                             *)

Kinds == {"open", "forget", "repair", "update", "rebuild", "close"}
Points == {"queued", "connecting", "opening", "closing", "dropping", "written"}

\* Every variable stays in its range (the state of the pool).
PoolTypeOK ==
  /\ record \in [Ids -> 0..MaxCreds] /\ generation \in [Ids -> Nat]
  /\ pooled \in [Ids -> {None} \cup PooledClients]
  /\ build \in [Ids -> {None} \cup Builds]
  /\ notice \in {None} \cup Notices
  /\ lane \in Seq([kind : Kinds, id : Ids, pc : Points, had : BOOLEAN])
  /\ windows \subseteq Ids /\ ops \in 0..MaxOps

\* Nothing is about to happen to i: no notice, no operation.
Quiet(i) ==
  /\ notice = None \/ notice.id # i
  /\ \A k \in DOMAIN lane : lane[k].id # i

\* A pooled client was built at the id's present credential generation: no
\* build that raced a replacement or a removal is ever pooled
\* (connectBackendClientOriginal's re-read, and the synchronous eviction).
ClientOfThisGeneration ==
  \A i \in Ids : pooled[i] # None => pooled[i].gen = generation[i]

\* A guest's client authenticates with the credential the store holds, unless
\* the store's notice is on its way or an operation on that guest is running;
\* ids that are connected off the lane are exempt (see README, divergences).
PooledAsStored ==
  \A i \in Ids \ Direct :
    Quiet(i) /\ pooled[i] # None => pooled[i].cred = record[i]

\* A window of a saved backend has a client behind it once nothing is pending:
\* replacing a credential never strands the windows it was serving.
WindowsAreServed ==
  \A i \in windows : Quiet(i) /\ record[i] # 0 => pooled[i] # None

\* "Windows served by that client are torn down on the connection lane exactly
\* as a local owner forget does" (backend.ipc.ts:1817): no window is left open
\* on a session that is gone.
NoOrphanWindows == \A i \in windows : Quiet(i) => record[i] # 0

\* The lane never wedges: once the user asks for nothing more it empties, whatever
\* builds fail and opens are cancelled (enqueueConnectionOperation swallows
\* rejections).
LaneDrains == []<>(lane = <<>>)

=============================================================================
