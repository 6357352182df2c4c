--------------------------- MODULE PoolRetirement ---------------------------
(***************************************************************************)
(* Retiring the pool of backend clients and the clients in it              *)
(* (backend.ipc.ts, json-rpc-client.ts).                                   *)
(*                                                                         *)
(* retire() stops admitting work, asks every client to stop, waits until   *)
(* all admitted work and all requests have ended, and only then seals all  *)
(* the clients in one turn and closes their sockets.  retireMember() does  *)
(* the same for one client; a retire() that comes meanwhile takes over its *)
(* sealing.  Both wait through callbacks: what the conditions read changes *)
(* one event at a time, and each change wakes the checks subscribed to it. *)
(*                                                                         *)
(* A check runs in the turn of the change that wakes it: nothing else      *)
(* steps while one is due.                                                 *)
(***************************************************************************)
EXTENDS FiniteSets

CONSTANTS Clients,   \* clients the pool may come to hold
          Works,     \* operations that run under poolWork()
          Calls,     \* requests made on a client directly, outside poolWork()
          Execs,     \* callers whose request is a host exec
          Pool,      \* the pool itself, beside the clients it holds
          NoClient   \* no client yet

ASSUME RetirementAssumption ==
  Pool \notin Clients /\ NoClient \notin Clients /\ Works \cap Calls = {}

Callers == Works \cup Calls
Parties == Clients \cup {Pool}

VARIABLES
  phase,     \* of the pool: active, stopping, sealed, finished
  verdict,   \* the promise of retire() and of each retireMember()
  woken,     \* the checks that are due
  fenced,    \* the original-work fence given to retire() is ready
  excluded,  \* scope.exclusions is not empty
  link,      \* the connection of each client
  stopping,  \* clients asked to retire: they have a ticket
  closed,    \* clients that admit no independent request any more
  joined,    \* retiring clients whose fence is ready and disconnect has ended
  sealed,    \* clients that are sealed and disposed
  closing,   \* clients with a destroyed socket whose close is to come
  work,      \* each work: idle, running, done
  on,        \* the client a work or a call is bound to
  req        \* the request of each: none, parked, pending, settled

retVars == <<phase, verdict, woken, fenced, excluded, link, stopping, closed,
             joined, sealed, closing, work, on, req>>

scopeVars == <<phase, fenced, excluded, joined>>
clientVars == <<link, stopping, closed, sealed, closing>>

\* An enrolled pool, before its first client or between two works: the members it
\* has are connected, wait to reconnect, or have given up.
RetInit ==
  /\ phase = "active" /\ verdict = [p \in Parties |-> "none"]
  /\ woken = {} /\ fenced = FALSE /\ excluded = FALSE
  /\ link \in [Clients -> {"absent", "up", "waiting", "down"}]
  /\ stopping = {} /\ closed = {}
  /\ joined = {} /\ sealed = {} /\ closing = {}
  /\ work = [w \in Works |-> "idle"]
  /\ on = [x \in Callers |-> NoClient] /\ req = [x \in Callers |-> "none"]

-----------------------------------------------------------------------------
(* Helpers.                                                                *)

Members == {c \in Clients : link[c] # "absent"}

\* The retirements under way: each has its check subscribed.  (A member's check
\* that has taken up the end of its sealing goes on, and does nothing more.)
Listening == {p \in Parties : verdict[p] = "pending"}

\* poolChanged(): every check.
WakeAll == woken' = Listening

\* Mutant of Wake: the pool does not listen to its members' clients.
WakeOwn(c) == woken' = Listening \cap {c}

\* lifecycleChanged() of c: its own check and the pool's.
Wake(c) == woken' = Listening \cap {c, Pool}

ActiveWork == {w \in Works : work[w] = "running"}
Waiting(c) == {x \in Callers : on[x] = c /\ req[x] \in {"parked", "pending"}}

\* Mutant of Drained: what a caller without a producer asked is not waited for.
DrainedOfWork(c) ==
  (\A w \in ActiveWork : on[w] # c) /\ link[c] \notin {"dialling", "starting"}

\* excludedOwners(): a host exec was asked of one of them, which no ticket joins.
ExecsOn(cs) == \E x \in Execs : on[x] \in cs /\ req[x] # "none"

\* The ticket's drained(): no producer, no request, no waiter, no dial.
Drained(c) ==
  /\ \A w \in ActiveWork : on[w] # c
  /\ Waiting(c) = {}
  /\ link[c] \notin {"dialling", "starting"}

\* The requests of c in one of these states fail.
Failing(c, states) ==
  [x \in Callers |-> IF on[x] = c /\ req[x] \in states THEN "settled"
                     ELSE req[x]]

\* beginRetirement(): the reconnect timer and the wait for a starting daemon
\* are given up; the waiters of the latter fail, those of the former stay.
LinkStopped(cs) ==
  [c \in Clients |-> IF c \in cs \ stopping /\ link[c] \in {"waiting", "starting"}
                     THEN "down" ELSE link[c]]
ReqStopped(cs) ==
  [x \in Callers |-> IF /\ on[x] \in cs \ stopping /\ req[x] = "parked"
                        /\ link[on[x]] = "starting"
                     THEN "settled" ELSE req[x]]
ClosingStopped(cs) == closing \cup {c \in cs \ stopping : link[c] = "starting"}

-----------------------------------------------------------------------------
(* Work and requests.                                                      *)

\* poolWork() admits anything while active; later only the work of an owner that
\* still runs.
Admitted == phase = "active" \/ ActiveWork # {}

\* poolWork() begins.
WorkStarts(w) ==
  /\ woken = {} /\ work[w] = "idle" /\ Admitted
  /\ work' = [work EXCEPT ![w] = "running"]
  /\ UNCHANGED <<scopeVars, clientVars, verdict, woken, on, req>>

\* poolWork() begins for a callback of a member, until the seal.
CallbackStarts(w, c) ==
  /\ woken = {} /\ work[w] = "idle" /\ phase \in {"active", "stopping"}
  /\ c \in Members \ (sealed \cup closed)
  /\ work' = [work EXCEPT ![w] = "running"] /\ on' = [on EXCEPT ![w] = c]
  /\ UNCHANGED <<scopeVars, clientVars, verdict, woken, req>>

\* A work makes a client: start() dials, and a pool that is stopping asks the
\* new member to retire in the same turn.
WorkCreates(w, c) ==
  /\ woken = {} /\ work[w] = "running" /\ on[w] = NoClient
  /\ link[c] = "absent"
  /\ link' = [link EXCEPT ![c] = "dialling"]
  /\ on' = [on EXCEPT ![w] = c]
  /\ IF phase = "stopping" THEN stopping' = stopping \cup {c} /\ WakeAll
                           ELSE UNCHANGED <<stopping, woken>>
  /\ UNCHANGED <<scopeVars, verdict, closed, sealed, closing, work, req>>

\* poolClient(): a work takes a member up; one whose admission is closed only
\* under an ancestor that holds it.
WorkBinds(w, c) ==
  /\ woken = {} /\ work[w] = "running" /\ on[w] = NoClient
  /\ c \in Members \ sealed
  /\ c \in closed => \E v \in ActiveWork : on[v] = c
  /\ on' = [on EXCEPT ![w] = c]
  /\ UNCHANGED <<scopeVars, clientVars, verdict, woken, work, req>>

\* refuseIndependent(): a live producer may until the seal; a caller without
\* one may until the admission closes.
MayRequest(x, c) == c \notin sealed /\ (x \in Works \/ c \notin closed)

\* A caller that may call request() now; whatever comes of it.
Asks(x, c) ==
  /\ woken = {} /\ req[x] = "none" /\ c \in Members
  /\ x \in Works => work[x] = "running" /\ on[x] = c
  /\ on' = [on EXCEPT ![x] = c]
  /\ UNCHANGED <<scopeVars, verdict, stopping, closed, sealed, closing, work>>

\* request() on a connected client is sent.
RequestSent(x, c) ==
  /\ Asks(x, c) /\ MayRequest(x, c) /\ link[c] = "up"
  /\ req' = [req EXCEPT ![x] = "pending"]
  /\ UNCHANGED <<link, woken>>

\* ensureConnected(): wait for the dial, for the timer that will dial, or for the
\* dial that start() begins.
RequestParked(x, c) ==
  /\ Asks(x, c) /\ MayRequest(x, c)
  /\ \/ link[c] \in {"waiting", "dialling"}
     \/ link[c] = "down" /\ c \notin stopping
  /\ req' = [req EXCEPT ![x] = "parked"]
  /\ link' = [link EXCEPT ![c] = IF @ = "down" THEN "dialling" ELSE @]
  /\ UNCHANGED woken

\* Refused: by the closed admission, by a starting daemon, or because a stopping
\* client will not dial again.
RequestRefused(x, c) ==
  /\ Asks(x, c)
  /\ \/ ~MayRequest(x, c)
     \/ link[c] = "starting"
     \/ link[c] = "down" /\ c \in stopping
  /\ req' = [req EXCEPT ![x] = "settled"]
  /\ Wake(c) /\ UNCHANGED link

\* A request is answered or times out.
Settles(x) ==
  /\ woken = {} /\ req[x] = "pending"
  /\ req' = [req EXCEPT ![x] = "settled"] /\ Wake(on[x])
  /\ UNCHANGED <<scopeVars, clientVars, verdict, work, on>>

\* A work ends once the request it awaits has.
WorkEnds(w) ==
  /\ woken = {} /\ work[w] = "running" /\ req[w] \in {"none", "settled"}
  /\ work' = [work EXCEPT ![w] = "done"] /\ WakeAll
  /\ UNCHANGED <<scopeVars, clientVars, verdict, on, req>>

-----------------------------------------------------------------------------
(* Connections.                                                            *)

\* finishConnect(): the waiters go on to send their requests.
Connects(c) ==
  /\ woken = {} /\ link[c] \in {"dialling", "starting"}
  /\ link' = [link EXCEPT ![c] = "up"]
  /\ req' = [x \in Callers |-> IF on[x] = c /\ req[x] = "parked" THEN "pending"
                               ELSE req[x]]
  /\ Wake(c)
  /\ UNCHANGED <<scopeVars, verdict, stopping, closed, sealed, closing,
                 work, on>>

\* enterStartup(): wait for the daemon, or give up when stopping.
DaemonStarts(c) ==
  /\ woken = {} /\ link[c] = "dialling"
  /\ link' = [link EXCEPT ![c] = IF c \in stopping THEN "down" ELSE "starting"]
  /\ req' = Failing(c, {"parked"})
  /\ closing' = IF c \in stopping THEN closing \cup {c} ELSE closing
  /\ IF c \in stopping THEN Wake(c) ELSE UNCHANGED woken
  /\ UNCHANGED <<scopeVars, verdict, stopping, closed, sealed, work, on>>

\* onConnectionFailure(): everything on the client fails and the reconnect is
\* scheduled, unless credentials were rejected or the client is stopping.  Only
\* a stopping client's socket is still watched for its close.
Drops(c) ==
  /\ woken = {} /\ link[c] \in {"dialling", "starting", "up"}
  /\ link' \in {[link EXCEPT ![c] = l] :
                  l \in IF c \in stopping THEN {"down"} ELSE {"down", "waiting"}}
  /\ req' = Failing(c, {"parked", "pending"})
  /\ closing' = IF c \in stopping THEN closing \cup {c} ELSE closing
  /\ Wake(c)
  /\ UNCHANGED <<scopeVars, verdict, stopping, closed, sealed, work, on>>

\* The reconnect timer fires.
Redials(c) ==
  /\ woken = {} /\ link[c] = "waiting"
  /\ link' = [link EXCEPT ![c] = "dialling"]
  /\ UNCHANGED <<scopeVars, verdict, woken, stopping, closed, sealed, closing,
                 work, on, req>>

\* The close event of a destroyed socket.
SocketCloses(c) ==
  /\ woken = {} /\ c \in closing
  /\ closing' = closing \ {c} /\ Wake(c)
  /\ UNCHANGED <<scopeVars, verdict, link, stopping, closed, sealed, work,
                 on, req>>

-----------------------------------------------------------------------------
(* Retirement.                                                             *)

\* retireMember() of a client of an active pool.
RetiresMember(c) ==
  /\ woken = {} /\ phase = "active" /\ c \in Members /\ verdict[c] = "none"
  /\ verdict' = [verdict EXCEPT ![c] = "pending"]
  /\ closed' = closed \cup {c} /\ stopping' = stopping \cup {c}
  /\ link' = LinkStopped({c}) /\ req' = ReqStopped({c})
  /\ closing' = ClosingStopped({c}) /\ woken' = {c}
  /\ UNCHANGED <<scopeVars, sealed, work, on>>

\* retire() of the pool; on macOS the keychain engine is never joined.
RetiresPool ==
  /\ woken = {} /\ phase = "active"
  /\ phase' = "stopping" /\ verdict' = [verdict EXCEPT ![Pool] = "pending"]
  /\ stopping' = stopping \cup Members
  /\ link' = LinkStopped(Members) /\ req' = ReqStopped(Members)
  /\ closing' = ClosingStopped(Members)
  /\ \/ excluded' = TRUE /\ woken' = Listening \cup {Pool}
     \/ woken' = {Pool} /\ UNCHANGED excluded
  /\ UNCHANGED <<fenced, closed, joined, sealed, work, on>>

\* poolAuxiliary(): work that retirement cannot join, refused once sealed.
AuxiliaryStarts ==
  /\ woken = {} /\ ~excluded
  /\ excluded' = TRUE /\ WakeAll
  /\ UNCHANGED <<phase, fenced, joined, clientVars, verdict, work, on, req>>

\* The fence given to retire() becomes ready.
FenceOpens ==
  /\ woken = {} /\ phase # "active" /\ ~fenced
  /\ fenced' = TRUE /\ woken' = Listening \cap {Pool}
  /\ UNCHANGED <<phase, excluded, joined, clientVars, verdict, work, on, req>>

\* The disconnect side effects of a retiring member have ended, and the fence
\* given to retireMember() is ready: the last of the two counts.
MemberJoins(c) ==
  /\ woken = {} /\ verdict[c] # "none" /\ c \notin joined
  /\ joined' = joined \cup {c} /\ WakeAll
  /\ UNCHANGED <<phase, fenced, excluded, clientVars, verdict, work, on, req>>

\* A check throws: the retirement is refused and its check unsubscribed.
Refuses(p) ==
  /\ verdict' = [verdict EXCEPT ![p] = "rejected"]
  /\ excluded' = TRUE
  /\ UNCHANGED <<phase, fenced, joined, clientVars>>

\* seal() and finish() of these clients: disposed, their sockets destroyed.
Seals(cs) ==
  /\ sealed' = sealed \cup cs
  /\ closing' = closing \cup {c \in cs \ sealed : link[c] = "up"}
  /\ link' = [c \in Clients |-> IF c \in cs THEN "down" ELSE link[c]]
  /\ stopping' = stopping \cup cs
  /\ UNCHANGED <<closed, fenced, joined, excluded>>

\* What a member's own retirement waits for.
MemberReady(c) == c \in joined /\ Drained(c)

\* Mutant of MemberSeals: a member goes ahead of a pool that is stopping.
MemberAlwaysSeals == TRUE

\* A stopping pool seals all its members together.
MemberSeals == phase = "active"

\* The member's wake(): wait, refuse, seal, take up the end of a sealing that the
\* pool began, or leave the sealing to the pool.
MemberWakes(c) ==
  /\ c \in woken \ {Pool} /\ woken' = woken \ {c}
  /\ IF ~MemberReady(c) THEN UNCHANGED <<scopeVars, clientVars, verdict>>
     ELSE IF excluded \/ ExecsOn({c}) THEN Refuses(c)
     ELSE IF c \in sealed
     THEN verdict' = [verdict EXCEPT ![c] = "ending"]
          /\ UNCHANGED <<scopeVars, clientVars>>
     ELSE IF MemberSeals
     THEN Seals({c}) /\ verdict' = [verdict EXCEPT ![c] = "ending"]
          /\ UNCHANGED phase
     ELSE UNCHANGED <<scopeVars, clientVars, verdict>>
  /\ UNCHANGED <<work, on, req>>

\* What the pool's retirement waits for: no owner, the fence, and every
\* member's joined disconnect and drained ticket.
PoolReady ==
  /\ ActiveWork = {} /\ fenced
  /\ \A c \in Members : /\ verdict[c] # "none" => c \in joined
                        /\ Drained(c)

\* The pool's wake(), after those of the members: all the members are sealed in
\* the turn that finds them ready.
PoolWakes ==
  /\ woken = {Pool} /\ woken' = {}
  /\ IF phase # "stopping" \/ ~PoolReady
     THEN UNCHANGED <<scopeVars, clientVars, verdict>>
     ELSE IF excluded \/ ExecsOn(Members) THEN Refuses(Pool)
     ELSE phase' = "sealed" /\ Seals(Members) /\ UNCHANGED verdict
  /\ UNCHANGED <<work, on, req>>

\* Mutant of SocketsClosed: the retirement ends before its sockets have.
SocketsUnwatched(cs) == TRUE

\* finishRetirement(): every destroyed socket has been seen to close.
SocketsClosed(cs) == cs \cap closing = {}

\* The promise of a sealed member resolves, once its own check has taken up the
\* end of the sealing.
MemberFinishes(c) ==
  /\ woken = {} /\ verdict[c] = "ending" /\ SocketsClosed({c})
  /\ verdict' = [verdict EXCEPT ![c] = "resolved"]
  /\ woken' = Listening
  /\ UNCHANGED <<scopeVars, clientVars, work, on, req>>

\* The promise of the sealed pool resolves.
PoolFinishes ==
  /\ woken = {} /\ phase = "sealed" /\ SocketsClosed(Members)
  /\ phase' = "finished" /\ verdict' = [verdict EXCEPT ![Pool] = "resolved"]
  /\ woken' = Listening \ {Pool}
  /\ UNCHANGED <<fenced, excluded, joined, clientVars, work, on, req>>

-----------------------------------------------------------------------------

WorkStep(w) ==
  \/ WorkStarts(w) \/ WorkEnds(w)
  \/ \E c \in Clients : CallbackStarts(w, c) \/ WorkCreates(w, c)
                           \/ WorkBinds(w, c)

RequestStep(x) ==
  \/ Settles(x)
  \/ \E c \in Clients : \/ RequestSent(x, c) \/ RequestParked(x, c)
                        \/ RequestRefused(x, c)

LinkStep(c) ==
  Connects(c) \/ DaemonStarts(c) \/ Drops(c) \/ Redials(c) \/ SocketCloses(c)

RetireStep(c) ==
  RetiresMember(c) \/ MemberJoins(c) \/ MemberWakes(c) \/ MemberFinishes(c)

RetNext ==
  \/ \E w \in Works : WorkStep(w)
  \/ \E x \in Callers : RequestStep(x)
  \/ \E c \in Clients : LinkStep(c) \/ RetireStep(c)
  \/ RetiresPool \/ FenceOpens \/ PoolWakes \/ PoolFinishes \/ AuxiliaryStarts

RetSpec == RetInit /\ [][RetNext]_retVars

\* Timers fire, dials end, answers come, work ends, fences open and the sockets
\* that were destroyed close; a check runs in the turn that wakes it.
RetFairness ==
  /\ \A c \in Clients :
       /\ WF_retVars(Connects(c) \/ Drops(c))
       /\ WF_retVars(Redials(c)) /\ WF_retVars(SocketCloses(c))
       /\ WF_retVars(MemberJoins(c))
       /\ WF_retVars(MemberWakes(c)) /\ WF_retVars(MemberFinishes(c))
  /\ \A x \in Callers : WF_retVars(Settles(x))
  /\ \A w \in Works : WF_retVars(WorkEnds(w))
  /\ WF_retVars(FenceOpens) /\ WF_retVars(PoolWakes)
  /\ WF_retVars(PoolFinishes)

RetFairSpec == RetSpec /\ RetFairness

-----------------------------------------------------------------------------
(* Properties.                                                             *)

Phases == {"active", "stopping", "sealed", "finished"}
Links == {"absent", "down", "waiting", "dialling", "starting", "up"}

\* Every variable stays in its range (the state of the pool's lifecycle).
RetTypeOK ==
  /\ phase \in Phases /\ excluded \in BOOLEAN
  /\ verdict \in [Parties ->
                   {"none", "pending", "ending", "resolved", "rejected"}]
  /\ woken \subseteq Parties /\ fenced \in BOOLEAN
  /\ link \in [Clients -> Links]
  /\ stopping \subseteq Clients /\ closed \subseteq Clients
  /\ joined \subseteq Clients
  /\ sealed \subseteq Clients /\ closing \subseteq Clients
  /\ work \in [Works -> {"idle", "running", "done"}]
  /\ on \in [Callers -> Clients \cup {NoClient}]
  /\ req \in [Callers -> {"none", "parked", "pending", "settled"}]

\* A sealed client is silent for ever: no work holds it, no request of it waits
\* or is answered later, and it has no connection (the ticket's drained() fence).
SealedIsSilent ==
  \A c \in sealed :
    /\ link[c] = "down" /\ Waiting(c) = {}
    /\ \A w \in ActiveWork : on[w] # c

\* Once the pool is sealed no admitted work remains and every member is sealed:
\* "No await, dispatch or teardown between the final fence and ALL admission
\* seals" (backend.ipc.ts:1006).  A retirement that reports its end has seen every
\* socket close.
BarrierHolds ==
  /\ phase \in {"sealed", "finished"} => ActiveWork = {} /\ sealed = Members
  /\ phase = "finished" => closing = {}
  /\ \A c \in Clients : verdict[c] = "resolved" => c \notin closing

\* While the pool is stopping no client is disposed ahead of another: a sibling's
\* release may still need it (P6, "seals every sibling first").
SealedTogether ==
  [][phase = "stopping" /\ sealed' # sealed => sealed' = Members']_retVars

\* A request that waits for a connection no one will open: its client was asked
\* to retire while the reconnect timer it waits for was armed.
Stranded ==
  \E x \in Callers : req[x] = "parked" /\ link[on[x]] = "down"

\* retire() comes to an end.
RetirementSettles == verdict[Pool] = "pending" ~> verdict[Pool] # "pending"

\* retire() and every retireMember() come to an end: no missed wake-up, no check
\* that waits for the other.  Exempt are a stranded request and a member whose
\* sealing was left to a retire() that was then refused (see README, divergences).
RetirementsSettle ==
  []<>(\A p \in Parties :
         verdict[p] \in {"pending", "ending"} =>
           Stranded \/ (p # Pool /\ verdict[Pool] = "rejected"))

=============================================================================
