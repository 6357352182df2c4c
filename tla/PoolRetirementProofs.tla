------------------------ MODULE PoolRetirementProofs ------------------------
(***************************************************************************)
(* What holds of the retirement of a pool for any clients, works and       *)
(* calls: it is well typed, a sealed client is silent, the pool is sealed  *)
(* only once all admitted work has ended and all members are sealed in the *)
(* same turn.                                                              *)
(***************************************************************************)
EXTENDS PoolRetirement, TLAPS

-----------------------------------------------------------------------------
(* Types.                                                                  *)

\* A work that starts, binds or ends keeps the types.
LEMMA WorkTyped ==
  ASSUME RetTypeOK, NEW w \in Works, WorkStep(w) PROVE RetTypeOK'
<1>1. CASE WorkStarts(w)
  BY <1>1 DEF WorkStarts, RetTypeOK, scopeVars, clientVars
<1>2. CASE WorkEnds(w)
  BY <1>2 DEF WorkEnds, RetTypeOK, scopeVars, clientVars, WakeAll, Listening
<1>3. ASSUME NEW c \in Clients, CallbackStarts(w, c) PROVE RetTypeOK'
  BY <1>3 DEF CallbackStarts, RetTypeOK, scopeVars, clientVars
<1>4. ASSUME NEW c \in Clients, WorkCreates(w, c) PROVE RetTypeOK'
  <2>1. link' \in [Clients -> Links] /\ on' \in [Callers -> Clients \cup {NoClient}]
    BY <1>4 DEF WorkCreates, RetTypeOK, Links
  <2>2. stopping' \subseteq Clients /\ woken' \subseteq Parties
    BY <1>4 DEF WorkCreates, RetTypeOK, WakeAll, Listening
  <2>3. QED BY <1>4, <2>1, <2>2 DEF WorkCreates, RetTypeOK, scopeVars
<1>5. ASSUME NEW c \in Clients, WorkBinds(w, c) PROVE RetTypeOK'
  BY <1>5 DEF WorkBinds, RetTypeOK, scopeVars, clientVars
<1>6. QED BY <1>1, <1>2, <1>3, <1>4, <1>5 DEF WorkStep

\* A request keeps the types.
LEMMA RequestTyped ==
  ASSUME RetTypeOK, NEW x \in Callers, RequestStep(x) PROVE RetTypeOK'
<1>1. CASE Settles(x)
  BY <1>1 DEF Settles, RetTypeOK, scopeVars, clientVars, Wake, Listening
<1>2. ASSUME NEW c \in Clients, Asks(x, c), link' \in [Clients -> Links],
             req' \in [Callers -> {"none", "parked", "pending", "settled"}],
             woken' \subseteq Parties
      PROVE  RetTypeOK'
  BY <1>2 DEF Asks, RetTypeOK, scopeVars
<1>3. ASSUME NEW c \in Clients, RequestSent(x, c) PROVE RetTypeOK'
  BY <1>2, <1>3 DEF RequestSent, RetTypeOK
<1>4. ASSUME NEW c \in Clients, RequestParked(x, c) PROVE RetTypeOK'
  BY <1>2, <1>4 DEF RequestParked, RetTypeOK, Links
<1>5. ASSUME NEW c \in Clients, RequestRefused(x, c) PROVE RetTypeOK'
  BY <1>2, <1>5 DEF RequestRefused, RetTypeOK, Wake, Listening
<1>6. QED BY <1>1, <1>3, <1>4, <1>5 DEF RequestStep

\* A connection that changes keeps the types.
LEMMA LinkTyped ==
  ASSUME RetTypeOK, NEW c \in Clients, LinkStep(c) PROVE RetTypeOK'
<1>0. \A states : Failing(c, states) \in [Callers -> {"none", "parked", "pending", "settled"}]
  BY DEF Failing, RetTypeOK
<1>1. CASE Connects(c)
  <2>1. link' \in [Clients -> Links] /\ woken' \subseteq Parties
        /\ req' \in [Callers -> {"none", "parked", "pending", "settled"}]
    BY <1>1 DEF Connects, RetTypeOK, Links, Wake, Listening
  <2>2. QED BY <1>1, <2>1 DEF Connects, RetTypeOK, scopeVars
<1>2. CASE DaemonStarts(c)
  <2>1. link' \in [Clients -> Links] /\ woken' \subseteq Parties /\ closing' \subseteq Clients
    BY <1>2 DEF DaemonStarts, RetTypeOK, Links, Wake, Listening
  <2>2. QED BY <1>0, <1>2, <2>1 DEF DaemonStarts, RetTypeOK, scopeVars
<1>3. CASE Drops(c)
  <2>1. link' \in [Clients -> Links] /\ woken' \subseteq Parties /\ closing' \subseteq Clients
    BY <1>3 DEF Drops, RetTypeOK, Links, Wake, Listening
  <2>2. QED BY <1>0, <1>3, <2>1 DEF Drops, RetTypeOK, scopeVars
<1>4. CASE Redials(c)
  BY <1>4 DEF Redials, RetTypeOK, scopeVars, Links
<1>5. CASE SocketCloses(c)
  BY <1>5 DEF SocketCloses, RetTypeOK, scopeVars, Wake, Listening
<1>6. QED BY <1>1, <1>2, <1>3, <1>4, <1>5 DEF LinkStep

\* What beginRetirement() leaves of the clients it is asked of.
LEMMA StoppedTyped ==
  ASSUME RetTypeOK, NEW cs \in SUBSET Clients
  PROVE  /\ LinkStopped(cs) \in [Clients -> Links]
         /\ ReqStopped(cs) \in [Callers -> {"none", "parked", "pending", "settled"}]
         /\ ClosingStopped(cs) \subseteq Clients
  BY DEF LinkStopped, ReqStopped, ClosingStopped, RetTypeOK, Links

\* seal() of clients.
LEMMA SealsTyped ==
  ASSUME RetTypeOK, NEW cs \in SUBSET Clients, Seals(cs), phase' \in Phases,
         verdict' \in [Parties ->
                        {"none", "pending", "ending", "resolved", "rejected"}],
         woken' \subseteq Parties, UNCHANGED <<work, on, req>>
  PROVE  RetTypeOK'
<1>1. link' \in [Clients -> Links]
  BY DEF Seals, RetTypeOK, Links
<1>2. QED BY <1>1 DEF Seals, RetTypeOK

\* A retirement that is refused keeps the types.
LEMMA RefusesTyped ==
  ASSUME RetTypeOK, NEW p \in Parties, Refuses(p), woken' \subseteq Parties,
         UNCHANGED <<work, on, req>>
  PROVE  RetTypeOK'
  BY DEF Refuses, RetTypeOK, clientVars

\* A member's retirement keeps the types.
LEMMA RetireTyped ==
  ASSUME RetTypeOK, NEW c \in Clients, RetireStep(c) PROVE RetTypeOK'
<1>0. c \in Parties
  BY DEF Parties
<1>1. CASE RetiresMember(c)
  BY <1>0, <1>1, StoppedTyped DEF RetiresMember, RetTypeOK, scopeVars
<1>2. CASE MemberJoins(c)
  BY <1>2 DEF MemberJoins, RetTypeOK, clientVars, WakeAll, Listening
<1>3. CASE MemberWakes(c)
  <2>1. woken' \subseteq Parties /\ UNCHANGED <<work, on, req>>
    BY <1>3 DEF MemberWakes, RetTypeOK
  <2>2. CASE Refuses(c)
    BY <1>0, <2>1, <2>2, RefusesTyped
  <2>3. CASE Seals({c}) /\ verdict' = [verdict EXCEPT ![c] = "ending"]
             /\ UNCHANGED phase
    BY <1>0, <2>1, <2>3, SealsTyped DEF RetTypeOK
  <2>4. CASE UNCHANGED <<scopeVars, clientVars, verdict>>
    BY <2>1, <2>4 DEF RetTypeOK, scopeVars, clientVars
  <2>5. CASE verdict' = [verdict EXCEPT ![c] = "ending"]
             /\ UNCHANGED <<scopeVars, clientVars>>
    BY <1>0, <2>1, <2>5 DEF RetTypeOK, scopeVars, clientVars
  <2>6. QED BY <1>3, <2>2, <2>3, <2>4, <2>5 DEF MemberWakes
<1>4. CASE MemberFinishes(c)
  BY <1>0, <1>4 DEF MemberFinishes, RetTypeOK, scopeVars, clientVars, Listening
<1>5. QED BY <1>1, <1>2, <1>3, <1>4 DEF RetireStep

\* The pool's retirement keeps the types.
LEMMA PoolTypedStep ==
  ASSUME RetTypeOK, RetiresPool \/ FenceOpens \/ PoolWakes \/ PoolFinishes \/ AuxiliaryStarts
  PROVE  RetTypeOK'
<1>0. Pool \in Parties /\ Members \in SUBSET Clients
  BY DEF Parties, Members
<1>1. CASE RetiresPool
  <2>1. woken' \subseteq Parties /\ excluded' \in BOOLEAN
    BY <1>0, <1>1 DEF RetiresPool, RetTypeOK, Listening
  <2>2. QED BY <1>0, <1>1, <2>1, StoppedTyped DEF RetiresPool, RetTypeOK, Phases
<1>2. CASE FenceOpens
  BY <1>2 DEF FenceOpens, RetTypeOK, clientVars, Listening
<1>3. CASE PoolWakes
  <2>1. woken' \subseteq Parties /\ UNCHANGED <<work, on, req>>
    BY <1>3 DEF PoolWakes, RetTypeOK
  <2>2. CASE Refuses(Pool)
    BY <1>0, <2>1, <2>2, RefusesTyped
  <2>3. CASE phase' = "sealed" /\ Seals(Members) /\ UNCHANGED verdict
    BY <1>0, <2>1, <2>3, SealsTyped DEF Phases, RetTypeOK
  <2>4. CASE UNCHANGED <<scopeVars, clientVars, verdict>>
    BY <2>1, <2>4 DEF RetTypeOK, scopeVars, clientVars
  <2>5. QED BY <1>3, <2>2, <2>3, <2>4 DEF PoolWakes
<1>4. CASE PoolFinishes
  BY <1>0, <1>4 DEF PoolFinishes, RetTypeOK, clientVars, Listening, Phases
<1>5. CASE AuxiliaryStarts
  BY <1>5 DEF AuxiliaryStarts, RetTypeOK, clientVars, WakeAll, Listening
<1>6. QED BY <1>1, <1>2, <1>3, <1>4, <1>5

\* The lifecycle of the pool stays well typed (enrollBackendClientLifecycle and
\* the members' tickets).
THEOREM RetirementTyped == RetSpec => []RetTypeOK
<1>1. ASSUME RetInit PROVE RetTypeOK
  <2>1. link \in [Clients -> Links]
    BY <1>1 DEF RetInit, Links
  <2>2. on \in [Callers -> Clients \cup {NoClient}] /\ phase \in Phases
    BY <1>1 DEF RetInit, Phases
  <2>3. QED BY <1>1, <2>1, <2>2 DEF RetInit, RetTypeOK
<1>2. RetTypeOK /\ [RetNext]_retVars => RetTypeOK'
  <2> SUFFICES ASSUME RetTypeOK, [RetNext]_retVars PROVE RetTypeOK'
    OBVIOUS
  <2>1. CASE RetNext
    BY <2>1, WorkTyped, RequestTyped, LinkTyped, RetireTyped, PoolTypedStep DEF RetNext
  <2>2. CASE UNCHANGED retVars
    BY <2>2 DEF retVars, RetTypeOK
  <2>3. QED BY <2>1, <2>2
<1>3. QED BY <1>1, <1>2, PTL DEF RetSpec

-----------------------------------------------------------------------------
(* The barrier.                                                            *)

\* A work that has not begun is bound to no client.
IdleIsUnbound == \A w \in Works : work[w] = "idle" => on[w] = NoClient

\* A member whose retirement is ending or has resolved is sealed.
ResolvedIsSealed ==
  \A c \in Clients : verdict[c] \in {"ending", "resolved"} => c \in sealed

\* A step at which no member's retirement comes to its end.
EndsNobody ==
  \A c \in Clients :
    verdict'[c] \in {"ending", "resolved"} => verdict'[c] = verdict[c]

\* Only a member is asked to retire, joins its retirement's fence, or has a socket.
AskedAreMembers ==
  \A c \in Clients :
    verdict[c] # "none" \/ c \in joined \/ c \in closing => c \in Members

RetInv ==
  RetTypeOK /\ IdleIsUnbound /\ ResolvedIsSealed /\ SealedIsSilent /\ BarrierHolds

\* A sealed client is a member, and silent.
LEMMA OfSealed ==
  ASSUME RetInv, NEW c \in sealed
  PROVE  /\ c \in Members /\ link[c] = "down"
         /\ \A x \in Callers : on[x] = c => req[x] \notin {"parked", "pending"}
         /\ \A w \in Works : work[w] = "running" => on[w] # c
  BY DEF RetInv, RetTypeOK, SealedIsSilent, Members, Waiting, ActiveWork

\* A step that seals nothing keeps the sealed silent when it leaves their links
\* down and binds no work and no open request to them.
LEMMA StaysSilent ==
  ASSUME RetInv, sealed' = sealed,
         \A c \in sealed :
           /\ link'[c] = "down"
           /\ \A x \in Callers :
                on'[x] = c /\ req'[x] \in {"parked", "pending"} =>
                  on[x] = c /\ req[x] \in {"parked", "pending"}
           /\ \A w \in Works :
                on'[w] = c /\ work'[w] = "running" => on[w] = c /\ work[w] = "running"
  PROVE  SealedIsSilent'
<1> SUFFICES ASSUME NEW c \in sealed
             PROVE  /\ link'[c] = "down" /\ Waiting(c)' = {}
                    /\ \A w \in ActiveWork' : on'[w] # c
  BY DEF SealedIsSilent
<1>1. Waiting(c)' = {}
  BY OfSealed DEF Waiting
<1>2. \A w \in ActiveWork' : on'[w] # c
  BY OfSealed DEF ActiveWork
<1>3. QED BY <1>1, <1>2

\* A step of an active or stopping pool that seals nothing, destroys the sockets of
\* clients that are not sealed and ends no retirement keeps the barrier.
LEMMA StaysBehind ==
  ASSUME RetInv, sealed' = sealed, phase' = phase,
         phase \in {"sealed", "finished"} => ActiveWork' = {} /\ Members' = Members,
         closing' \cap sealed \subseteq closing,
         phase = "finished" => closing' = {},
         EndsNobody
  PROVE  BarrierHolds' /\ ResolvedIsSealed'
<1>1. ResolvedIsSealed'
  BY DEF RetInv, ResolvedIsSealed, EndsNobody
<1>2. BarrierHolds'
  BY DEF RetInv, BarrierHolds, ResolvedIsSealed, EndsNobody
<1>3. QED BY <1>1, <1>2

\* Behind the barrier there is no work, and every member is sealed.
LEMMA Behind ==
  ASSUME RetInv, phase \in {"sealed", "finished"}
  PROVE  /\ \A w \in Works : work[w] # "running"
         /\ \A c \in Clients : link[c] \in {"absent", "down"}
         /\ Members = sealed
<1>1. ActiveWork = {} /\ sealed = Members
  BY DEF RetInv, BarrierHolds
<1>2. \A c \in Members : link[c] = "down"
  BY <1>1, OfSealed
<1>3. QED BY <1>1, <1>2 DEF ActiveWork, Members

\* No work starts behind the barrier or on a sealed client.
LEMMA WorkInv ==
  ASSUME RetInv, RetTypeOK', NEW w \in Works, WorkStep(w) PROVE RetInv'
<1> USE DEF RetTypeOK, EndsNobody
<1>0. w \in Callers /\ \A c \in Clients : c # NoClient
  BY RetirementAssumption DEF Callers, RetirementAssumption
<1>1. CASE WorkStarts(w)
  <2>1. on[w] = NoClient
    BY <1>1 DEF WorkStarts, RetInv, IdleIsUnbound
  <2>2. IdleIsUnbound' /\ phase \notin {"sealed", "finished"}
    BY <1>1, Behind DEF WorkStarts, RetInv, IdleIsUnbound, Admitted, ActiveWork
  <2>3. SealedIsSilent'
    BY <1>0, <1>1, <2>1, OfSealed, StaysSilent DEF WorkStarts, clientVars, RetInv
  <2>4. BarrierHolds' /\ ResolvedIsSealed'
    BY <1>1, <2>2, StaysBehind DEF WorkStarts, scopeVars, clientVars
  <2>5. QED BY <2>2, <2>3, <2>4 DEF RetInv
<1>2. CASE WorkEnds(w)
  <2>1. IdleIsUnbound'
    BY <1>2 DEF WorkEnds, RetInv, IdleIsUnbound
  <2>2. SealedIsSilent'
    BY <1>2, OfSealed, StaysSilent DEF WorkEnds, clientVars, RetInv
  <2>3. phase \notin {"sealed", "finished"}
    BY <1>2, Behind DEF WorkEnds
  <2>4. BarrierHolds' /\ ResolvedIsSealed'
    BY <1>2, <2>3, StaysBehind DEF WorkEnds, scopeVars, clientVars
  <2>5. QED BY <2>1, <2>2, <2>4 DEF RetInv
<1>3. ASSUME NEW c \in Clients, CallbackStarts(w, c) PROVE RetInv'
  <2>1. IdleIsUnbound'
    BY <1>3 DEF CallbackStarts, RetInv, IdleIsUnbound, Callers
  <2>2. c \notin sealed /\ phase \notin {"sealed", "finished"}
    BY <1>3 DEF CallbackStarts
  <2>3. SealedIsSilent'
    BY <1>0, <1>3, <2>2, OfSealed, StaysSilent DEF CallbackStarts, clientVars, RetInv, Callers
  <2>4. BarrierHolds' /\ ResolvedIsSealed'
    BY <1>3, <2>2, StaysBehind DEF CallbackStarts, scopeVars, clientVars
  <2>5. QED BY <2>1, <2>3, <2>4 DEF RetInv
<1>4. ASSUME NEW c \in Clients, WorkCreates(w, c) PROVE RetInv'
  <2>1. IdleIsUnbound'
    BY <1>4 DEF WorkCreates, RetInv, IdleIsUnbound, Callers
  <2>2. c \notin sealed /\ phase \notin {"sealed", "finished"}
    BY <1>4, OfSealed, Behind DEF WorkCreates
  <2>3. SealedIsSilent'
    BY <1>0, <1>4, <2>2, OfSealed, StaysSilent DEF WorkCreates, RetInv, Callers
  <2>4. BarrierHolds' /\ ResolvedIsSealed'
    BY <1>4, <2>2, StaysBehind DEF WorkCreates, scopeVars
  <2>5. QED BY <2>1, <2>3, <2>4 DEF RetInv
<1>5. ASSUME NEW c \in Clients, WorkBinds(w, c) PROVE RetInv'
  <2>1. IdleIsUnbound'
    BY <1>5 DEF WorkBinds, RetInv, IdleIsUnbound, Callers
  <2>2. c \notin sealed /\ phase \notin {"sealed", "finished"}
    BY <1>5, Behind DEF WorkBinds
  <2>3. SealedIsSilent'
    BY <1>0, <1>5, <2>2, OfSealed, StaysSilent DEF WorkBinds, clientVars, RetInv, Callers
  <2>4. BarrierHolds' /\ ResolvedIsSealed'
    BY <1>5, <2>2, StaysBehind DEF WorkBinds, scopeVars, clientVars
  <2>5. QED BY <2>1, <2>3, <2>4 DEF RetInv
<1>6. QED BY <1>1, <1>2, <1>3, <1>4, <1>5 DEF WorkStep

\* No request is made of a sealed client.
LEMMA RequestInv ==
  ASSUME RetInv, RetTypeOK', NEW x \in Callers, RequestStep(x) PROVE RetInv'
<1> USE DEF RetTypeOK, EndsNobody
<1>0. \A c \in Clients : c # NoClient
  BY RetirementAssumption DEF RetirementAssumption
<1>1. CASE Settles(x)
  <2>1. IdleIsUnbound'
    BY <1>1 DEF Settles, RetInv, IdleIsUnbound
  <2>2. SealedIsSilent'
    BY <1>1, OfSealed, StaysSilent DEF Settles, clientVars, RetInv
  <2>3. BarrierHolds' /\ ResolvedIsSealed'
    BY <1>1, Behind, StaysBehind
       DEF Settles, scopeVars, clientVars, Members, ActiveWork, RetInv, BarrierHolds
  <2>4. QED BY <2>1, <2>2, <2>3 DEF RetInv
<1>2. ASSUME NEW c \in Clients, Asks(x, c),
             RequestSent(x, c) \/ RequestParked(x, c) \/ RequestRefused(x, c)
      PROVE  RetInv'
  <2>1. IdleIsUnbound'
    BY <1>2 DEF Asks, RetInv, IdleIsUnbound
  <2>2. \/ RequestRefused(x, c) /\ req'[x] = "settled" /\ link' = link
        \/ c \notin sealed
    BY <1>2 DEF RequestSent, RequestParked, RequestRefused, MayRequest, RetInv
  <2>3. /\ \A y \in Callers \ {x} : on'[y] = on[y] /\ req'[y] = req[y]
        /\ on'[x] = c
        /\ \A d \in Clients \ {c} : link'[d] = link[d]
    BY <1>2 DEF Asks, RequestSent, RequestParked, RequestRefused, RetInv
  <2>4. SealedIsSilent'
    <3>1. ASSUME NEW d \in sealed, NEW w \in Works, on'[w] = d, work'[w] = "running"
          PROVE  on[w] = d /\ work[w] = "running"
      BY <1>2, <2>3, <3>1 DEF Asks, Callers
    <3>2. ASSUME NEW d \in sealed, NEW y \in Callers, on'[y] = d,
                 req'[y] \in {"parked", "pending"}
          PROVE  on[y] = d /\ req[y] \in {"parked", "pending"}
      BY <2>2, <2>3, <3>2
    <3>3. \A d \in sealed : link'[d] = "down"
      BY <2>2, <2>3, OfSealed DEF RetInv
    <3>4. sealed' = sealed
      BY <1>2 DEF Asks
    <3>5. QED BY <3>1, <3>2, <3>3, <3>4, StaysSilent
  <2>5. ASSUME phase \in {"sealed", "finished"} PROVE link' = link /\ ActiveWork' = {}
    <3>1. c \in sealed
      BY <1>2, <2>5, Behind DEF Asks
    <3>2. QED BY <1>2, <2>2, <2>5, <3>1, Behind DEF Asks, ActiveWork
  <2>6. BarrierHolds' /\ ResolvedIsSealed'
    <3>1. UNCHANGED <<phase, sealed, closing, verdict>>
      BY <1>2 DEF Asks, scopeVars
    <3>2. QED BY <3>1, <2>5, StaysBehind DEF Members, RetInv, BarrierHolds
  <2>7. QED BY <2>1, <2>4, <2>6 DEF RetInv
<1>3. QED BY <1>1, <1>2 DEF RequestStep, RequestSent, RequestParked, RequestRefused

\* No sealed client connects.
LEMMA LinkInv ==
  ASSUME RetInv, RetTypeOK', NEW c \in Clients, LinkStep(c) PROVE RetInv'
<1> USE DEF RetTypeOK, EndsNobody
<1>1. UNCHANGED <<phase, sealed, verdict, work, on>>
  BY DEF LinkStep, Connects, DaemonStarts, Drops, Redials, SocketCloses, scopeVars
<1>2. CASE SocketCloses(c)
  <2>1. IdleIsUnbound' /\ link' = link /\ req' = req /\ closing' \subseteq closing
    BY <1>1, <1>2 DEF RetInv, IdleIsUnbound, SocketCloses
  <2>2. SealedIsSilent'
    BY <1>1, <2>1, OfSealed, StaysSilent
  <2>3. BarrierHolds' /\ ResolvedIsSealed'
    BY <1>1, <2>1, Behind, StaysBehind DEF Members, ActiveWork, RetInv, BarrierHolds
  <2>4. QED BY <2>1, <2>2, <2>3 DEF RetInv
<1>3. CASE Connects(c) \/ DaemonStarts(c) \/ Drops(c) \/ Redials(c)
  <2>1. c \notin sealed /\ phase \notin {"sealed", "finished"}
    BY <1>3, OfSealed, Behind DEF Connects, DaemonStarts, Drops, Redials
  <2>2. /\ \A d \in Clients \ {c} : link'[d] = link[d]
        /\ \A x \in Callers : on[x] # c => req'[x] = req[x]
        /\ closing' \subseteq closing \cup {c}
    BY <1>3 DEF Connects, DaemonStarts, Drops, Redials, Failing, RetInv
  <2>3. IdleIsUnbound'
    BY <1>1 DEF RetInv, IdleIsUnbound
  <2>4. SealedIsSilent'
    BY <1>1, <2>1, <2>2, OfSealed, StaysSilent DEF RetInv
  <2>5. BarrierHolds' /\ ResolvedIsSealed'
    BY <1>1, <2>1, <2>2, StaysBehind
  <2>6. QED BY <2>3, <2>4, <2>5 DEF RetInv
<1>4. QED BY <1>2, <1>3 DEF LinkStep

\* beginRetirement() of members of an active pool, whatever becomes of its phase.
LEMMA StopsInv ==
  ASSUME RetInv, RetTypeOK', NEW cs \in SUBSET Clients, phase = "active",
         phase' \in {"active", "stopping"},
         link' = LinkStopped(cs), req' = ReqStopped(cs), closing' = ClosingStopped(cs),
         UNCHANGED <<sealed, work, on>>,
         EndsNobody
  PROVE  RetInv'
<1> USE DEF RetTypeOK, EndsNobody
<1>1. IdleIsUnbound' /\ ResolvedIsSealed'
  BY DEF RetInv, IdleIsUnbound, ResolvedIsSealed, EndsNobody
<1>2. SealedIsSilent'
  <2>1. \A c \in sealed : link'[c] = "down"
    BY OfSealed DEF LinkStopped, RetInv
  <2>2. \A x \in Callers : req'[x] \in {"parked", "pending"} => req[x] \in {"parked", "pending"}
    BY DEF ReqStopped
  <2>3. QED BY <2>1, <2>2, StaysSilent
<1>3. BarrierHolds'
  BY OfSealed DEF RetInv, BarrierHolds, ResolvedIsSealed, ClosingStopped
<1>4. QED BY <1>1, <1>2, <1>3 DEF RetInv

\* A step that seals nobody, and of clients and their callers changes nothing.
LEMMA QuietInv ==
  ASSUME RetInv, RetTypeOK', UNCHANGED <<clientVars, work, on, req, phase>>,
         EndsNobody
  PROVE  RetInv'
<1>1. IdleIsUnbound'
  BY DEF RetInv, IdleIsUnbound
<1>2. SealedIsSilent'
  BY OfSealed, StaysSilent DEF clientVars
<1>3. BarrierHolds' /\ ResolvedIsSealed'
  BY StaysBehind DEF clientVars, Members, ActiveWork, RetInv, BarrierHolds, EndsNobody
<1>4. QED BY <1>1, <1>2, <1>3 DEF RetInv

\* seal() of clients that are drained.
LEMMA SealsInv ==
  ASSUME RetInv, RetTypeOK', NEW cs \in SUBSET Members, Seals(cs),
         \A c \in cs : Drained(c), UNCHANGED <<work, on, req>>,
         \A c \in Clients : verdict'[c] \in {"ending", "resolved"} =>
           verdict'[c] = verdict[c] \/ (c \in cs /\ verdict'[c] = "ending"),
         \/ phase = "active" /\ phase' = "active"
         \/ phase' = "sealed" /\ cs = Members /\ ActiveWork = {}
  PROVE  RetInv' /\ (cs = Members => sealed' = Members')
<1> USE DEF RetTypeOK, EndsNobody
<1>1. IdleIsUnbound' /\ ResolvedIsSealed'
  BY DEF RetInv, IdleIsUnbound, ResolvedIsSealed, Seals
<1>2. cs \subseteq Clients
  BY DEF Members
<1>3. SealedIsSilent'
  <2> SUFFICES ASSUME NEW c \in sealed'
               PROVE  /\ link'[c] = "down" /\ Waiting(c)' = {}
                      /\ \A w \in ActiveWork' : on'[w] # c
    BY DEF SealedIsSilent
  <2>1. Waiting(c)' = Waiting(c) /\ ActiveWork' = ActiveWork /\ on' = on
    BY DEF Waiting, ActiveWork
  <2>2. Waiting(c) = {} /\ \A w \in ActiveWork : on[w] # c
    BY DEF Seals, Drained, RetInv, SealedIsSilent
  <2>3. link'[c] = "down"
    BY <1>2, OfSealed DEF Seals, RetInv
  <2>4. QED BY <2>1, <2>2, <2>3
<1>4. Members' = Members
  BY <1>2 DEF Members, Seals
<1>5. cs = Members => sealed' = Members'
  BY <1>4, OfSealed DEF Seals
<1>6. \A c \in Clients : verdict'[c] = "resolved" => c \notin closing'
  BY DEF RetInv, BarrierHolds, ResolvedIsSealed, Seals
<1>7. BarrierHolds'
  BY <1>5, <1>6 DEF BarrierHolds, ActiveWork
<1>8. QED BY <1>1, <1>3, <1>5, <1>7 DEF RetInv

\* A member's retirement seals what is drained and ends when its socket closed.
LEMMA RetireInv ==
  ASSUME RetInv, RetTypeOK', AskedAreMembers, NEW c \in Clients, RetireStep(c) PROVE RetInv'
<1> USE DEF RetTypeOK, EndsNobody
<1>1. CASE RetiresMember(c)
  <2>1. EndsNobody
    BY <1>1 DEF RetiresMember, RetInv, Parties
  <2>2. QED BY <1>1, <2>1, StopsInv DEF RetiresMember, scopeVars
<1>2. CASE MemberJoins(c)
  BY <1>2, QuietInv DEF MemberJoins
<1>3. CASE MemberWakes(c)
  <2>1. UNCHANGED <<work, on, req>>
    BY <1>3 DEF MemberWakes
  <2>2. CASE Refuses(c)
    <3>1. EndsNobody
      BY <2>2 DEF Refuses, RetInv, Parties
    <3>2. QED BY <2>1, <2>2, <3>1, QuietInv DEF Refuses
  <2>3. CASE UNCHANGED <<scopeVars, clientVars, verdict>>
    BY <2>1, <2>3, QuietInv DEF scopeVars
  <2>4. CASE /\ MemberReady(c) /\ MemberSeals /\ Seals({c}) /\ phase' = phase
             /\ verdict' = [verdict EXCEPT ![c] = "ending"]
    <3>1. Drained(c)
      BY <2>4 DEF MemberReady
    <3>2. c \in Members
      BY <2>4 DEF MemberReady, AskedAreMembers
    <3>3. \A d \in Clients : verdict'[d] = verdict[d] \/ (d = c /\ verdict'[d] = "ending")
      BY <2>4 DEF RetInv, Parties
    <3>4. QED BY <2>1, <2>4, <3>1, <3>2, <3>3, SealsInv DEF MemberSeals
  <2>5. CASE /\ c \in sealed /\ verdict' = [verdict EXCEPT ![c] = "ending"]
             /\ UNCHANGED <<scopeVars, clientVars>>
    <3>1. \A d \in Clients : verdict'[d] = verdict[d] \/ (d = c /\ verdict'[d] = "ending")
      BY <2>5 DEF RetInv, Parties
    <3>2. IdleIsUnbound' /\ SealedIsSilent'
      BY <2>1, <2>5, OfSealed, StaysSilent DEF RetInv, IdleIsUnbound, clientVars
    <3>3. ResolvedIsSealed'
      BY <2>5, <3>1 DEF RetInv, ResolvedIsSealed, clientVars
    <3>4. BarrierHolds'
      BY <2>1, <2>5, <3>1 DEF RetInv, BarrierHolds, scopeVars, clientVars, Members, ActiveWork
    <3>5. QED BY <3>2, <3>3, <3>4 DEF RetInv
  <2>6. QED BY <1>3, <2>2, <2>3, <2>4, <2>5 DEF MemberWakes
<1>4. CASE MemberFinishes(c)
  <2>1. IdleIsUnbound'
    BY <1>4 DEF RetInv, IdleIsUnbound, MemberFinishes
  <2>2. SealedIsSilent'
    BY <1>4, OfSealed, StaysSilent DEF MemberFinishes, clientVars
  <2>3. \A d \in Clients : verdict'[d] = verdict[d] \/ d = c
    BY <1>4 DEF MemberFinishes, RetInv, Parties
  <2>4. ResolvedIsSealed'
    BY <1>4, <2>3 DEF RetInv, ResolvedIsSealed, MemberFinishes, clientVars
  <2>5. BarrierHolds'
    BY <1>4, <2>3 DEF RetInv, BarrierHolds, MemberFinishes, SocketsClosed, scopeVars,
                      clientVars, Members, ActiveWork
  <2>6. QED BY <2>1, <2>2, <2>4, <2>5 DEF RetInv
<1>5. QED BY <1>1, <1>2, <1>3, <1>4 DEF RetireStep

\* The pool's retirement seals all its members at once and ends when every socket
\* closed.
LEMMA PoolStepInv ==
  ASSUME RetInv, RetTypeOK', AskedAreMembers,
         RetiresPool \/ FenceOpens \/ PoolWakes \/ PoolFinishes \/ AuxiliaryStarts
  PROVE  RetInv'
<1> USE DEF RetTypeOK, EndsNobody
<1>0. \A c \in Clients : c # Pool
  BY RetirementAssumption DEF RetirementAssumption
<1>1. CASE RetiresPool
  <2>1. EndsNobody
    BY <1>1 DEF RetiresPool, RetInv, Parties
  <2>2. Members \in SUBSET Clients
    BY DEF Members
  <2>3. QED BY <1>1, <2>1, <2>2, StopsInv DEF RetiresPool
<1>2. CASE FenceOpens \/ AuxiliaryStarts
  BY <1>2, QuietInv DEF FenceOpens, AuxiliaryStarts
<1>3. CASE PoolWakes
  <2>1. UNCHANGED <<work, on, req>>
    BY <1>3 DEF PoolWakes
  <2>2. CASE Refuses(Pool)
    <3>1. EndsNobody
      BY <1>0, <2>2 DEF Refuses, RetInv, Parties
    <3>2. QED BY <2>1, <2>2, <3>1, QuietInv DEF Refuses
  <2>3. CASE UNCHANGED <<scopeVars, clientVars, verdict>>
    BY <2>1, <2>3, QuietInv DEF scopeVars
  <2>4. CASE PoolReady /\ phase' = "sealed" /\ Seals(Members) /\ UNCHANGED verdict
    BY <2>1, <2>4, SealsInv DEF PoolReady
  <2>5. QED BY <1>3, <2>2, <2>3, <2>4 DEF PoolWakes
<1>4. CASE PoolFinishes
  <2>1. IdleIsUnbound'
    BY <1>4 DEF RetInv, IdleIsUnbound, PoolFinishes
  <2>2. SealedIsSilent'
    BY <1>4, OfSealed, StaysSilent DEF PoolFinishes, clientVars
  <2>3. \A d \in Clients : verdict'[d] = verdict[d]
    BY <1>0, <1>4 DEF PoolFinishes, RetInv, Parties
  <2>4. ResolvedIsSealed'
    BY <1>4, <2>3 DEF RetInv, ResolvedIsSealed, PoolFinishes, clientVars
  <2>5. closing \subseteq Members
    BY DEF RetInv, AskedAreMembers
  <2>6. BarrierHolds'
    BY <1>4, <2>3, <2>5, Behind DEF RetInv, BarrierHolds, PoolFinishes, SocketsClosed,
                      clientVars, Members, ActiveWork
  <2>7. QED BY <2>1, <2>2, <2>4, <2>6 DEF RetInv
<1>5. QED BY <1>1, <1>2, <1>3, <1>4

\* What a step asks to retire, lets join or closes the socket of is a member.
LEMMA MembersStay ==
  ASSUME RetTypeOK, AskedAreMembers,
         \A c \in Clients : link[c] # "absent" => link'[c] # "absent",
         \A c \in Clients : verdict'[c] # "none" => verdict[c] # "none" \/ c \in Members,
         \A c \in joined' : c \in joined \/ c \in Members,
         \A c \in closing' : c \in closing \/ c \in Members
  PROVE  AskedAreMembers'
  BY DEF AskedAreMembers, Members

\* Only members are asked to retire, join or close, whatever step is taken.
LEMMA MembersNext ==
  ASSUME RetTypeOK, AskedAreMembers, RetNext PROVE AskedAreMembers'
<1> USE DEF RetTypeOK, EndsNobody
<1>0. Members \subseteq Clients
  BY DEF Members
<1>1. ASSUME UNCHANGED <<verdict, joined, closing>>,
             \A c \in Clients : link[c] # "absent" => link'[c] # "absent"
      PROVE  AskedAreMembers'
  BY <1>1, MembersStay
<1>2. ASSUME NEW w \in Works, WorkStep(w) PROVE AskedAreMembers'
  <2>1. UNCHANGED <<verdict, joined, closing>>
    BY <1>2 DEF WorkStep, WorkStarts, WorkEnds, CallbackStarts, WorkCreates, WorkBinds,
                scopeVars, clientVars
  <2>2. \A c \in Clients : link[c] # "absent" => link'[c] # "absent"
    BY <1>2 DEF WorkStep, WorkStarts, WorkEnds, CallbackStarts, WorkCreates, WorkBinds,
                clientVars
  <2>3. QED BY <1>1, <2>1, <2>2
<1>3. ASSUME NEW x \in Callers, RequestStep(x) PROVE AskedAreMembers'
  <2>1. UNCHANGED <<verdict, joined, closing>>
    BY <1>3 DEF RequestStep, Settles, RequestSent, RequestParked, RequestRefused, Asks,
                scopeVars, clientVars
  <2>2. \A c \in Clients : link[c] # "absent" => link'[c] # "absent"
    BY <1>3 DEF RequestStep, Settles, RequestSent, RequestParked, RequestRefused, clientVars
  <2>3. QED BY <1>1, <2>1, <2>2
<1>4. ASSUME NEW c \in Clients, LinkStep(c) PROVE AskedAreMembers'
  <2>1. UNCHANGED <<verdict, joined>>
    BY <1>4 DEF LinkStep, Connects, DaemonStarts, Drops, Redials, SocketCloses, scopeVars
  <2>2. \A d \in Clients : link[d] # "absent" => link'[d] # "absent"
    BY <1>4 DEF LinkStep, Connects, DaemonStarts, Drops, Redials, SocketCloses
  <2>3. \A d \in closing' : d \in closing \/ d \in Members
    BY <1>4 DEF LinkStep, Connects, DaemonStarts, Drops, Redials, SocketCloses, Members
  <2>4. QED BY <2>1, <2>2, <2>3, MembersStay
<1>5. ASSUME NEW cs \in SUBSET Members, link' = LinkStopped(cs), joined' = joined,
             closing' = ClosingStopped(cs),
             \A c \in Clients : verdict'[c] # "none" => verdict[c] # "none" \/ c \in Members
      PROVE  AskedAreMembers'
  <2>1. \A c \in Clients : link[c] # "absent" => link'[c] # "absent"
    BY <1>5 DEF LinkStopped
  <2>2. \A c \in closing' : c \in closing \/ c \in Members
    BY <1>5 DEF ClosingStopped
  <2>3. QED BY <1>5, <2>1, <2>2, MembersStay
<1>6. ASSUME NEW cs \in SUBSET Clients, Seals(cs),
             \A c \in Clients : verdict'[c] # "none" => verdict[c] # "none" \/ c \in Members
      PROVE  AskedAreMembers'
  <2>1. \A c \in Clients : link[c] # "absent" => link'[c] # "absent"
    BY <1>6 DEF Seals
  <2>2. \A c \in closing' : c \in closing \/ c \in Members
    BY <1>6 DEF Seals, Members
  <2>3. \A c \in joined' : c \in joined
    BY <1>6 DEF Seals
  <2>4. QED BY <1>6, <2>1, <2>2, <2>3, MembersStay
<1>7. ASSUME NEW c \in Clients, RetireStep(c) PROVE AskedAreMembers'
  <2>1. CASE RetiresMember(c)
    BY <2>1, <1>5 DEF RetiresMember, scopeVars, Parties
  <2>2. CASE MemberJoins(c)
    <3>1. c \in Members
      BY <2>2 DEF MemberJoins, AskedAreMembers
    <3>2. QED BY <2>2, <3>1, MembersStay DEF MemberJoins, clientVars
  <2>3. CASE MemberWakes(c)
    <3>1. CASE MemberReady(c) /\ Refuses(c)
      <4>1. c \in Members
        BY <3>1 DEF MemberReady, AskedAreMembers
      <4>2. QED BY <3>1, <4>1, MembersStay DEF Refuses, clientVars, Parties
    <3>2. CASE /\ MemberReady(c) /\ verdict' = [verdict EXCEPT ![c] = "ending"]
               /\ Seals({c}) \/ UNCHANGED <<scopeVars, clientVars>>
      <4>1. \A d \in Clients : verdict'[d] # "none" => verdict[d] # "none" \/ d \in Members
        BY <3>2 DEF MemberReady, AskedAreMembers, Parties
      <4>2. CASE Seals({c})
        BY <1>6, <4>1, <4>2
      <4>3. CASE UNCHANGED <<scopeVars, clientVars>>
        BY <4>1, <4>3, MembersStay DEF scopeVars, clientVars
      <4>4. QED BY <3>2, <4>2, <4>3
    <3>3. CASE UNCHANGED <<scopeVars, clientVars, verdict>>
      BY <1>1, <3>3 DEF scopeVars, clientVars
    <3>4. QED BY <2>3, <3>1, <3>2, <3>3 DEF MemberWakes
  <2>4. CASE MemberFinishes(c)
    <3>1. c \in Members
      BY <2>4 DEF MemberFinishes, AskedAreMembers
    <3>2. QED BY <2>4, <3>1, MembersStay DEF MemberFinishes, scopeVars, clientVars, Parties
  <2>5. QED BY <1>7, <2>1, <2>2, <2>3, <2>4 DEF RetireStep
<1>8. \A c \in Clients : c # Pool
  BY RetirementAssumption DEF RetirementAssumption
<1>9. CASE RetiresPool
  BY <1>5, <1>8, <1>9 DEF RetiresPool, Parties
<1>10. CASE FenceOpens \/ AuxiliaryStarts
  BY <1>1, <1>10 DEF FenceOpens, AuxiliaryStarts, clientVars
<1>11. CASE PoolWakes
  <2>1. CASE Refuses(Pool)
    BY <1>8, <2>1, MembersStay DEF Refuses, clientVars, Parties
  <2>2. CASE Seals(Members) /\ UNCHANGED verdict
    BY <1>0, <1>6, <2>2
  <2>3. CASE UNCHANGED <<scopeVars, clientVars, verdict>>
    BY <1>1, <2>3 DEF scopeVars, clientVars
  <2>4. QED BY <1>11, <2>1, <2>2, <2>3 DEF PoolWakes
<1>12. CASE PoolFinishes
  BY <1>8, <1>12, MembersStay DEF PoolFinishes, clientVars, Parties
<1>13. QED BY <1>2, <1>3, <1>4, <1>7, <1>9, <1>10, <1>11, <1>12 DEF RetNext

-----------------------------------------------------------------------------
(* What holds of retirement.                                               *)

\* The invariant of retirement: whatever order work, requests, connections and
\* checks take.
THEOREM RetirementInvariant == RetSpec => [](RetInv /\ AskedAreMembers)
<1>1. RetInit => RetInv /\ AskedAreMembers
  <2> SUFFICES ASSUME RetInit PROVE RetInv /\ AskedAreMembers
    OBVIOUS
  <2>1. RetTypeOK
    <3>1. link \in [Clients -> Links] /\ phase \in Phases
      BY DEF RetInit, Links, Phases
    <3>2. QED BY <3>1 DEF RetInit, RetTypeOK
  <2>2. \A c \in Clients : verdict[c] = "none"
    BY DEF RetInit, Parties
  <2>3. \A w \in Works : on[w] = NoClient
    BY DEF RetInit, Callers
  <2>4. QED BY <2>1, <2>2, <2>3 DEF RetInit, RetInv, IdleIsUnbound, ResolvedIsSealed,
                                    SealedIsSilent, BarrierHolds, AskedAreMembers
<1>2. RetInv /\ AskedAreMembers /\ [RetNext]_retVars => RetInv' /\ AskedAreMembers'
  <2> SUFFICES ASSUME RetInv, AskedAreMembers, [RetNext]_retVars
               PROVE  RetInv' /\ AskedAreMembers'
    OBVIOUS
  <2>1. CASE RetNext
    <3>1. RetTypeOK /\ RetTypeOK'
      BY <2>1, WorkTyped, RequestTyped, LinkTyped, RetireTyped, PoolTypedStep
         DEF RetNext, RetInv
    <3>2. QED BY <2>1, <3>1, MembersNext, WorkInv, RequestInv, LinkInv, RetireInv, PoolStepInv
              DEF RetNext
  <2>2. CASE UNCHANGED retVars
    <3>1. RetTypeOK'
      BY <2>2 DEF retVars, RetInv, RetTypeOK
    <3>2. RetInv'
      BY <2>2, <3>1, QuietInv DEF retVars, clientVars, EndsNobody
    <3>3. QED BY <2>2, <3>2 DEF retVars, AskedAreMembers, Members
  <2>3. QED BY <2>1, <2>2
<1>3. QED BY <1>1, <1>2, PTL DEF RetSpec

\* A sealed client has no connection, no request and no work, for ever after
\* (drained() and finishRetirement() of json-rpc-client.ts).
THEOREM SealedForEver == RetSpec => []SealedIsSilent
<1>1. RetInv => SealedIsSilent
  BY DEF RetInv
<1>2. QED BY <1>1, RetirementInvariant, PTL

\* A sealed pool has no admitted work and only sealed members, and a retirement
\* that reports its end has seen every socket close (retire() of backend.ipc.ts).
THEOREM Barrier == RetSpec => []BarrierHolds
<1>1. RetInv => BarrierHolds
  BY DEF RetInv
<1>2. QED BY <1>1, RetirementInvariant, PTL

\* While the pool is stopping all its members are sealed in one step or none is
\* (the members' wake() leaves it to the pool's).
THEOREM Together == RetSpec => SealedTogether
<1>1. ASSUME RetInv, AskedAreMembers, [RetNext]_retVars, phase = "stopping", sealed' # sealed
      PROVE  sealed' = Members'
  <2>1. \/ \E c \in Clients : MemberWakes(c)
        \/ PoolWakes
    BY <1>1 DEF RetNext, retVars, WorkStep, WorkStarts, WorkEnds, CallbackStarts, WorkCreates,
                WorkBinds, RequestStep, Settles, RequestSent, RequestParked, RequestRefused,
                Asks, LinkStep, Connects, DaemonStarts, Drops, Redials, SocketCloses,
                RetireStep, RetiresMember, MemberJoins, MemberFinishes, RetiresPool,
                FenceOpens, PoolFinishes, AuxiliaryStarts, clientVars
  <2>2. PoolWakes
    BY <1>1, <2>1 DEF MemberWakes, MemberSeals, Refuses, clientVars
  <2>3. Seals(Members)
    BY <1>1, <2>2 DEF PoolWakes, Refuses, clientVars
  <2>4. Members' = Members
    BY <2>3 DEF Members, Seals
  <2>5. sealed \subseteq Members
    BY <1>1, OfSealed
  <2>6. QED BY <2>3, <2>4, <2>5 DEF Seals
<1>2. QED BY <1>1, RetirementInvariant, PTL DEF RetSpec, SealedTogether

=============================================================================
