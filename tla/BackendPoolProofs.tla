-------------------------- MODULE BackendPoolProofs --------------------------
(***************************************************************************)
(* What holds of the pool of clients for any ids, credentials and          *)
(* operations: it is well typed, a pooled client belongs to the present    *)
(* generation of its id and to the credential that is stored, and the      *)
(* windows of a saved backend are served.                                  *)
(***************************************************************************)
EXTENDS BackendPool, SequenceTheorems, TLAPS

-----------------------------------------------------------------------------
(* The inductive invariant.                                                *)

Ops == [kind : Kinds, id : Ids, pc : Points, had : BOOLEAN]

\* The running operation is on i and at one of these points.
HeadAt(i, pcs) == lane # <<>> /\ lane[1].id = i /\ lane[1].pc \in pcs

\* A notice for i is on its way.
Due(i) == notice # None /\ notice.id = i

\* A rebuild of i is queued.
RebuildQueued(i) ==
  \E k \in DOMAIN lane :
    lane[k].kind = "rebuild" /\ lane[k].id = i /\ lane[k].pc = "queued"

\* The running operation builds a new client for i's windows.
Rebuilding(i) == HeadAt(i, {"connecting"}) /\ lane[1].kind # "open"

\* Only the running operation has begun, and its kind goes with its point.
LaneInv ==
  /\ \A k \in DOMAIN lane : k # 1 => lane[k].pc = "queued"
  /\ lane # <<>> =>
       /\ lane[1].pc = "connecting" =>
            lane[1].kind \in {"open", "rebuild", "repair", "update"}
       /\ lane[1].pc = "opening" => lane[1].kind = "open"

\* A removal that is announced has been stored.
NoticeInv == notice # None /\ notice.kind = "removed" => record[notice.id] = 0

\* A build is for an id without a client, in a generation that has begun; an
\* operation that connects waits for it, and off the lane only direct ids are built.
BuildInv(i) ==
  /\ build[i] # None => pooled[i] = None /\ build[i].gen <= generation[i]
  /\ HeadAt(i, {"connecting"}) => build[i] # None
  /\ i \notin Direct /\ build[i] # None => HeadAt(i, {"connecting"})

\* A configuration of this generation has the stored credential, or the notice
\* that it was replaced is on its way.
BuiltInv(i) ==
  build[i] # None /\ build[i].stage = "built" /\ build[i].gen = generation[i]
    => build[i].cred = record[i] \/ Due(i)

\* A client has the stored credential, or what will dispose it is on its way.
StoredInv(i) ==
  pooled[i] # None =>
    \/ pooled[i].cred = record[i] \/ Due(i)
    \/ HeadAt(i, {"closing", "dropping", "written"})

\* A window without a client, or one about to open, is being seen to.
ServedInv(i) ==
  /\ HeadAt(i, {"opening", "dropping"}) => i \notin windows
  /\ (i \in windows \/ HeadAt(i, {"opening"})) /\ record[i] # 0 /\ pooled[i] = None
       => Rebuilding(i) \/ RebuildQueued(i)

\* The part of the invariant that is about one id.
InvFor(i) ==
  /\ pooled[i] # None => pooled[i].gen = generation[i]
  /\ BuildInv(i) /\ ServedInv(i)
  /\ i \notin Direct => BuiltInv(i) /\ StoredInv(i)

PoolInv == PoolTypeOK /\ LaneInv /\ NoticeInv /\ \A i \in Ids : InvFor(i)

-----------------------------------------------------------------------------
(* The lane.                                                               *)

\* What Head and Tail are of a lane that is not empty.
LEMMA LaneFacts ==
  ASSUME lane \in Seq(Ops), lane # <<>>
  PROVE  /\ 1 \in DOMAIN lane /\ Head(lane) = lane[1] /\ lane[1] \in Ops
         /\ Tail(lane) \in Seq(Ops)
         /\ \A k \in DOMAIN Tail(lane) :
              k + 1 \in DOMAIN lane \ {1} /\ Tail(lane)[k] = lane[k + 1]
         /\ \A k \in DOMAIN lane \ {1} :
              k - 1 \in DOMAIN Tail(lane) /\ Tail(lane)[k - 1] = lane[k]
<1>1. Len(lane) \in Nat \ {0} /\ DOMAIN lane = 1..Len(lane)
  OBVIOUS
<1>2. Head(lane) = lane[1] /\ lane[1] \in Ops
  BY <1>1
<1>3. /\ Tail(lane) \in Seq(Ops) /\ Len(Tail(lane)) = Len(lane) - 1
      /\ \A k \in 1..Len(Tail(lane)) : Tail(lane)[k] = lane[k + 1]
  BY <1>1
<1>4. DOMAIN Tail(lane) = 1..(Len(lane) - 1)
  BY <1>1, <1>3
<1>5. QED BY <1>1, <1>2, <1>3, <1>4

\* The lane when its head moves on.
LEMMA HeadMoves ==
  ASSUME lane \in Seq(Ops), lane # <<>>, NEW op \in Ops
  PROVE  LET l == [lane EXCEPT ![1] = op]
         IN  /\ l \in Seq(Ops) /\ DOMAIN l = DOMAIN lane /\ l # <<>> /\ l[1] = op
             /\ \A k \in DOMAIN lane \ {1} : l[k] = lane[k]
<1> DEFINE l == [lane EXCEPT ![1] = op]
<1>1. DOMAIN lane = 1..Len(lane) /\ Len(lane) \in Nat \ {0}
  OBVIOUS
<1>2. /\ DOMAIN l = DOMAIN lane /\ l[1] = op
      /\ \A k \in DOMAIN lane \ {1} : l[k] = lane[k]
  BY <1>1
<1>3. lane \in [1..Len(lane) -> Ops]
  BY <1>1
<1>4. l \in [1..Len(lane) -> Ops]
  BY <1>1, <1>2, <1>3
<1>5. l \in Seq(Ops) /\ l # <<>>
  BY <1>1, <1>2, <1>4, SeqDef
<1>6. QED BY <1>2, <1>5

\* What the operations of the lane make of it.
LEMMA LaneTyped ==
  ASSUME lane \in Seq(Ops)
  PROVE  /\ \A kind \in Kinds, i \in Ids : Append(lane, Op(kind, i)) \in Seq(Ops)
         /\ lane # <<>> => Done \in Seq(Ops) /\ \A pc \in Points : At(pc) \in Seq(Ops)
         /\ lane # <<>> => [lane EXCEPT ![1] = [Head(lane) EXCEPT !.pc = "opening",
                                                           !.had = TRUE]] \in Seq(Ops)
<1>1. ASSUME NEW kind \in Kinds, NEW i \in Ids
      PROVE  Append(lane, Op(kind, i)) \in Seq(Ops)
  <2>1. Op(kind, i) \in Ops
    BY DEF Op, Ops, Points
  <2>2. QED BY <2>1
<1>2. ASSUME lane # <<>> PROVE Done \in Seq(Ops)
  BY <1>2, LaneFacts DEF Done
<1>3. ASSUME lane # <<>>, NEW pc \in Points PROVE At(pc) \in Seq(Ops)
  <2>1. [Head(lane) EXCEPT !.pc = pc] \in Ops
    BY <1>3, LaneFacts DEF Ops
  <2>2. QED BY <1>3, <2>1, HeadMoves DEF At
<1>4. ASSUME lane # <<>>
      PROVE  [lane EXCEPT ![1] = [Head(lane) EXCEPT !.pc = "opening", !.had = TRUE]]
               \in Seq(Ops)
  <2>1. [Head(lane) EXCEPT !.pc = "opening", !.had = TRUE] \in Ops
    BY <1>4, LaneFacts DEF Ops, Points
  <2>2. QED BY <1>4, <2>1, HeadMoves
<1>5. QED BY <1>1, <1>2, <1>3, <1>4

-----------------------------------------------------------------------------
(* Types.                                                                  *)

LaneOK == lane \in Seq(Ops)
BuildOK == build \in [Ids -> {None} \cup Builds]
PooledOK == pooled \in [Ids -> {None} \cup PooledClients]

\* The type invariant, with the lane, the builds and the clients named apart.
LEMMA TypeParts ==
  PoolTypeOK <=>
    /\ record \in [Ids -> 0..MaxCreds] /\ generation \in [Ids -> Nat]
    /\ PooledOK /\ BuildOK /\ notice \in {None} \cup Notices /\ LaneOK
    /\ windows \subseteq Ids /\ ops \in 0..MaxOps
  BY DEF PoolTypeOK, LaneOK, BuildOK, PooledOK, Ops

\* Builds and clients, whatever operation starts or disposes them.
LEMMA PartsTyped ==
  ASSUME PoolTypeOK, NEW i \in Ids
  PROVE  /\ Joined(i) \in [Ids -> {None} \cup Builds]
         /\ [build EXCEPT ![i] = None] \in [Ids -> {None} \cup Builds]
         /\ [build EXCEPT ![i] = Fresh(i)] \in [Ids -> {None} \cup Builds]
         /\ Disposed(i) \in [Ids -> {None} \cup PooledClients]
         /\ \A c \in PooledClients :
              [pooled EXCEPT ![i] = c] \in [Ids -> {None} \cup PooledClients]
         /\ \A b \in Builds : [build EXCEPT ![i] = b] \in [Ids -> {None} \cup Builds]
<1>1. Fresh(i) \in Builds
  BY PoolAssumption DEF PoolTypeOK, Fresh, Builds, PoolAssumption
<1>2. QED BY <1>1 DEF PoolTypeOK, Joined, Disposed

\* The operation that connects i.
LEMMA ConnectsTyped ==
  ASSUME PoolTypeOK, NEW i \in Ids, lane # <<>>, LaneConnects(i)
  PROVE  LaneOK' /\ BuildOK'
<1>1. LaneOK /\ BuildOK
  BY TypeParts
<1>2. Done \in Seq(Ops) /\ \A pc \in Points : At(pc) \in Seq(Ops)
  BY <1>1, LaneTyped DEF LaneOK
<1>3. [lane EXCEPT ![1] = [Head(lane) EXCEPT !.pc = "opening", !.had = TRUE]]
        \in Seq(Ops)
  BY <1>1, LaneTyped DEF LaneOK
<1>4. Joined(i) \in [Ids -> {None} \cup Builds]
  BY PartsTyped
<1>5. QED BY <1>1, <1>2, <1>3, <1>4 DEF LaneConnects, LaneOK, BuildOK, Points

\* A build that settles.
LEMMA SettleTyped ==
  ASSUME PoolTypeOK, NEW i \in Ids, NEW ok \in BOOLEAN, Settle(i, ok), PooledOK'
  PROVE  PoolTypeOK'
<1>1. LaneOK /\ (lane # <<>> => Done \in Seq(Ops) /\ \A pc \in Points : At(pc) \in Seq(Ops))
  BY TypeParts, LaneTyped DEF LaneOK
<1>2. LaneOK'
  BY <1>1 DEF Settle, LaneAfterBuild, LaneOK, Running, Points
<1>3. BuildOK'
  BY PartsTyped DEF Settle, BuildOK
<1>4. QED BY <1>2, <1>3 DEF Settle, PoolTypeOK, LaneOK, BuildOK, PooledOK, Ops

\* A construction keeps the types (connectBackendClientOriginal).
LEMMA BuildTyped ==
  ASSUME PoolTypeOK, NEW i \in Ids, BuildStep(i) PROVE PoolTypeOK'
<1> USE PoolAssumption DEF PoolAssumption
<1>2. CASE BuildReadsRecord(i)
  <2>1. CASE UNCHANGED <<record, generation, pooled, notice, lane, windows, ops>>
                /\ build' = [build EXCEPT ![i].stage = "token"] /\ build[i] # None
    <3>1. build[i] \in Builds
      BY <2>1 DEF PoolTypeOK
    <3>2. [build[i] EXCEPT !.stage = "token"] \in Builds
      BY <3>1 DEF Builds
    <3>3. QED BY <2>1, <3>2 DEF PoolTypeOK
  <2>2. QED BY <1>2, <2>1, SettleTyped DEF BuildReadsRecord, PooledOK, PoolTypeOK
<1>3. CASE BuildReadsToken(i)
  <2>1. CASE /\ UNCHANGED <<record, generation, pooled, notice, lane, windows, ops>>
             /\ build' = [build EXCEPT ![i].stage = "built", ![i].cred = record[i]]
             /\ build[i] # None
    <3>1. build[i] \in Builds /\ record[i] \in 0..MaxCreds
      BY <2>1 DEF PoolTypeOK
    <3>2. [build[i] EXCEPT !.stage = "built", !.cred = record[i]] \in Builds
      BY <3>1 DEF Builds
    <3>3. build' = [build EXCEPT ![i] = [build[i] EXCEPT !.stage = "built", !.cred = record[i]]]
      BY <2>1, <3>1 DEF PoolTypeOK
    <3>4. QED BY <2>1, <3>2, <3>3, PartsTyped DEF PoolTypeOK
  <2>2. QED BY <1>3, <2>1, SettleTyped DEF BuildReadsToken, PooledOK, PoolTypeOK
<1>4. CASE BuildResumes(i)
  <2>1. CASE pooled' = pooled /\ Settle(i, TRUE)
    BY <2>1, SettleTyped DEF PooledOK, PoolTypeOK
  <2>2. CASE /\ build' = [build EXCEPT ![i] = Fresh(i)]
             /\ UNCHANGED <<record, generation, pooled, notice, lane, windows, ops>>
    BY <2>2, PartsTyped DEF PoolTypeOK
  <2>3. CASE /\ Settle(i, TRUE) /\ build[i] # None
             /\ pooled' = [pooled EXCEPT ![i] = [cred |-> build[i].cred, gen |-> build[i].gen]]
    <3>1. [cred |-> build[i].cred, gen |-> build[i].gen] \in PooledClients
      BY <2>3 DEF PoolTypeOK, Builds, PooledClients
    <3>2. PooledOK'
      BY <2>3, <3>1, PartsTyped DEF PooledOK
    <3>3. QED BY <2>3, <3>2, SettleTyped
  <2>4. CASE pooled' = Disposed(i) /\ Settle(i, FALSE)
    BY <2>4, PartsTyped, SettleTyped DEF PooledOK
  <2>5. QED BY <1>4, <2>1, <2>2, <2>3, <2>4 DEF BuildResumes
<1>5. QED BY <1>2, <1>3, <1>4 DEF BuildStep

\* An operation of the lane keeps the types.
LEMMA LaneStepTyped ==
  ASSUME PoolTypeOK, NEW i \in Ids, LaneStep(i) PROVE PoolTypeOK'
<1> USE PoolAssumption DEF PoolAssumption
<1>1. lane # <<>>
  BY DEF LaneStep, OpenStarts, OpenEnds, ForgetStarts, ForgetCloses, ForgetDrops,
         RepairStarts, RepairConnects, RebuildStarts, CloseRuns, Running
<1>2. LaneOK /\ Done \in Seq(Ops) /\ \A pc \in Points : At(pc) \in Seq(Ops)
  BY <1>1, TypeParts, LaneTyped DEF LaneOK
<1>3. /\ Joined(i) \in [Ids -> {None} \cup Builds]
      /\ Disposed(i) \in [Ids -> {None} \cup PooledClients]
  BY PartsTyped
<1>4. CASE OpenStarts(i)
  <2>1. LaneOK' /\ BuildOK'
    BY <1>1, <1>2, <1>4, ConnectsTyped, TypeParts DEF OpenStarts, LaneOK, BuildOK
  <2>2. QED BY <1>4, <2>1 DEF OpenStarts, PoolTypeOK, LaneOK, BuildOK, Ops
<1>5. CASE OpenEnds(i)
  BY <1>2, <1>3, <1>5 DEF OpenEnds, PoolTypeOK, LaneOK, Ops
<1>6. CASE ForgetStarts(i)
  <2>1. record' \in [Ids -> 0..MaxCreds]
    BY <1>6 DEF ForgetStarts, PoolTypeOK
  <2>2. lane' \in Seq(Ops)
    BY <1>2, <1>6 DEF ForgetStarts, Points
  <2>3. QED BY <1>6, <2>1, <2>2 DEF ForgetStarts, PoolTypeOK, Ops
<1>7. CASE ForgetCloses(i)
  BY <1>2, <1>7 DEF ForgetCloses, PoolTypeOK, LaneOK, Ops, Points
<1>8. CASE ForgetDrops(i)
  BY <1>2, <1>3, <1>8 DEF ForgetDrops, PoolTypeOK, LaneOK, Ops
<1>9. CASE RepairStarts(i)
  <2>0. record[i] \in 1..(MaxCreds - 1) => record[i] + 1 \in 0..MaxCreds
    OBVIOUS
  <2>1. record' \in [Ids -> 0..MaxCreds]
    BY <2>0, <1>9 DEF RepairStarts, PoolTypeOK
  <2>2. lane' \in Seq(Ops)
    BY <1>2, <1>9 DEF RepairStarts, Points
  <2>3. QED BY <1>9, <2>1, <2>2 DEF RepairStarts, PoolTypeOK, Ops
<1>10. CASE RepairConnects(i)
  BY <1>2, <1>3, <1>10 DEF RepairConnects, PoolTypeOK, LaneOK, Ops, Points
<1>11. CASE RebuildStarts(i)
  <2>1. LaneOK' /\ BuildOK'
    BY <1>1, <1>11, ConnectsTyped DEF RebuildStarts
  <2>2. QED BY <1>11, <2>1 DEF RebuildStarts, PoolTypeOK, LaneOK, BuildOK, Ops
<1>12. CASE CloseRuns(i)
  BY <1>2, <1>12 DEF CloseRuns, PoolTypeOK, LaneOK, Ops
<1>13. QED BY <1>4, <1>5, <1>6, <1>7, <1>8, <1>9, <1>10, <1>11, <1>12 DEF LaneStep

\* What does not wait for the lane keeps the types.
LEMMA OtherTyped ==
  ASSUME PoolTypeOK, NEW i \in Ids, Asked(i) \/ Notified(i) \/ OutsideStep(i)
  PROVE  PoolTypeOK'
<1> USE PoolAssumption DEF PoolAssumption
<1>1. LaneOK /\ \A kind \in Kinds : Append(lane, Op(kind, i)) \in Seq(Ops)
  BY TypeParts, LaneTyped DEF LaneOK
<1>2. CASE Asked(i)
  <2>1. PICK kind \in {"open", "forget", "repair", "update"} : Ask(kind, i)
    BY <1>2 DEF Asked
  <2>2. lane' \in Seq(Ops)
    BY <1>1, <2>1 DEF Ask, Kinds
  <2>3. QED BY <2>1, <2>2 DEF Ask, PoolTypeOK, Ops
<1>3. CASE Notified(i)
  <2>1. generation' \in [Ids -> Nat]
    BY <1>3 DEF Notified, Bumped, PoolTypeOK
  <2>2. pooled' \in [Ids -> {None} \cup PooledClients]
    BY <1>3, PartsTyped DEF Notified, Evict
  <2>3. lane' \in Seq(Ops)
    BY <1>1, <1>3 DEF Notified, FollowUp, Kinds, LaneOK
  <2>4. QED BY <1>3, <2>1, <2>2, <2>3 DEF Notified, PoolTypeOK, Ops
<1>4. CASE DirectConnect(i)
  BY <1>4, PartsTyped DEF DirectConnect, PoolTypeOK
<1>5. CASE StoreReplaces(i)
  BY <1>5 DEF StoreReplaces, PoolTypeOK, Notices
<1>6. CASE StoreRemoves(i)
  BY <1>6 DEF StoreRemoves, PoolTypeOK, Notices
<1>7. CASE LastWindowCloses(i)
  BY <1>7, PartsTyped DEF LastWindowCloses, PoolTypeOK
<1>8. QED BY <1>2, <1>3, <1>4, <1>5, <1>6, <1>7 DEF OutsideStep

\* The pool starts well typed.
LEMMA InitTyped == PoolInit => PoolTypeOK
<1>1. ASSUME PoolInit PROVE lane \in Seq(Ops)
  BY <1>1 DEF PoolInit
<1>2. QED BY <1>1, PoolAssumption DEF PoolInit, PoolTypeOK, PoolAssumption, Ops

\* The pool stays well typed (the state of backend.ipc.ts' pool of clients).
THEOREM PoolTyped == PoolSpec => []PoolTypeOK
<1>1. PoolTypeOK /\ [PoolNext]_poolVars => PoolTypeOK'
  <2> SUFFICES ASSUME PoolTypeOK, [PoolNext]_poolVars PROVE PoolTypeOK'
    OBVIOUS
  <2>1. CASE PoolNext
    BY <2>1, BuildTyped, LaneStepTyped, OtherTyped DEF PoolNext
  <2>2. CASE UNCHANGED poolVars
    BY <2>2 DEF poolVars, PoolTypeOK
  <2>3. QED BY <2>1, <2>2
<1>2. QED BY <1>1, InitTyped, PTL DEF PoolSpec

-----------------------------------------------------------------------------
(* How the lane moves, and what it says of an id.                          *)

\* An operation on i is queued; the running one is on i, and it ends or goes on.
Grows(i, kind) ==
  \E op \in Ops : /\ op.id = i /\ op.kind = kind /\ op.pc = "queued"
                  /\ lane' = Append(lane, op)
Ends(i) == lane # <<>> /\ lane[1].id = i /\ lane' = Tail(lane)
Turns(i, pc) ==
  /\ lane # <<>> /\ lane[1].id = i
  /\ \E op \in Ops : /\ op.id = i /\ op.kind = lane[1].kind /\ op.pc = pc
                     /\ lane' = [lane EXCEPT ![1] = op]

\* An operation appended to the lane disturbs neither the running one nor any
\* rebuild that is queued.
LEMMA WhenItGrows ==
  ASSUME PoolTypeOK, LaneInv, NEW i \in Ids, NEW kind, Grows(i, kind)
  PROVE  /\ LaneInv'
         /\ \A j \in Ids : \A pcs \in SUBSET (Points \ {"queued"}) :
              HeadAt(j, pcs)' <=> HeadAt(j, pcs)
         /\ \A j \in Ids : RebuildQueued(j) => RebuildQueued(j)'
         /\ \A j \in Ids : Rebuilding(j) => Rebuilding(j)'
         /\ kind = "rebuild" => RebuildQueued(i)'
<1>1. PICK op \in Ops : op.id = i /\ op.kind = kind /\ op.pc = "queued" /\ lane' = Append(lane, op)
  BY DEF Grows
<1>2. lane \in Seq(Ops) /\ Len(lane) \in Nat
  BY DEF PoolTypeOK, Ops
<1>3. /\ DOMAIN lane = 1..Len(lane) /\ DOMAIN lane' = 1..(Len(lane) + 1)
      /\ \A k \in DOMAIN lane : lane'[k] = lane[k]
      /\ lane'[Len(lane) + 1] = op /\ lane' # <<>>
  BY <1>1, <1>2
<1>4. lane = <<>> => lane'[1] = op
  BY <1>2, <1>3
<1>5. lane # <<>> => lane'[1] = lane[1] /\ 1 \in DOMAIN lane
  BY <1>2, <1>3
<1>6. LaneInv'
  <2>1. ASSUME NEW k \in DOMAIN lane', k # 1 PROVE lane'[k].pc = "queued"
    BY <2>1, <1>1, <1>2, <1>3 DEF LaneInv
  <2>2. QED BY <2>1, <1>1, <1>4, <1>5 DEF LaneInv
<1>7. \A j \in Ids : \A pcs \in SUBSET (Points \ {"queued"}) :
        HeadAt(j, pcs)' <=> HeadAt(j, pcs)
  BY <1>1, <1>3, <1>4, <1>5 DEF HeadAt
<1>8. \A j \in Ids : RebuildQueued(j) => RebuildQueued(j)'
  BY <1>2, <1>3 DEF RebuildQueued
<1>9. kind = "rebuild" => RebuildQueued(i)'
  BY <1>1, <1>2, <1>3 DEF RebuildQueued
<1>10. \A j \in Ids : Rebuilding(j) => Rebuilding(j)'
  BY <1>3, <1>5 DEF Rebuilding, HeadAt
<1>11. QED BY <1>6, <1>7, <1>8, <1>9, <1>10

\* When the running operation ends, only its own id loses a running operation, and
\* no rebuild but itself.
LEMMA WhenItEnds ==
  ASSUME PoolTypeOK, LaneInv, NEW i \in Ids, Ends(i)
  PROVE  /\ LaneInv'
         /\ \A j \in Ids : \A pcs \in SUBSET (Points \ {"queued"}) :
              HeadAt(j, pcs)' <=> j # i /\ HeadAt(j, pcs)
         /\ \A j \in Ids :
              RebuildQueued(j) /\ (j # i \/ lane[1].kind # "rebuild" \/ lane[1].pc # "queued")
                => RebuildQueued(j)'
         /\ \A j \in Ids \ {i} : ~Rebuilding(j)
<1>1. lane \in Seq(Ops) /\ lane # <<>> /\ lane' = Tail(lane) /\ lane[1].id = i
  BY DEF PoolTypeOK, Ops, Ends
<1>2. /\ \A k \in DOMAIN lane' :
           k + 1 \in DOMAIN lane \ {1} /\ lane'[k] = lane[k + 1]
      /\ \A k \in DOMAIN lane \ {1} :
           k - 1 \in DOMAIN lane' /\ lane'[k - 1] = lane[k]
  BY <1>1, LaneFacts
<1>3. \A k \in DOMAIN lane' : lane'[k].pc = "queued"
  BY <1>2 DEF LaneInv
<1>4. lane' # <<>> => 1 \in DOMAIN lane'
  BY <1>1, LaneFacts
<1>5. LaneInv'
  BY <1>3, <1>4 DEF LaneInv
<1>6. \A j \in Ids : \A pcs \in SUBSET (Points \ {"queued"}) :
        HeadAt(j, pcs)' <=> j # i /\ HeadAt(j, pcs)
  BY <1>1, <1>3, <1>4 DEF HeadAt
<1>7. ASSUME NEW j \in Ids, RebuildQueued(j),
             j # i \/ lane[1].kind # "rebuild" \/ lane[1].pc # "queued"
      PROVE  RebuildQueued(j)'
  <2>1. PICK k \in DOMAIN lane :
          lane[k].kind = "rebuild" /\ lane[k].id = j /\ lane[k].pc = "queued"
    BY <1>7 DEF RebuildQueued
  <2>2. k # 1
    BY <1>1, <1>7, <2>1
  <2>3. k - 1 \in DOMAIN lane' /\ lane'[k - 1] = lane[k]
    BY <1>2, <2>1, <2>2
  <2>4. QED BY <2>1, <2>3 DEF RebuildQueued
<1>8. \A j \in Ids \ {i} : ~Rebuilding(j)
  BY <1>1 DEF Rebuilding, HeadAt
<1>9. QED BY <1>5, <1>6, <1>7, <1>8

\* When the running operation moves on, only what is said of its own id changes.
LEMMA WhenItTurns ==
  ASSUME PoolTypeOK, LaneInv, NEW i \in Ids, NEW pc \in Points \ {"queued"}, Turns(i, pc),
         pc = "connecting" => lane[1].kind \in {"open", "rebuild", "repair", "update"},
         pc = "opening" => lane[1].kind = "open"
  PROVE  /\ LaneInv'
         /\ \A j \in Ids : \A pcs \in SUBSET (Points \ {"queued"}) :
              HeadAt(j, pcs)' <=> IF j = i THEN pc \in pcs ELSE HeadAt(j, pcs)
         /\ \A j \in Ids :
              RebuildQueued(j) /\ (j # i \/ lane[1].kind # "rebuild" \/ lane[1].pc # "queued")
                => RebuildQueued(j)'
         /\ \A j \in Ids \ {i} : ~Rebuilding(j)
         /\ Rebuilding(i)' <=> pc = "connecting" /\ lane[1].kind # "open"
<1>1. PICK op \in Ops : /\ op.id = i /\ op.kind = lane[1].kind /\ op.pc = pc
                        /\ lane' = [lane EXCEPT ![1] = op]
  BY DEF Turns
<1>2. lane \in Seq(Ops) /\ lane # <<>> /\ lane[1].id = i
  BY DEF PoolTypeOK, Ops, Turns
<1>3. /\ DOMAIN lane' = DOMAIN lane /\ lane' # <<>> /\ lane'[1] = op /\ 1 \in DOMAIN lane
      /\ \A k \in DOMAIN lane \ {1} : lane'[k] = lane[k]
  BY <1>1, <1>2, HeadMoves, LaneFacts
<1>4. LaneInv'
  BY <1>1, <1>3 DEF LaneInv
<1>5. \A j \in Ids : \A pcs \in SUBSET (Points \ {"queued"}) :
        HeadAt(j, pcs)' <=> IF j = i THEN pc \in pcs ELSE HeadAt(j, pcs)
  BY <1>1, <1>2, <1>3 DEF HeadAt
<1>6. \A j \in Ids :
        RebuildQueued(j) /\ (j # i \/ lane[1].kind # "rebuild" \/ lane[1].pc # "queued")
          => RebuildQueued(j)'
  BY <1>2, <1>3 DEF RebuildQueued
<1>7. /\ \A j \in Ids \ {i} : ~Rebuilding(j)
      /\ Rebuilding(i)' <=> pc = "connecting" /\ lane[1].kind # "open"
  BY <1>1, <1>2, <1>3 DEF Rebuilding, HeadAt
<1>8. QED BY <1>4, <1>5, <1>6, <1>7

Begun == Points \ {"queued"}

\* What the lane says of j is what it said before.
SameFor(j) ==
  /\ \A pcs \in SUBSET Begun : HeadAt(j, pcs)' <=> HeadAt(j, pcs)
  /\ RebuildQueued(j) => RebuildQueued(j)'
  /\ Rebuilding(j) => Rebuilding(j)'

\* Nothing of j changes.
Untouched(j) ==
  /\ record'[j] = record[j] /\ generation'[j] = generation[j]
  /\ pooled'[j] = pooled[j] /\ build'[j] = build[j]
  /\ j \in windows' <=> j \in windows
  /\ Due(j)' <=> Due(j)
  /\ SameFor(j)

\* An id that a step leaves alone keeps its part of the invariant.
LEMMA UntouchedKeeps ==
  ASSUME NEW j \in Ids, InvFor(j), Untouched(j) PROVE InvFor(j)'
<1>1. \A pcs \in {{"connecting"}, {"opening"}, {"opening", "dropping"},
                  {"closing", "dropping", "written"}} :
        HeadAt(j, pcs)' <=> HeadAt(j, pcs)
  BY DEF Untouched, SameFor, Begun, Points
<1>2. BuildInv(j)'
  BY <1>1 DEF InvFor, BuildInv, Untouched
<1>3. ServedInv(j)'
  BY <1>1 DEF InvFor, ServedInv, Untouched, SameFor
<1>4. j \notin Direct => BuiltInv(j)' /\ StoredInv(j)'
  BY <1>1 DEF InvFor, BuiltInv, StoredInv, Untouched
<1>5. QED BY <1>2, <1>3, <1>4 DEF InvFor, Untouched

\* A step of i's.
LEMMA StepOf ==
  ASSUME PoolInv, NEW i \in Ids, PoolTypeOK', LaneInv', NoticeInv', InvFor(i)',
         \A j \in Ids \ {i} : Untouched(j)
  PROVE  PoolInv'
  BY UntouchedKeeps DEF PoolInv

\* The running operation, and where it goes.
LEMMA HeadIs ==
  ASSUME PoolTypeOK, NEW i \in Ids, NEW kinds, NEW pc, Running(kinds, pc, i)
  PROVE  /\ lane # <<>> /\ lane[1].id = i /\ lane[1].pc = pc /\ lane[1].kind \in kinds
         /\ \A j \in Ids : \A pcs : HeadAt(j, pcs) <=> j = i /\ pc \in pcs
<1>1. lane \in Seq(Ops) /\ lane # <<>>
  BY DEF PoolTypeOK, Ops, Running
<1>2. Head(lane) = lane[1]
  BY <1>1, LaneFacts
<1>3. QED BY <1>1, <1>2 DEF Running, HeadAt

\* The three ways an action moves the lane are those of the definitions above.
LEMMA Moves ==
  ASSUME PoolTypeOK, NEW i \in Ids, lane # <<>>, lane[1].id = i
  PROVE  /\ lane' = Done => Ends(i)
         /\ \A pc \in Points : lane' = At(pc) => Turns(i, pc)
         /\ lane' = [lane EXCEPT ![1] = [Head(lane) EXCEPT !.pc = "opening", !.had = TRUE]]
              => Turns(i, "opening")
<1>1. lane \in Seq(Ops) /\ Head(lane) = lane[1] /\ lane[1] \in Ops
  BY LaneFacts DEF PoolTypeOK, Ops
<1>2. lane' = Done => Ends(i)
  BY DEF Done, Ends
<1>3. ASSUME NEW pc \in Points, lane' = At(pc) PROVE Turns(i, pc)
  <2>1. [lane[1] EXCEPT !.pc = pc] \in Ops
    BY <1>1 DEF Ops
  <2>2. QED BY <1>1, <1>3, <2>1 DEF At, Turns, Ops
<1>4. ASSUME lane' = [lane EXCEPT ![1] = [Head(lane) EXCEPT !.pc = "opening", !.had = TRUE]]
      PROVE  Turns(i, "opening")
  <2>1. [lane[1] EXCEPT !.pc = "opening", !.had = TRUE] \in Ops
    BY <1>1 DEF Ops, Points
  <2>2. QED BY <1>1, <1>4, <2>1 DEF Turns, Ops
<1>5. QED BY <1>2, <1>3, <1>4

\* A lane that does not move says the same of everybody.
LEMMA WhenItStays ==
  ASSUME lane' = lane, LaneInv
  PROVE  /\ LaneInv' /\ \A j \in Ids : SameFor(j)
         /\ \A j \in Ids : RebuildQueued(j)' <=> RebuildQueued(j)
  BY DEF LaneInv, SameFor, HeadAt, RebuildQueued, Rebuilding

-----------------------------------------------------------------------------
(* The steps.                                                              *)

\* The user asks for an operation.
LEMMA StepAsked ==
  ASSUME PoolInv, PoolTypeOK', NEW i \in Ids, Asked(i) PROVE PoolInv'
<1>1. PICK kind \in {"open", "forget", "repair", "update"} : Ask(kind, i)
  BY DEF Asked
<1>2. Op(kind, i) \in Ops
  BY DEF Op, Ops, Kinds, Points
<1>3. Grows(i, kind)
  BY <1>1, <1>2 DEF Ask, Grows, Op
<1>4. LaneInv' /\ \A j \in Ids : SameFor(j)
  BY <1>3, WhenItGrows DEF PoolInv, SameFor, Begun
<1>5. NoticeInv' /\ \A j \in Ids : Untouched(j)
  BY <1>1, <1>4 DEF Ask, Untouched, Due, NoticeInv, PoolInv
<1>6. QED BY <1>4, <1>5, UntouchedKeeps DEF PoolInv

\* The dock or the boot restore connects off the lane.
LEMMA StepDirect ==
  ASSUME PoolInv, PoolTypeOK', NEW i \in Ids, DirectConnect(i) PROVE PoolInv'
<1>1. LaneInv' /\ (\A j \in Ids : SameFor(j)) /\ NoticeInv'
  BY WhenItStays DEF PoolInv, DirectConnect, NoticeInv
<1>2. \A j \in Ids \ {i} : Untouched(j)
  BY <1>1 DEF DirectConnect, Joined, Untouched, Due, PoolInv, PoolTypeOK
<1>3. build'[i] = Fresh(i) /\ Fresh(i) \in Builds
  BY PoolAssumption DEF DirectConnect, Joined, PoolInv, PoolTypeOK, Fresh, Builds, PoolAssumption
<1>4. InvFor(i)'
  <2>1. InvFor(i) /\ generation[i] \in Nat
    BY DEF PoolInv, PoolTypeOK
  <2>2. BuildInv(i)'
    BY <1>1, <1>3, <2>1, PoolAssumption
       DEF InvFor, BuildInv, DirectConnect, Fresh, SameFor, PoolAssumption
  <2>3. ServedInv(i)'
    BY <1>1, <2>1 DEF InvFor, ServedInv, DirectConnect, SameFor, Begun, Points
  <2>4. QED BY <2>1, <2>2, <2>3 DEF InvFor, DirectConnect
<1>5. QED BY <1>1, <1>2, <1>4, StepOf

\* A build that settles: the lane goes on if it waited for it.
LEMMA WhenItSettles ==
  ASSUME PoolInv, NEW i \in Ids, NEW ok \in BOOLEAN, Settle(i, ok), build[i] # None
  PROVE  /\ LaneInv' /\ NoticeInv' /\ ~HeadAt(i, {"connecting"})'
         /\ ~HeadAt(i, {"dropping"})' \/ HeadAt(i, {"dropping"})
         /\ HeadAt(i, {"opening"})' => HeadAt(i, {"opening"}) \/ (ok /\ i \notin windows)
         /\ HeadAt(i, {"connecting"}) \/ SameFor(i)
         /\ RebuildQueued(i) => RebuildQueued(i)'
         /\ \A j \in Ids \ {i} : SameFor(j)
<1>1. NoticeInv'
  BY DEF PoolInv, NoticeInv, Settle
<1>2. CASE HeadAt(i, {"connecting"})
  <2>1. lane # <<>> /\ lane[1].id = i /\ lane[1].pc = "connecting"
        /\ lane[1].kind \in {"open", "rebuild", "repair", "update"} /\ Head(lane) = lane[1]
    BY <1>2, LaneFacts DEF HeadAt, PoolInv, LaneInv, PoolTypeOK, Ops
  <2>2. CASE lane' = Done
    <3>1. Ends(i)
      BY <2>1, <2>2, Moves DEF PoolInv
    <3>2. QED BY <3>1, <1>1, <1>2, <2>1, WhenItEnds DEF PoolInv, SameFor, Begun, Points
  <2>3. CASE lane' = At("opening") /\ ok /\ i \notin windows /\ lane[1].kind = "open"
    <3>1. Turns(i, "opening")
      BY <2>1, <2>3, Moves DEF PoolInv, Points
    <3>2. QED BY <3>1, <1>1, <1>2, <2>1, <2>3, WhenItTurns DEF PoolInv, SameFor, Begun, Points
  <2>4. QED BY <2>1, <2>2, <2>3 DEF Settle, LaneAfterBuild, Running
<1>3. CASE ~HeadAt(i, {"connecting"})
  <2>1. lane \in Seq(Ops) /\ (lane # <<>> => Head(lane) = lane[1])
    BY LaneFacts DEF PoolInv, PoolTypeOK, Ops
  <2>2. lane' = lane
    BY <1>3, <2>1 DEF Settle, LaneAfterBuild, Running, HeadAt
  <2>3. QED BY <1>1, <1>3, <2>2, WhenItStays DEF PoolInv, SameFor, Begun, Points
<1>4. QED BY <1>2, <1>3

\* A build that fails, for want of a record.
LEMMA StepFails ==
  ASSUME PoolInv, PoolTypeOK', NEW i \in Ids, build[i] # None, record[i] = 0,
         Settle(i, FALSE), pooled' = pooled
  PROVE  PoolInv'
<1>1. /\ LaneInv' /\ NoticeInv' /\ ~HeadAt(i, {"connecting"})'
      /\ ~HeadAt(i, {"dropping"})' \/ HeadAt(i, {"dropping"})
      /\ HeadAt(i, {"opening"})' => HeadAt(i, {"opening"})
      /\ \A j \in Ids \ {i} : SameFor(j)
  BY WhenItSettles
<1>2. \A j \in Ids \ {i} : Untouched(j)
  BY <1>1 DEF Settle, Untouched, Due, PoolInv, PoolTypeOK
<1>3. InvFor(i) /\ pooled[i] = None /\ build'[i] = None
  BY DEF PoolInv, InvFor, BuildInv, Settle, PoolTypeOK
<1>4. BuildInv(i)'
  BY <1>1, <1>3 DEF BuildInv
<1>5. ServedInv(i)'
  BY <1>1, <1>3 DEF InvFor, ServedInv, HeadAt, Settle
<1>6. InvFor(i)'
  BY <1>3, <1>4, <1>5 DEF InvFor, BuiltInv, StoredInv
<1>7. QED BY <1>1, <1>2, <1>6, StepOf

\* A build that goes on: it is for the same id, and what it has read is current.
LEMMA StepReads ==
  ASSUME PoolInv, PoolTypeOK', NEW i \in Ids, NEW b \in Builds, build[i] # None,
         build' = [build EXCEPT ![i] = b], b.gen <= generation[i],
         b.stage = "built" => b.cred = record[i],
         UNCHANGED <<record, generation, pooled, notice, lane, windows, ops>>
  PROVE  PoolInv'
<1>1. LaneInv' /\ (\A j \in Ids : SameFor(j)) /\ NoticeInv'
  BY WhenItStays DEF PoolInv, NoticeInv
<1>2. build'[i] = b /\ \A j \in Ids \ {i} : build'[j] = build[j]
  BY DEF PoolInv, PoolTypeOK
<1>3. \A j \in Ids \ {i} : Untouched(j)
  BY <1>1, <1>2 DEF Untouched, Due
<1>4. b # None /\ InvFor(i)
  BY PoolAssumption DEF PoolAssumption, PoolInv
<1>5. BuildInv(i)'
  BY <1>1, <1>2, <1>4 DEF InvFor, BuildInv, SameFor, Begun, Points
<1>6. ServedInv(i)'
  BY <1>1, <1>4 DEF InvFor, ServedInv, SameFor, Begun, Points
<1>7. i \notin Direct => BuiltInv(i)' /\ StoredInv(i)'
  BY <1>1, <1>2, <1>4 DEF InvFor, BuiltInv, StoredInv, SameFor, Begun, Points, Due
<1>8. InvFor(i)'
  BY <1>4, <1>5, <1>6, <1>7 DEF InvFor
<1>9. QED BY <1>1, <1>3, <1>8, StepOf

\* A construction reads, settles, or reads again.
LEMMA StepBuild ==
  ASSUME PoolInv, PoolTypeOK', NEW i \in Ids, BuildStep(i) PROVE PoolInv'
<1>1. build[i] # None /\ build[i] \in Builds /\ InvFor(i) /\ build[i].gen <= generation[i]
  BY DEF BuildStep, BuildReadsRecord, BuildReadsToken, BuildResumes, PoolInv, PoolTypeOK,
         InvFor, BuildInv
<1>2. record[i] \in 0..MaxCreds /\ generation[i] \in Nat /\ pooled[i] = None
  BY <1>1 DEF PoolInv, PoolTypeOK, InvFor, BuildInv
<1>3. CASE BuildReadsRecord(i)
  <2>1. [build[i] EXCEPT !.stage = "token"] \in Builds
    BY <1>1 DEF Builds
  <2>2. [build[i] EXCEPT !.stage = "token"].gen = build[i].gen
        /\ [build[i] EXCEPT !.stage = "token"].stage = "token"
    BY <1>1 DEF Builds
  <2>3. CASE /\ build' = [build EXCEPT ![i].stage = "token"]
             /\ UNCHANGED <<record, generation, pooled, notice, lane, windows, ops>>
    BY <1>1, <2>1, <2>2, <2>3, StepReads
  <2>4. QED BY <1>1, <1>3, <2>3, StepFails DEF BuildReadsRecord
<1>4. CASE BuildReadsToken(i)
  <2> DEFINE b == [build[i] EXCEPT !.stage = "built", !.cred = record[i]]
  <2>1. b \in Builds /\ b.gen = build[i].gen /\ b.cred = record[i]
    BY <1>1, <1>2 DEF Builds
  <2>2. CASE /\ build' = [build EXCEPT ![i].stage = "built", ![i].cred = record[i]]
             /\ UNCHANGED <<record, generation, pooled, notice, lane, windows, ops>>
    <3>1. build' = [build EXCEPT ![i] = b]
      BY <2>2 DEF PoolInv, PoolTypeOK
    <3>2. QED BY <1>1, <2>1, <2>2, <3>1, StepReads
  <2>3. QED BY <1>1, <1>4, <2>2, StepFails DEF BuildReadsToken
<1>5. CASE BuildResumes(i)
  <2>1. CASE /\ build' = [build EXCEPT ![i] = Fresh(i)]
             /\ UNCHANGED <<record, generation, pooled, notice, lane, windows, ops>>
    <3>1. Fresh(i) \in Builds /\ Fresh(i).gen = generation[i] /\ Fresh(i).stage = "record"
      BY <1>2, PoolAssumption DEF Fresh, Builds, PoolAssumption
    <3>2. Fresh(i).gen <= generation[i] /\ Fresh(i).stage # "built"
      BY <1>2, <3>1
    <3>3. QED BY <1>1, <2>1, <3>1, <3>2, StepReads
  <2>2. CASE /\ ~Superseded(i) /\ Settle(i, TRUE) /\ build[i].stage = "built"
             /\ pooled' = [pooled EXCEPT ![i] = [cred |-> build[i].cred, gen |-> build[i].gen]]
    <3>1. /\ LaneInv' /\ NoticeInv' /\ ~HeadAt(i, {"connecting"})'
          /\ ~HeadAt(i, {"dropping"})' \/ HeadAt(i, {"dropping"})
          /\ HeadAt(i, {"opening"})' => HeadAt(i, {"opening"}) \/ i \notin windows
          /\ \A j \in Ids \ {i} : SameFor(j)
      BY <1>1, <2>2, WhenItSettles
    <3>2. \A j \in Ids \ {i} : Untouched(j)
      BY <2>2, <3>1 DEF Settle, Untouched, Due, PoolInv, PoolTypeOK
    <3>3. /\ build'[i] = None /\ pooled'[i] = [cred |-> build[i].cred, gen |-> build[i].gen]
          /\ pooled'[i] \in PooledClients
      BY <1>1, <2>2 DEF Settle, PoolInv, PoolTypeOK, Builds, PooledClients
    <3>4. pooled'[i].gen = generation'[i] /\ pooled'[i].cred = build[i].cred
      BY <2>2, <3>3 DEF Superseded, Settle
    <3>5. BuildInv(i)'
      BY <3>1, <3>3 DEF BuildInv
    <3>6. ServedInv(i)'
      <4>1. pooled'[i] # None
        BY <3>3, PoolAssumption DEF PoolAssumption
      <4>2. HeadAt(i, {"opening", "dropping"})' => i \notin windows
        BY <1>1, <3>1 DEF InvFor, ServedInv, HeadAt
      <4>3. QED BY <2>2, <4>1, <4>2 DEF ServedInv, Settle
    <3>7. i \notin Direct => BuiltInv(i)' /\ StoredInv(i)'
      BY <1>1, <2>2, <3>3, <3>4 DEF InvFor, BuiltInv, StoredInv, Settle, Due, Superseded
    <3>8. InvFor(i)'
      BY <3>4, <3>5, <3>6, <3>7 DEF InvFor
    <3>9. QED BY <3>1, <3>2, <3>8, StepOf
  <2>3. CASE Running({"open"}, "connecting", i) /\ pooled' = Disposed(i) /\ Settle(i, FALSE)
    <3>1. /\ LaneInv' /\ NoticeInv' /\ ~HeadAt(i, {"connecting"})'
          /\ ~HeadAt(i, {"dropping"})' \/ HeadAt(i, {"dropping"})
          /\ HeadAt(i, {"opening"})' => HeadAt(i, {"opening"})
          /\ RebuildQueued(i) => RebuildQueued(i)'
          /\ \A j \in Ids \ {i} : SameFor(j)
      BY <1>1, <2>3, WhenItSettles
    <3>2. \A j \in Ids \ {i} : Untouched(j)
      BY <2>3, <3>1 DEF Settle, Disposed, Untouched, Due, PoolInv, PoolTypeOK
    <3>3. pooled'[i] = None /\ build'[i] = None
      BY <2>3 DEF Settle, Disposed, PoolInv, PoolTypeOK
    <3>4. BuildInv(i)'
      BY <3>1, <3>3 DEF BuildInv
    <3>5. lane[1].pc = "connecting" /\ ~Rebuilding(i)
      BY <2>3, HeadIs DEF PoolInv, Rebuilding, Points
    <3>6. ServedInv(i)'
      BY <1>1, <1>2, <2>3, <3>1, <3>5 DEF InvFor, ServedInv, HeadAt, Settle
    <3>7. InvFor(i)'
      BY <3>3, <3>4, <3>6 DEF InvFor, BuiltInv, StoredInv
    <3>8. QED BY <3>1, <3>2, <3>7, StepOf
  <2>4. QED BY <1>2, <1>5, <2>1, <2>2, <2>3 DEF BuildResumes
<1>6. QED BY <1>3, <1>4, <1>5 DEF BuildStep

\* The removal or replacement of i is stored, or noticed; its last window closes.
LEMMA StepStore ==
  ASSUME PoolInv, PoolTypeOK', NEW i \in Ids, StoreReplaces(i) \/ StoreRemoves(i)
  PROVE  PoolInv'
<1>1. LaneInv' /\ (\A j \in Ids : SameFor(j))
  BY WhenItStays DEF PoolInv, StoreReplaces, StoreRemoves
<1>2. /\ record[i] \in 0..MaxCreds /\ record[i] # 0 /\ notice = None /\ i \in Guests
      /\ record'[i] = 0 \/ notice'.kind = "replaced"
      /\ notice' \in Notices /\ notice'.id = i
      /\ \A j \in Ids \ {i} : record'[j] = record[j]
  BY DEF PoolInv, PoolTypeOK, StoreReplaces, StoreRemoves, Notices
<1>3. NoticeInv' /\ Due(i)' /\ notice' # None
  BY <1>2, PoolAssumption DEF NoticeInv, Due, PoolAssumption
<1>4. \A j \in Ids \ {i} : Untouched(j)
  BY <1>1, <1>2 DEF Untouched, Due, StoreReplaces, StoreRemoves
<1>5. InvFor(i)
  BY DEF PoolInv
<1>6. BuildInv(i)'
  BY <1>1, <1>5 DEF InvFor, BuildInv, SameFor, Begun, Points, StoreReplaces, StoreRemoves
<1>7. ServedInv(i)'
  BY <1>1, <1>2, <1>5 DEF InvFor, ServedInv, SameFor, Begun, Points, StoreReplaces, StoreRemoves
<1>8. InvFor(i)'
  BY <1>3, <1>5, <1>6, <1>7 DEF InvFor, BuiltInv, StoredInv, StoreReplaces, StoreRemoves
<1>9. QED BY <1>1, <1>3, <1>4, <1>8, StepOf

\* A notice bumps the generation, evicts the client and queues what it has to.
LEMMA StepNotified ==
  ASSUME PoolInv, PoolTypeOK', NEW i \in Ids, Notified(i) PROVE PoolInv'
<1>1. \/ pooled[i] = None /\ lane' = lane
      \/ pooled[i] # None /\ Grows(i, IF notice.kind = "replaced" THEN "rebuild" ELSE "close")
  <2>1. \A kind \in {"rebuild", "close"} : Op(kind, i) \in Ops
    BY DEF Op, Ops, Kinds, Points
  <2>2. QED BY <2>1 DEF Notified, FollowUp, Grows, Op
<1>2. /\ LaneInv' /\ \A j \in Ids : SameFor(j)
      /\ pooled[i] # None /\ notice.kind = "replaced" => RebuildQueued(i)'
  BY <1>1, WhenItStays, WhenItGrows DEF PoolInv, SameFor, Begun
<1>3. NoticeInv' /\ notice' = None /\ ~Due(i)'
  BY DEF Notified, NoticeInv, Due
<1>4. \A j \in Ids \ {i} : Untouched(j)
  BY <1>2 DEF Untouched, Due, Notified, Bumped, Evict, Disposed, PoolInv, PoolTypeOK
<1>5. /\ InvFor(i) /\ generation[i] \in Nat /\ pooled'[i] = None
      /\ generation'[i] = generation[i] + 1 /\ build'[i] = build[i]
      /\ build[i] # None => build[i].gen \in Nat
  BY DEF PoolInv, PoolTypeOK, Notified, Bumped, Evict, Disposed, Builds
<1>6. BuildInv(i)'
  BY <1>2, <1>5 DEF InvFor, BuildInv, SameFor, Begun, Points
<1>7. ServedInv(i)'
  <2>1. notice.kind = "replaced" \/ record[i] = 0
    BY DEF Notified, PoolInv, NoticeInv, PoolTypeOK, Notices
  <2>2. QED BY <1>2, <1>5, <2>1 DEF InvFor, ServedInv, SameFor, Begun, Points, Notified
<1>8. BuiltInv(i)'
  BY <1>5 DEF InvFor, BuildInv, BuiltInv
<1>9. InvFor(i)'
  BY <1>5, <1>6, <1>7, <1>8 DEF InvFor, StoredInv
<1>10. QED BY <1>2, <1>3, <1>4, <1>9, StepOf

\* The last window of an id closes, and its client with it or not.
LEMMA StepLastWindow ==
  ASSUME PoolInv, PoolTypeOK', NEW i \in Ids, LastWindowCloses(i) PROVE PoolInv'
<1>1. LaneInv' /\ (\A j \in Ids : SameFor(j)) /\ NoticeInv'
  BY WhenItStays DEF PoolInv, LastWindowCloses, NoticeInv
<1>2. \A j \in Ids \ {i} : Untouched(j)
  BY <1>1 DEF Untouched, Due, LastWindowCloses, Disposed, PoolInv, PoolTypeOK
<1>3. /\ InvFor(i) /\ pooled'[i] \in {None, pooled[i]}
      /\ i \in windows /\ i \notin windows'
  BY DEF PoolInv, PoolTypeOK, LastWindowCloses, Disposed
<1>4. ~HeadAt(i, {"opening"})
  BY <1>3 DEF InvFor, ServedInv, HeadAt
<1>5. InvFor(i)'
  BY <1>1, <1>3, <1>4 DEF InvFor, BuildInv, ServedInv, BuiltInv, StoredInv, SameFor, Begun,
                          Points, LastWindowCloses, Due
<1>6. QED BY <1>1, <1>2, <1>5, StepOf

\* An operation that is done before it changes anything of i's.
LEMMA StepDone ==
  ASSUME PoolInv, PoolTypeOK', NEW i \in Ids, NEW pc \in Points, NEW kinds, Running(kinds, pc, i),
         pc # "connecting", lane' = Done, NoticeInv',
         \A j \in Ids \ {i} : record'[j] = record[j] /\ pooled'[j] = pooled[j]
                               /\ (j \in windows' <=> j \in windows),
         UNCHANGED <<generation, build, notice>>,
         \* What is left to see of i.
         pooled'[i] = pooled[i] \/ pooled'[i] = None,
         pooled'[i] # None /\ i \notin Direct => pooled'[i].cred = record'[i] \/ Due(i)',
         record'[i] = record[i] \/ (record'[i] = 0 /\ i \notin Direct => build[i] = None),
         i \in windows' /\ record'[i] # 0 /\ pooled'[i] = None => RebuildQueued(i)'
  PROVE  PoolInv'
<1>1. lane # <<>> /\ lane[1].id = i /\ \A j \in Ids : \A pcs : HeadAt(j, pcs) <=> j = i /\ pc \in pcs
  BY HeadIs DEF PoolInv
<1>2. Ends(i)
  BY <1>1, Moves DEF PoolInv
<1>3. /\ LaneInv' /\ \A j \in Ids \ {i} : SameFor(j)
      /\ \A pcs \in SUBSET Begun : ~HeadAt(i, pcs)'
  BY <1>2, WhenItEnds DEF PoolInv, SameFor, Begun
<1>4. \A j \in Ids \ {i} : Untouched(j)
  BY <1>3 DEF Untouched, Due
<1>5. InvFor(i) /\ ~HeadAt(i, {"connecting"}) /\ pooled[i] \in {None} \cup PooledClients
  BY <1>1 DEF PoolInv, PoolTypeOK
<1>6. /\ ~HeadAt(i, {"connecting"})' /\ ~HeadAt(i, {"opening"})'
      /\ ~HeadAt(i, {"opening", "dropping"})' /\ ~HeadAt(i, {"closing", "dropping", "written"})'
  BY <1>3 DEF Begun, Points
<1>7. BuildInv(i)' /\ (i \notin Direct => build'[i] = None)
  BY <1>5, <1>6 DEF InvFor, BuildInv
<1>8. ServedInv(i)'
  BY <1>6 DEF ServedInv
<1>9. InvFor(i)'
  BY <1>5, <1>7, <1>8 DEF InvFor, BuiltInv, StoredInv
<1>10. QED BY <1>3, <1>4, <1>9, StepOf

\* An operation that goes on to its next point.
LEMMA StepTurns ==
  ASSUME PoolInv, PoolTypeOK', NEW i \in Ids, NEW pc \in Points, NEW kinds, Running(kinds, pc, i),
         NEW next \in {"opening", "closing", "dropping", "written", "connecting"},
         pc # "connecting", Turns(i, next), NoticeInv',
         next = "connecting" => kinds \subseteq {"open", "rebuild", "repair", "update"},
         next = "opening" => kinds \subseteq {"open"},
         \A j \in Ids \ {i} : record'[j] = record[j] /\ pooled'[j] = pooled[j]
                               /\ build'[j] = build[j]
                               /\ (j \in windows' <=> j \in windows),
         UNCHANGED <<generation, notice>>,
         pooled'[i] = pooled[i] \/ pooled'[i] = None,
         IF next = "connecting" THEN build'[i] # None /\ pooled'[i] = None
                                     /\ build'[i].gen <= generation[i]
                                     /\ (i \notin Direct => build'[i].stage # "built")
                                ELSE build' = build,
         pooled'[i] # None /\ i \notin Direct =>
           pooled'[i].cred = record'[i] \/ Due(i)' \/ next \in {"closing", "dropping", "written"},
         next \in {"opening", "dropping"} => i \notin windows',
         (i \in windows' \/ next = "opening") /\ record'[i] # 0 /\ pooled'[i] = None
           => (next = "connecting" /\ "open" \notin kinds) \/ RebuildQueued(i)'
  PROVE  PoolInv'
<1>1. /\ lane # <<>> /\ lane[1].id = i /\ lane[1].kind \in kinds
      /\ \A j \in Ids : \A pcs : HeadAt(j, pcs) <=> j = i /\ pc \in pcs
  BY HeadIs DEF PoolInv
<1>2. /\ LaneInv' /\ \A j \in Ids \ {i} : SameFor(j)
      /\ \A pcs \in SUBSET Begun : HeadAt(i, pcs)' <=> next \in pcs
      /\ next = "connecting" /\ "open" \notin kinds => Rebuilding(i)'
  BY <1>1, WhenItTurns DEF PoolInv, SameFor, Begun, Points
<1>3. \A j \in Ids \ {i} : Untouched(j)
  BY <1>2 DEF Untouched, Due
<1>4. InvFor(i) /\ ~HeadAt(i, {"connecting"})
  BY <1>1 DEF PoolInv
<1>5. /\ HeadAt(i, {"connecting"})' <=> next = "connecting"
      /\ HeadAt(i, {"opening"})' <=> next = "opening"
      /\ HeadAt(i, {"opening", "dropping"})' <=> next \in {"opening", "dropping"}
      /\ HeadAt(i, {"closing", "dropping", "written"})'
           <=> next \in {"closing", "dropping", "written"}
  BY <1>2 DEF Begun, Points
<1>6. BuildInv(i)'
  BY <1>4, <1>5 DEF InvFor, BuildInv
<1>7. ServedInv(i)'
  BY <1>2, <1>5 DEF ServedInv
<1>8. i \notin Direct => BuiltInv(i)' /\ StoredInv(i)'
  BY <1>4, <1>5 DEF InvFor, BuildInv, BuiltInv, StoredInv
<1>9. InvFor(i)'
  BY <1>4, <1>6, <1>7, <1>8 DEF InvFor
<1>10. QED BY <1>2, <1>3, <1>9, StepOf

\* What the invariant says of the id whose operation runs.
LEMMA OfRunning ==
  ASSUME PoolInv, NEW i \in Ids, NEW pc \in Points, NEW kinds, Running(kinds, pc, i),
         pc # "connecting"
  PROVE  /\ InvFor(i) /\ lane # <<>> /\ lane[1].id = i /\ Head(lane) = lane[1]
         /\ record[i] \in 0..MaxCreds /\ generation[i] \in Nat
         /\ i \notin Direct => build[i] = None
         /\ pooled[i] # None /\ i \notin Direct /\ pc \in {"queued", "opening"}
              => pooled[i].cred = record[i] \/ Due(i)
         /\ (i \in windows \/ pc = "opening") /\ record[i] # 0 /\ pooled[i] = None
              => RebuildQueued(i)
         /\ pc \in {"opening", "dropping"} => i \notin windows
<1>1. /\ lane # <<>> /\ lane[1].id = i
      /\ \A pcs : HeadAt(i, pcs) <=> pc \in pcs
  BY HeadIs DEF PoolInv
<1>2. InvFor(i) /\ record[i] \in 0..MaxCreds /\ generation[i] \in Nat
      /\ Head(lane) = lane[1]
  BY <1>1, LaneFacts DEF PoolInv, PoolTypeOK, Ops
<1>3. QED BY <1>1, <1>2 DEF InvFor, BuildInv, StoredInv, ServedInv, Rebuilding

\* A rebuild that is queued stays so while another operation on i moves.
LEMMA RebuildWaits ==
  ASSUME PoolInv, NEW i \in Ids, NEW pc \in Points, NEW kinds, Running(kinds, pc, i),
         pc # "queued" \/ "rebuild" \notin kinds, RebuildQueued(i),
         \/ Ends(i)
         \/ Turns(i, "opening") /\ kinds \subseteq {"open"}
         \/ Turns(i, "connecting") /\ kinds \subseteq {"open"}
         \/ Turns(i, "written")
  PROVE  RebuildQueued(i)'
<1>1. lane[1].pc = pc /\ lane[1].kind \in kinds
  BY HeadIs DEF PoolInv
<1>2. lane[1].kind # "rebuild" \/ lane[1].pc # "queued"
  BY <1>1
<1>3. CASE Ends(i)
  BY <1>2, <1>3, WhenItEnds DEF PoolInv
<1>4. ASSUME NEW next \in {"opening", "connecting"}, Turns(i, next), kinds \subseteq {"open"}
      PROVE  RebuildQueued(i)'
  <2>1. next \in Points \ {"queued"} /\ lane[1].kind = "open"
    BY <1>1, <1>4 DEF Points
  <2>2. QED BY <1>2, <1>4, <2>1, WhenItTurns DEF PoolInv
<1>5. CASE Turns(i, "written")
  BY <1>2, <1>5, WhenItTurns DEF PoolInv, Points
<1>6. QED BY <1>3, <1>4, <1>5

\* The connecting operation starts a build, or joins one that a direct id has.
LEMMA JoinedBuild ==
  ASSUME PoolInv, NEW i \in Ids, i \notin Direct => build[i] = None, build' = Joined(i)
  PROVE  /\ build'[i] # None /\ build'[i].gen <= generation[i]
         /\ i \notin Direct => build'[i].stage # "built"
         /\ \A j \in Ids \ {i} : build'[j] = build[j]
<1>1. Fresh(i) \in Builds /\ Fresh(i).gen = generation[i] /\ Fresh(i).stage = "record"
      /\ generation[i] \in Nat
  BY PoolAssumption DEF PoolInv, PoolTypeOK, Fresh, Builds, PoolAssumption
<1>2. build[i] # None => build[i].gen <= generation[i]
  BY DEF PoolInv, InvFor, BuildInv
<1>3. QED BY <1>1, <1>2, PoolAssumption DEF PoolInv, PoolTypeOK, Joined, PoolAssumption

\* An open or a rebuild finds a client or waits for its construction.
LEMMA StepConnects ==
  ASSUME PoolInv, PoolTypeOK', NEW i \in Ids, NEW kind \in {"open", "rebuild"},
         Running({kind}, "queued", i), LaneConnects(i),
         UNCHANGED <<record, generation, pooled, notice, windows>>
  PROVE  PoolInv'
<1>1. /\ InvFor(i) /\ lane # <<>> /\ lane[1].id = i /\ lane[1].kind = kind
      /\ Head(lane) = lane[1] /\ (i \notin Direct => build[i] = None)
      /\ pooled[i] # None /\ i \notin Direct => pooled[i].cred = record[i] \/ Due(i)
  BY OfRunning, HeadIs DEF PoolInv, Points
<1>2. NoticeInv' /\ (Due(i)' <=> Due(i))
  BY DEF PoolInv, NoticeInv, Due
<1>3. CASE pooled[i] # None /\ lane' = Done
  <2>1. build' = build
    BY <1>3 DEF LaneConnects
  <2>2. QED BY <1>1, <1>2, <1>3, <2>1, StepDone DEF Points
<1>4. CASE pooled[i] # None /\ lane' # Done
  <2>1. /\ build' = build /\ i \notin windows /\ kind = "open"
        /\ lane' = [lane EXCEPT ![1] = [Head(lane) EXCEPT !.pc = "opening", !.had = TRUE]]
    BY <1>1, <1>4 DEF LaneConnects
  <2>2. Turns(i, "opening")
    BY <1>1, <2>1, Moves DEF PoolInv
  <2>3. QED BY <1>1, <1>2, <1>4, <2>1, <2>2, StepTurns DEF Points
<1>5. CASE pooled[i] = None
  <2>1. build' = Joined(i) /\ lane' = At("connecting")
    BY <1>5 DEF LaneConnects
  <2>2. Turns(i, "connecting")
    BY <1>1, <2>1, Moves DEF PoolInv, Points
  <2>3. /\ build'[i] # None /\ build'[i].gen <= generation[i]
        /\ i \notin Direct => build'[i].stage # "built"
        /\ \A j \in Ids \ {i} : build'[j] = build[j]
    BY <1>1, <2>1, JoinedBuild
  <2>4. kind = "open" /\ RebuildQueued(i) => RebuildQueued(i)'
    BY <2>2, RebuildWaits DEF Points
  <2>5. i \in windows /\ record[i] # 0 => RebuildQueued(i)
    BY <1>5, OfRunning DEF Points
  <2>6. QED BY <1>1, <1>2, <1>5, <2>2, <2>3, <2>4, <2>5, StepTurns DEF Points
<1>6. QED BY <1>3, <1>4, <1>5

\* An open begins.
LEMMA StepOpenStarts ==
  ASSUME PoolInv, PoolTypeOK', NEW i \in Ids, OpenStarts(i) PROVE PoolInv'
<1>1. CASE LaneConnects(i)
  BY <1>1, StepConnects DEF OpenStarts
<1>2. CASE lane' = Done /\ build' = build
  <2>1. Running({"open"}, "queued", i) /\ "queued" \in Points /\ lane # <<>> /\ lane[1].id = i
    BY HeadIs DEF OpenStarts, PoolInv, Points
  <2>2. /\ pooled[i] # None /\ i \notin Direct => pooled[i].cred = record[i] \/ Due(i)
        /\ i \in windows /\ record[i] # 0 /\ pooled[i] = None => RebuildQueued(i)
    BY <2>1, OfRunning
  <2>3. Ends(i)
    BY <1>2, <2>1, Moves DEF PoolInv
  <2>4. RebuildQueued(i) => RebuildQueued(i)'
    BY <2>1, <2>3, RebuildWaits
  <2>5. NoticeInv' /\ (Due(i)' <=> Due(i))
    BY DEF PoolInv, NoticeInv, Due, OpenStarts
  <2>6. QED BY <1>2, <2>1, <2>2, <2>4, <2>5, StepDone DEF OpenStarts
<1>3. QED BY <1>1, <1>2 DEF OpenStarts

\* An open ends: its window is up, or the client it built is taken back.
LEMMA StepOpenEnds ==
  ASSUME PoolInv, PoolTypeOK', NEW i \in Ids, OpenEnds(i) PROVE PoolInv'
<1>1. /\ Running({"open"}, "opening", i) /\ "opening" \in Points
      /\ lane # <<>> /\ lane[1].id = i
  BY HeadIs DEF OpenEnds, PoolInv, Points
<1>2. /\ pooled[i] # None /\ i \notin Direct => pooled[i].cred = record[i] \/ Due(i)
      /\ record[i] # 0 /\ pooled[i] = None => RebuildQueued(i)
      /\ i \notin windows
  BY <1>1, OfRunning
<1>3. Ends(i)
  BY <1>1, Moves DEF PoolInv, OpenEnds
<1>4. RebuildQueued(i) => RebuildQueued(i)'
  BY <1>1, <1>3, RebuildWaits
<1>5. NoticeInv' /\ (Due(i)' <=> Due(i))
  BY DEF PoolInv, NoticeInv, Due, OpenEnds
<1>6. /\ \A j \in Ids \ {i} : pooled'[j] = pooled[j] /\ (j \in windows' <=> j \in windows)
      /\ \/ pooled'[i] = pooled[i]
         \/ pooled'[i] = None /\ i \notin windows'
  BY <1>2 DEF OpenEnds, Disposed, PoolInv, PoolTypeOK
<1>7. QED BY <1>1, <1>2, <1>4, <1>5, <1>6, StepDone DEF OpenEnds

\* A forget removes the record.
LEMMA StepForgetStarts ==
  ASSUME PoolInv, PoolTypeOK', NEW i \in Ids, ForgetStarts(i) PROVE PoolInv'
<1>1. /\ Running({"forget"}, "queued", i) /\ "queued" \in Points
      /\ lane # <<>> /\ lane[1].id = i
  BY HeadIs DEF ForgetStarts, PoolInv, Points
<1>2. i \notin Direct => build[i] = None
  BY <1>1, OfRunning
<1>3. record'[i] = 0 /\ \A j \in Ids \ {i} : record'[j] = record[j]
  BY DEF ForgetStarts, PoolInv, PoolTypeOK
<1>4. NoticeInv'
  BY <1>3 DEF PoolInv, NoticeInv, ForgetStarts, PoolTypeOK, Notices, Ids
<1>5. CASE lane' = Done
  <2>1. pooled[i] = None
    <3>1. ~(lane' = At("closing"))
      <4>1. lane \in Seq(Ops) /\ lane[1] \in Ops /\ Head(lane) = lane[1]
        BY <1>1, LaneFacts DEF PoolInv, PoolTypeOK, Ops
      <4>2. At("closing") \in Seq(Ops) /\ Len(At("closing")) = Len(lane)
        BY <1>1, <4>1, LaneTyped DEF At, Points
      <4>3. Len(Done) # Len(lane)
        BY <1>1, <4>1 DEF Done
      <4>4. QED BY <1>5, <4>2, <4>3
    <3>2. QED BY <3>1 DEF ForgetStarts
  <2>2. QED BY <1>1, <1>2, <1>3, <1>4, <1>5, <2>1, StepDone DEF ForgetStarts
<1>6. CASE lane' = At("closing")
  <2>1. Turns(i, "closing")
    BY <1>1, <1>6, Moves DEF PoolInv, Points
  <2>2. QED BY <1>1, <1>2, <1>3, <1>4, <2>1, StepTurns DEF ForgetStarts
<1>7. QED BY <1>5, <1>6 DEF ForgetStarts

\* A forget closes the windows.
LEMMA StepForgetCloses ==
  ASSUME PoolInv, PoolTypeOK', NEW i \in Ids, ForgetCloses(i) PROVE PoolInv'
<1>1. /\ Running({"forget"}, "closing", i) /\ "closing" \in Points
      /\ lane # <<>> /\ lane[1].id = i
  BY HeadIs DEF ForgetCloses, PoolInv, Points
<1>2. Turns(i, "dropping") /\ NoticeInv'
  BY <1>1, Moves DEF PoolInv, ForgetCloses, NoticeInv, Points
<1>3. QED BY <1>1, <1>2, StepTurns DEF ForgetCloses

\* A forget disposes the client.
LEMMA StepForgetDrops ==
  ASSUME PoolInv, PoolTypeOK', NEW i \in Ids, ForgetDrops(i) PROVE PoolInv'
<1>1. Running({"forget"}, "dropping", i) /\ "dropping" \in Points /\ NoticeInv'
  BY DEF PoolInv, ForgetDrops, NoticeInv, Points
<1>2. i \notin windows
  BY <1>1, OfRunning
<1>3. pooled'[i] = None /\ \A j \in Ids \ {i} : pooled'[j] = pooled[j]
  BY DEF ForgetDrops, Disposed, PoolInv, PoolTypeOK
<1>4. QED BY <1>1, <1>2, <1>3, StepDone DEF ForgetDrops

\* A re-pair or an update writes the store.
LEMMA StepRepairStarts ==
  ASSUME PoolInv, PoolTypeOK', NEW i \in Ids, RepairStarts(i) PROVE PoolInv'
<1>1. /\ Running({"repair", "update"}, "queued", i) /\ "queued" \in Points
      /\ lane # <<>> /\ lane[1].id = i
  BY HeadIs DEF RepairStarts, PoolInv, Points
<1>2. /\ i \notin Direct => build[i] = None
      /\ pooled[i] # None /\ i \notin Direct => pooled[i].cred = record[i] \/ Due(i)
      /\ i \in windows /\ record[i] # 0 /\ pooled[i] = None => RebuildQueued(i)
  BY <1>1, OfRunning
<1>3. Due(i)' <=> Due(i)
  BY DEF Due, RepairStarts
<1>4. CASE lane' = Done /\ record' = record
  <2>1. Ends(i) /\ NoticeInv'
    BY <1>1, <1>4, Moves DEF PoolInv, NoticeInv, RepairStarts
  <2>2. RebuildQueued(i) => RebuildQueued(i)'
    BY <1>1, <2>1, RebuildWaits
  <2>3. QED BY <1>1, <1>2, <1>3, <1>4, <2>1, <2>2, StepDone DEF RepairStarts
<1>5. CASE /\ record[i] # 0 /\ lane' = At("written")
           /\ record' = [record EXCEPT ![i] = @ + 1]
  <2>1. /\ Turns(i, "written")
        /\ \A j \in Ids \ {i} : record'[j] = record[j]
    BY <1>1, <1>5, Moves DEF PoolInv, PoolTypeOK, Points
  <2>2. NoticeInv'
    BY <1>5, <2>1 DEF PoolInv, NoticeInv, RepairStarts, PoolTypeOK, Notices, Ids
  <2>3. RebuildQueued(i) => RebuildQueued(i)'
    BY <1>1, <2>1, RebuildWaits
  <2>4. QED BY <1>1, <1>2, <1>5, <2>1, <2>2, <2>3, StepTurns DEF RepairStarts
<1>6. QED BY <1>4, <1>5 DEF RepairStarts

\* A re-pair or an update replaces the live client.
LEMMA StepRepairConnects ==
  ASSUME PoolInv, PoolTypeOK', NEW i \in Ids, RepairConnects(i) PROVE PoolInv'
<1>1. /\ Running({"repair", "update"}, "written", i) /\ "written" \in Points
      /\ lane # <<>> /\ lane[1].id = i /\ NoticeInv'
  BY HeadIs DEF RepairConnects, PoolInv, Points, NoticeInv
<1>2. /\ i \notin Direct => build[i] = None
      /\ i \in windows /\ record[i] # 0 /\ pooled[i] = None => RebuildQueued(i)
  BY <1>1, OfRunning
<1>3. pooled'[i] = None /\ \A j \in Ids \ {i} : pooled'[j] = pooled[j]
  BY DEF RepairConnects, Disposed, PoolInv, PoolTypeOK
<1>4. CASE build' = Joined(i) /\ lane' = At("connecting")
  <2>1. Turns(i, "connecting")
    BY <1>1, <1>4, Moves DEF PoolInv, RepairConnects, Points
  <2>2. /\ build'[i] # None /\ build'[i].gen <= generation[i]
        /\ i \notin Direct => build'[i].stage # "built"
        /\ \A j \in Ids \ {i} : build'[j] = build[j]
    BY <1>2, <1>4, JoinedBuild DEF RepairConnects
  <2>3. QED BY <1>1, <1>3, <2>1, <2>2, StepTurns DEF RepairConnects
<1>5. CASE pooled[i] = None /\ lane' = Done /\ build' = build
  <2>2. Ends(i)
    BY <1>1, <1>5, Moves DEF PoolInv
  <2>3. RebuildQueued(i) => RebuildQueued(i)'
    BY <1>1, <2>2, RebuildWaits
  <2>4. QED BY <1>1, <1>2, <1>3, <1>5, <2>3, StepDone DEF RepairConnects
<1>6. QED BY <1>4, <1>5 DEF RepairConnects

\* The teardown after a removal closes the windows.
LEMMA StepCloseRuns ==
  ASSUME PoolInv, PoolTypeOK', NEW i \in Ids, CloseRuns(i) PROVE PoolInv'
<1>1. Running({"close"}, "queued", i) /\ "queued" \in Points /\ NoticeInv'
  BY DEF PoolInv, CloseRuns, NoticeInv, Points
<1>2. pooled[i] # None /\ i \notin Direct => pooled[i].cred = record[i] \/ Due(i)
  BY <1>1, OfRunning
<1>3. Due(i)' <=> Due(i)
  BY DEF Due, CloseRuns
<1>4. QED BY <1>1, <1>2, <1>3, StepDone DEF CloseRuns

\* Every operation of the lane keeps the invariant.
LEMMA StepLane ==
  ASSUME PoolInv, PoolTypeOK', NEW i \in Ids, LaneStep(i) PROVE PoolInv'
<1>1. CASE RebuildStarts(i)
  BY <1>1, StepConnects DEF RebuildStarts
<1>2. QED BY <1>1, StepOpenStarts, StepOpenEnds, StepForgetStarts, StepForgetCloses,
             StepForgetDrops, StepRepairStarts, StepRepairConnects, StepCloseRuns DEF LaneStep

-----------------------------------------------------------------------------
(* What holds of the pool.                                                 *)

\* The invariant holds at start.
LEMMA PoolInvInit == PoolInit => PoolInv
<1> SUFFICES ASSUME PoolInit PROVE PoolInv
  OBVIOUS
<1>1. PoolTypeOK
  BY InitTyped
<1>2. lane = <<>> /\ notice = None /\ windows = {} /\ DOMAIN lane = {}
      /\ \A i \in Ids : pooled[i] = None /\ build[i] = None
  BY DEF PoolInit
<1>3. LaneInv /\ NoticeInv
  BY <1>2 DEF LaneInv, NoticeInv
<1>4. \A i \in Ids : InvFor(i)
  BY <1>2 DEF InvFor, BuildInv, BuiltInv, StoredInv, ServedInv, HeadAt
<1>5. QED BY <1>1, <1>3, <1>4 DEF PoolInv

\* Every step keeps the invariant.
LEMMA PoolInvNext ==
  ASSUME PoolInv, [PoolNext]_poolVars PROVE PoolInv'
<1>1. CASE PoolNext
  <2>1. PICK i \in Ids : Asked(i) \/ BuildStep(i) \/ LaneStep(i) \/ Notified(i) \/ OutsideStep(i)
    BY <1>1 DEF PoolNext
  <2>2. PoolTypeOK /\ PoolTypeOK'
    BY <2>1, BuildTyped, LaneStepTyped, OtherTyped DEF PoolInv
  <2>3. QED BY <2>1, <2>2, StepAsked, StepBuild, StepLane, StepNotified, StepDirect, StepStore,
               StepLastWindow DEF OutsideStep
<1>2. CASE UNCHANGED poolVars
  <2>1. LaneInv' /\ (\A j \in Ids : SameFor(j)) /\ NoticeInv' /\ PoolTypeOK'
    BY <1>2, WhenItStays DEF PoolInv, NoticeInv, poolVars, PoolTypeOK
  <2>2. \A j \in Ids : Untouched(j)
    BY <1>2, <2>1 DEF poolVars, Untouched, Due
  <2>3. QED BY <2>1, <2>2, UntouchedKeeps DEF PoolInv
<1>3. QED BY <1>1, <1>2

\* The invariant of the pool: whatever the user, the stores and the builds of
\* backend.ipc.ts do, and in whatever order.
THEOREM PoolInvariant == PoolSpec => []PoolInv
  BY PoolInvInit, PoolInvNext, PTL DEF PoolSpec

\* No client built from a configuration that was read before the last replacement
\* or removal is ever pooled (connectBackendClientOriginal and the notices).
THEOREM PoolGenerations == PoolSpec => []ClientOfThisGeneration
<1>1. PoolInv => ClientOfThisGeneration
  BY DEF PoolInv, InvFor, ClientOfThisGeneration
<1>2. QED BY <1>1, PoolInvariant, PTL

\* A client that no operation and no notice is about authenticates with the
\* credential its store holds (connectBackendClientOriginal, the connection lane).
THEOREM PoolCredentials == PoolSpec => []PooledAsStored
<1>1. PoolInv => PooledAsStored
  <2> SUFFICES ASSUME PoolInv, NEW i \in Ids \ Direct, Quiet(i), pooled[i] # None
               PROVE  pooled[i].cred = record[i]
    BY DEF PooledAsStored
  <2>1. lane # <<>> => 1 \in DOMAIN lane
    BY LaneFacts DEF PoolInv, PoolTypeOK, Ops
  <2>2. QED BY <2>1 DEF PoolInv, InvFor, StoredInv, Quiet, Due, HeadAt
<1>2. QED BY <1>1, PoolInvariant, PTL

\* A window of a saved backend has a client once nothing is pending for it
\* (onGuestCredentialReplaced's rebuild, performOpenBackendWindow).
THEOREM PoolServesWindows == PoolSpec => []WindowsAreServed
<1>1. PoolInv => WindowsAreServed
  <2> SUFFICES ASSUME PoolInv, NEW i \in windows, Quiet(i), record[i] # 0, pooled[i] = None
               PROVE  FALSE
    BY DEF WindowsAreServed
  <2>1. (lane # <<>> => 1 \in DOMAIN lane) /\ i \in Ids
    BY LaneFacts DEF PoolInv, PoolTypeOK, Ops
  <2>2. QED BY <2>1 DEF PoolInv, InvFor, ServedInv, Quiet, HeadAt, RebuildQueued, Rebuilding
<1>2. QED BY <1>1, PoolInvariant, PTL

=============================================================================
