------------------------- MODULE DeltaSubscription -------------------------
(***************************************************************************)
(* The renderer's replica of a daemon collection                           *)
(* (src/lib/client/live/delta-subscription.ts): typed channels registered  *)
(* by a subscribe request, seeded by a snapshot push, kept up to date by   *)
(* numbered deltas, filled up by continuation pages, and registered again  *)
(* after a gap, a failed registration or a reconnect.                      *)
(*                                                                         *)
(* Dynamic says which of the two forms of the code is meant: one channel   *)
(* per desired id, or a single static one.  The daemon and the transport   *)
(* are external: replies and pushes travel on their own, the pushes of one *)
(* subscription in order, and a push may be lost.  Registration attempts   *)
(* are numbered, and the number of the attempt serves as the daemon's      *)
(* subscription id; row states are numbered by the change that made them.  *)
(***************************************************************************)
EXTENDS Naturals, Sequences, FiniteSets, Functions

CONSTANTS
  Channels,      \* the ids a channel may be opened for
  Rows,          \* row ids of a collection
  Dynamic,       \* per-id channels, or one static channel
  PageSize,      \* rows of a snapshot's first page
  MaxBuffered,   \* MAX_BUFFERED_PUSHES
  MaxAttempts,   \* bound: registration attempts
  MaxChanges,    \* bound: changes of the daemon's collections
  MaxFaults      \* bound: lost pushes, failed requests and dropped connections

ASSUME DeltaAssumption ==
  /\ Dynamic \in BOOLEAN
  /\ IsFiniteSet(Channels) /\ Channels # {}
  /\ ~Dynamic => \E c \in Channels : Channels = {c}
  /\ PageSize \in Nat /\ MaxBuffered \in Nat
  /\ MaxAttempts \in Nat \ {0} /\ MaxChanges \in Nat \ {0}
  /\ MaxFaults \in Nat

VARIABLES
  desired,    \* the channels there are (dynamicChannels, or the static one)
  disposed,
  ch,         \* each channel: its registration and its reconciler
  buffer,     \* bufferedPushes
  shown,      \* what the handler was last given, by channel
  attempts,   \* attempts made so far
  req,        \* each attempt's subscribe request
  of,         \* the channel an attempt was made for
  page,       \* each snapshot's continuation
  released,   \* subscriptions the client asked the daemon to end
  connected,  \* the transport
  store,      \* the daemon's collections: each row's state, 0 when absent
  changes,    \* changes made so far
  live,       \* the daemon's subscriptions
  sent,       \* pushes made on a subscription
  wire,       \* pushes on their way, by subscription
  cut,        \* the rows a snapshot's first page had
  pageRows,   \* the rows of a continuation reply on its way
  faults

clientVars == <<desired, disposed, ch, buffer, shown, attempts, req, of, page,
                released>>
daemonVars == <<store, changes, live, sent, wire, cut, pageRows>>
vars == <<clientVars, connected, daemonVars, faults>>

Attempts == 1..MaxAttempts
NoRows == [i \in Rows |-> 0]
NoPage == [i \in {} |-> 0]

\* A channel that was just created: nothing registered, nothing received.
\* next is expectedSeq, 0 while the reconciler is unseeded.
FreshChannel == [reg |-> 0, sid |-> 0, retry |-> FALSE, awaiting |-> FALSE,
                 next |-> 0, rows |-> NoRows, gone |-> {}]

Push(n, kind, seq, rows, more) ==
  [sub |-> n, kind |-> kind, seq |-> seq, rows |-> rows, more |-> more]

-----------------------------------------------------------------------------
(* The client, as functions on the variables it changes.                   *)

Client == [ch |-> ch, buffer |-> buffer, shown |-> shown,
           attempts |-> attempts, req |-> req, of |-> of, page |-> page,
           released |-> released]

\* One turn of the client's event loop; MaxAttempts bounds it.
Becomes(st) ==
  /\ st.attempts <= MaxAttempts
  /\ ch' = st.ch /\ buffer' = st.buffer /\ shown' = st.shown
  /\ attempts' = st.attempts /\ req' = st.req /\ of' = st.of
  /\ page' = st.page /\ released' = st.released

\* emit(): the handler gets the merged rows of all channels.
Emit(st) == [st EXCEPT !.shown = [c \in Channels |-> st.ch[c].rows]]

\* registerChannel(), registerDynamicChannel(): fresh attempts, numbered in some
\* order, supersede the ones before them.
Register(st, S) ==
  LET k == Cardinality(S)
      new == (st.attempts + 1)..(st.attempts + k)
      order == CHOOSE f \in Bijection(1..k, S) : TRUE
      number == [c \in S |-> st.attempts + CHOOSE i \in 1..k : order[i] = c]
  IN  [st EXCEPT
        !.attempts = @ + k,
        !.req = [n \in Attempts |-> IF n \in new THEN "asked" ELSE @[n]],
        !.of = [n \in Attempts |->
                  IF n \in new THEN order[n - st.attempts] ELSE @[n]],
        !.ch = [c \in Channels |->
                  IF c \in S THEN [@[c] EXCEPT !.reg = number[c],
                                               !.retry = FALSE]
                  ELSE @[c]]]

\* unregisterChannel(), unregisterDynamicChannel()
Unregister(st, S) ==
  [st EXCEPT
    !.ch = [c \in Channels |->
              IF c \in S THEN [@[c] EXCEPT !.reg = 0, !.retry = FALSE,
                                           !.sid = 0]
              ELSE @[c]],
    !.released = @ \cup ({st.ch[c].sid : c \in S} \ {0})]

\* DeltaReconciler.reset(): a new epoch, which the continuation of the old
\* snapshot notices.
Reset(st, S) ==
  [st EXCEPT
    !.ch = [c \in Channels |->
              IF c \in S THEN [@[c] EXCEPT !.next = 0, !.rows = NoRows,
                                           !.gone = {}]
              ELSE @[c]],
    !.page = [n \in Attempts |->
                IF \E c \in S : n = st.ch[c].sid THEN "none" ELSE @[n]]]

\* Mutant of Resnapshot: the static form shows the empty collection, too.
ResnapshotEmits(st, c) ==
  Emit(Register(Unregister(Reset(st, {c}), {c}), {c}))

\* resnapshot(), resnapshotDynamicChannel(): a fresh registration for a fresh
\* snapshot.  Only the dynamic form shows the collection without the channel.
Resnapshot(st, c) ==
  LET again == Register(Unregister(Reset(st, {c}), {c}), {c}) IN
  IF ~Dynamic THEN again
  ELSE IF st.ch[c].awaiting THEN st
  ELSE Emit([again EXCEPT !.ch[c].awaiting = TRUE])

\* hasPendingRegistration()
\* Mutant: pushes that come before their reply are dropped.
PendingNever(st) == FALSE

Pending(st) == \E c \in desired : st.ch[c].sid = 0

\* bufferPush(): the oldest push makes room.
BufferPush(st, p) ==
  LET b == Append(st.buffer, p) IN
  [st EXCEPT !.buffer = IF Len(b) > MaxBuffered THEN Tail(b) ELSE b]

\* The rows of a collection once a push has changed some of them.
Over(new, old) ==
  [i \in Rows |-> IF i \in DOMAIN new THEN new[i] ELSE old[i]]

\* A snapshot replaces the collection and starts its continuation.
ApplySnapshot(st, c, p) ==
  Emit([st EXCEPT
    !.ch[c] = [@ EXCEPT !.next = p.seq + 1, !.rows = Over(p.rows, NoRows),
                        !.gone = {}, !.awaiting = FALSE],
    !.page[p.sub] = IF p.more THEN "asked" ELSE "none"])

\* A delta upserts and removes rows, and remembers the rows it removed.
ApplyDelta(st, c, p) ==
  Emit([st EXCEPT
    !.ch[c] = [@ EXCEPT
      !.next = p.seq + 1, !.rows = Over(p.rows, st.ch[c].rows),
      !.gone = st.ch[c].gone \cup {i \in DOMAIN p.rows : p.rows[i] = 0}]])

\* Whether a delta is the next one.
\* Mutant: any delta of a seeded channel will do.
InSequenceIfSeeded(st, c, p) == st.ch[c].next # 0

InSequence(st, c, p) == st.ch[c].next # 0 /\ st.ch[c].next = p.seq

\* processPush(): route a push to the channel it belongs to.
ProcessPush(st, p) ==
  LET owners == {c \in desired : st.ch[c].sid = p.sub}
      c == CHOOSE o \in owners : TRUE
  IN  IF owners = {} THEN IF Pending(st) THEN BufferPush(st, p) ELSE st
      ELSE IF p.kind = "snapshot" THEN ApplySnapshot(st, c, p)
      ELSE IF st.ch[c].awaiting THEN st
      ELSE IF InSequence(st, c, p) THEN ApplyDelta(st, c, p)
      ELSE Resnapshot(st, c)

\* filter(): the pushes of the subscriptions N, in their order (SelectSeq, with
\* a definition that can be reasoned about).
PushesOf(pushes, N) ==
  LET chosen[k \in 0..Len(pushes)] ==
        IF k = 0 THEN <<>>
        ELSE IF pushes[k].sub \in N THEN Append(chosen[k - 1], pushes[k])
        ELSE chosen[k - 1]
  IN  chosen[Len(pushes)]

\* drainBufferedPushes(): the held pushes of subscription n, in their order.
Replayed(st, pushes) ==
  LET after[k \in 0..Len(pushes)] ==
        IF k = 0 THEN st ELSE ProcessPush(after[k - 1], pushes[k])
  IN  after[Len(pushes)]

\* drainBufferedPushes() and pruneForeignBufferedPushes() of a confirmed
\* subscription.
Drain(st, n) ==
  LET matched == PushesOf(st.buffer, {n})
      others == PushesOf(st.buffer, Attempts \ {n})
      done == Replayed([st EXCEPT !.buffer = others], matched)
  IN  IF Pending(done) THEN done ELSE [done EXCEPT !.buffer = <<>>]

-----------------------------------------------------------------------------
(* The client's turns.                                                     *)

\* The reply of attempt n is for the channel as it is registered now.
Current(n) == of[n] \in desired /\ ch[of[n]].reg = n

\* .then() of a subscribe request: confirm the subscription and replay what it
\* was pushed, or release it when the attempt was superseded.
\* Mutant: a superseded reply is just dropped.
StaleReplyDropped(n) == Becomes([Client EXCEPT !.req[n] = "done"])

StaleReply(n) ==
  Becomes([Client EXCEPT !.req[n] = "done", !.released = @ \cup {n}])

DeliverReply(n) ==
  /\ req[n] = "acked"
  /\ \/ ~Current(n) /\ StaleReply(n)
     \/ /\ Current(n)
        /\ Becomes(Drain([Client EXCEPT !.req[n] = "done",
                                        !.ch[of[n]].sid = n], n))
  /\ UNCHANGED <<desired, disposed, connected, daemonVars, faults>>

\* .catch() of a subscribe request, and a reply without an id.
\* Mutant: no retry is armed.
FailedWithoutRetry(n) == Becomes([Client EXCEPT !.req[n] = "done"])

Failed(n) ==
  Becomes([Client EXCEPT
    !.req[n] = "done",
    !.ch = [c \in Channels |->
              IF c = of[n] /\ Current(n) THEN [@[c] EXCEPT !.retry = TRUE]
              ELSE @[c]]])

DeliverFailure(n) ==
  /\ req[n] = "failed"
  /\ Failed(n)
  /\ UNCHANGED <<desired, disposed, connected, daemonVars, faults>>

\* The request times out although the daemon has made the subscription.
ReplyTimesOut(n) ==
  /\ req[n] = "acked" /\ faults < MaxFaults
  /\ faults' = faults + 1
  /\ Becomes([Client EXCEPT
       !.req[n] = "timedout",
       !.ch = [c \in Channels |->
                 IF c = of[n] /\ Current(n) THEN [@[c] EXCEPT !.retry = TRUE]
                 ELSE @[c]]])
  /\ UNCHANGED <<desired, disposed, connected, daemonVars>>

RetryFires(c) ==
  /\ c \in desired /\ ch[c].retry
  /\ Becomes(Register(Client, {c}))
  /\ UNCHANGED <<desired, disposed, connected, daemonVars, faults>>

\* The oldest push of a subscription reaches the client.
DeliverPush(n) ==
  /\ wire[n] # <<>>
  /\ wire' = [wire EXCEPT ![n] = Tail(@)]
  /\ Becomes(IF disposed THEN Client ELSE ProcessPush(Client, Head(wire[n])))
  /\ UNCHANGED <<desired, disposed, connected, store, changes, live, sent, cut,
                 pageRows, faults>>

\* fillFromPage(): a row the collection has is newer, one that was removed
\* is gone.
\* Mutant: removed rows come back.
FillsAlways(c, i) == ch[c].rows[i] = 0

Fills(c, i) == ch[c].rows[i] = 0 /\ i \notin ch[c].gone

\* The rest of a snapshot arrives.  The collection is shown again even when
\* the channel has been removed since.
DeliverPage(n) ==
  LET c == of[n]
      filled == [i \in Rows |-> IF i \in DOMAIN pageRows[n] /\ Fills(c, i)
                                THEN pageRows[n][i] ELSE ch[c].rows[i]]
      st == [Client EXCEPT !.page[n] = "none"]
  IN  /\ page[n] = "read"
      /\ Becomes(Emit(IF ch[c].sid = n THEN [st EXCEPT !.ch[c].rows = filled]
                      ELSE st))
      /\ pageRows' = [pageRows EXCEPT ![n] = NoPage]
      /\ UNCHANGED <<desired, disposed, connected, store, changes, live, sent,
                     wire, cut, faults>>

\* Every try of a page failed; after a delay the channel is registered again.
PageFails(n) == page' = [page EXCEPT ![n] = "gaveup"]

PageGivesUp(n) ==
  /\ page[n] = "asked" /\ faults < MaxFaults
  /\ faults' = faults + 1
  /\ PageFails(n)
  /\ UNCHANGED <<desired, disposed, ch, buffer, shown, attempts, req, of,
                 released, connected, daemonVars>>

GiveUpFires(n) ==
  LET st == [Client EXCEPT !.page[n] = "none"] IN
  /\ page[n] = "gaveup"
  /\ Becomes(IF ch[of[n]].sid = n THEN Resnapshot(st, of[n]) ELSE st)
  /\ UNCHANGED <<desired, disposed, connected, daemonVars, faults>>

\* reconcileDesiredIds(): channels that went are torn down and evicted, new
\* ones registered.
SetDesired(D) ==
  LET torn == Unregister(Client, desired \ D)
      fresh == [torn EXCEPT !.ch = [c \in Channels |->
                  IF c \in desired \cap D THEN @[c] ELSE FreshChannel]]
  IN  /\ Dynamic /\ ~disposed /\ D # desired
      /\ desired' = D
      /\ Becomes(Emit(Register(fresh, D \ desired)))
      /\ UNCHANGED <<disposed, connected, daemonVars, faults>>

\* The transport is back: the daemon's registry is empty, and every channel
\* registers again.
\* Mutant of Renewed: the id of the old connection is kept.
RenewedKeepsId(st, S) ==
  LET reset == Reset(st, S) IN
  Register([reset EXCEPT
    !.ch = [c \in Channels |->
              IF c \in S THEN [@[c] EXCEPT !.awaiting = FALSE] ELSE @[c]]], S)

Renewed(st, S) ==
  LET reset == Reset(st, S) IN
  Register([reset EXCEPT
    !.ch = [c \in Channels |->
              IF c \in S THEN [@[c] EXCEPT !.sid = 0, !.awaiting = FALSE]
              ELSE @[c]]], S)

Reconnected ==
  /\ ~connected /\ connected' = TRUE
  /\ Becomes(Renewed([Client EXCEPT !.buffer = <<>>], desired))
  /\ UNCHANGED <<desired, disposed, daemonVars, faults>>

\* The disposer.
Dispose ==
  /\ ~disposed /\ disposed' = TRUE
  /\ desired' = {}
  /\ Becomes([Unregister(Client, desired) EXCEPT
                !.page = [n \in Attempts |-> "none"]])
  /\ UNCHANGED <<connected, daemonVars, faults>>

-----------------------------------------------------------------------------
(* The daemon and the transport, as the client relies on them.             *)

Present(c) == {i \in Rows : store[c][i] # 0}

\* A subscription is made; its snapshot carries at most PageSize rows.
DaemonSubscribes(n) ==
  /\ req[n] = "asked" /\ connected
  /\ req' = [req EXCEPT ![n] = "acked"]
  /\ live' = live \cup {n}
  /\ \E first \in SUBSET Present(of[n]) :
       /\ \/ first = Present(of[n]) /\ Cardinality(first) <= PageSize
          \/ first # Present(of[n]) /\ Cardinality(first) = PageSize
       /\ cut' = [cut EXCEPT ![n] = first]
       /\ wire' = [wire EXCEPT ![n] = <<Push(n, "snapshot", 0,
                     [i \in first |-> store[of[n]][i]],
                     first # Present(of[n]))>>]
  /\ sent' = [sent EXCEPT ![n] = 1]
  /\ UNCHANGED <<desired, disposed, ch, buffer, shown, attempts, of, page,
                 released, connected, store, changes, pageRows, faults>>

DaemonRefuses(n) ==
  /\ req[n] = "asked" /\ connected /\ faults < MaxFaults
  /\ faults' = faults + 1
  /\ req' = [req EXCEPT ![n] = "failed"]
  /\ UNCHANGED <<desired, disposed, ch, buffer, shown, attempts, of, page,
                 released, connected, daemonVars>>

\* A row changes or goes, and every subscription of the collection is told; a
\* delta may get lost.
DaemonChanges(c, i) ==
  LET told == {n \in live : of[n] = c} IN
  /\ changes < MaxChanges
  /\ changes' = changes + 1
  /\ \E v \in {0, changes'} \ {store[c][i]}, loses \in BOOLEAN :
       /\ loses => told # {} /\ faults < MaxFaults
       /\ faults' = faults + (IF loses THEN 1 ELSE 0)
       /\ store' = [store EXCEPT ![c][i] = v]
       /\ wire' = [n \in Attempts |->
                     IF n \in told /\ ~loses
                     THEN Append(wire[n], Push(n, "delta", sent[n],
                                               [r \in {i} |-> v], FALSE))
                     ELSE wire[n]]
  /\ sent' = [n \in Attempts |-> sent[n] + (IF n \in told THEN 1 ELSE 0)]
  /\ UNCHANGED <<clientVars, connected, live, cut, pageRows>>

\* The list read behind a snapshot's continuation.
DaemonReads(n) ==
  /\ page[n] = "asked" /\ connected
  /\ page' = [page EXCEPT ![n] = "read"]
  /\ pageRows' = [pageRows EXCEPT ![n] =
       [i \in Present(of[n]) \ cut[n] |-> store[of[n]][i]]]
  /\ cut' = [cut EXCEPT ![n] = {}]
  /\ UNCHANGED <<desired, disposed, ch, buffer, shown, attempts, req, of,
                 released, connected, store, changes, live, sent, wire,
                 faults>>

DaemonUnsubscribes(n) ==
  /\ connected /\ n \in live \cap released
  /\ live' = live \ {n}
  /\ sent' = [sent EXCEPT ![n] = 0]
  /\ UNCHANGED <<clientVars, connected, store, changes, wire, cut, pageRows,
                 faults>>

\* The connection drops: requests in flight fail, the daemon's registry and
\* the pushes on their way are gone.  A page that is still to come gives up at once:
\* the tries it has left are taken to fail as well.
Drop ==
  /\ connected /\ connected' = FALSE
  /\ faults < MaxFaults /\ faults' = faults + 1
  /\ live' = {} /\ wire' = [n \in Attempts |-> <<>>]
  /\ sent' = [n \in Attempts |-> 0] /\ cut' = [n \in Attempts |-> {}]
  /\ req' = [n \in Attempts |->
       IF req[n] \in {"asked", "acked"} THEN "failed" ELSE req[n]]
  /\ page' = [n \in Attempts |->
       IF page[n] \in {"asked", "read"} THEN "gaveup" ELSE page[n]]
  /\ UNCHANGED <<desired, disposed, ch, buffer, shown, attempts, of, released,
                 store, changes, pageRows>>

-----------------------------------------------------------------------------
\* createDeltaSubscription(): the static form registers at once, the dynamic
\* one waits for its ids.
Init ==
  /\ disposed = FALSE /\ connected = TRUE
  /\ \/ Dynamic /\ desired = {} /\ attempts = 0
     \/ ~Dynamic /\ desired = Channels /\ attempts = 1
  /\ ch = [c \in Channels |-> [FreshChannel EXCEPT !.reg = attempts]]
  /\ buffer = <<>>
  /\ shown = [c \in Channels |-> NoRows]
  /\ req = [n \in Attempts |-> IF n = attempts THEN "asked" ELSE "none"]
  /\ of = [n \in Attempts |-> CHOOSE c \in Channels : TRUE]
  /\ page = [n \in Attempts |-> "none"]
  /\ released = {} /\ live = {}
  /\ store \in {[c \in Channels |-> [i \in Rows |-> v]] : v \in {0, 1}}
  /\ changes = 1 /\ faults = 0
  /\ sent = [n \in Attempts |-> 0]
  /\ wire = [n \in Attempts |-> <<>>]
  /\ cut = [n \in Attempts |-> {}]
  /\ pageRows = [n \in Attempts |-> NoPage]

Next ==
  \/ \E n \in Attempts :
       DeliverReply(n) \/ DeliverFailure(n) \/ ReplyTimesOut(n)
       \/ DeliverPush(n) \/ DeliverPage(n) \/ PageGivesUp(n) \/ GiveUpFires(n)
       \/ DaemonSubscribes(n) \/ DaemonRefuses(n) \/ DaemonReads(n)
       \/ DaemonUnsubscribes(n)
  \/ \E c \in Channels : RetryFires(c) \/ \E i \in Rows : DaemonChanges(c, i)
  \/ \E D \in SUBSET Channels : SetDesired(D)
  \/ Reconnected \/ Dispose \/ Drop

Spec == Init /\ [][Next]_vars

-----------------------------------------------------------------------------
(* What the replica promises.                                              *)

Values == 0..MaxChanges
PartialRows == UNION {[I -> Values] : I \in SUBSET Rows}
Pushes == [sub : Attempts, kind : {"snapshot", "delta"}, seq : Values,
           rows : PartialRows, more : BOOLEAN]
Replicas == [reg : 0..MaxAttempts, sid : 0..MaxAttempts, retry : BOOLEAN,
             awaiting : BOOLEAN, next : 0..(MaxChanges + 1),
             rows : [Rows -> Values], gone : SUBSET Rows]

\* The state the module's variables are always in: attempts, replicas and
\* daemon subscriptions of the right kind (createDeltaSubscription's fields).
TypeOK ==
  /\ desired \subseteq Channels /\ disposed \in BOOLEAN
  /\ ch \in [Channels -> Replicas]
  /\ \A c \in Channels : ch[c].reg <= attempts /\ ch[c].sid \in {0, ch[c].reg}
  /\ buffer \in Seq(Pushes) /\ Len(buffer) <= MaxBuffered
  /\ shown \in [Channels -> [Rows -> Values]]
  /\ attempts \in 0..MaxAttempts
  /\ req \in [Attempts -> {"none", "asked", "acked", "failed", "timedout",
                           "done"}]
  /\ of \in [Attempts -> Channels]
  /\ page \in [Attempts -> {"none", "asked", "read", "gaveup"}]
  /\ released \cup live \subseteq Attempts
  /\ connected \in BOOLEAN
  /\ store \in [Channels -> [Rows -> Values]]
  /\ changes \in Values /\ faults \in 0..MaxFaults
  /\ sent \in [Attempts -> Values]
  /\ wire \in [Attempts -> Seq(Pushes)]
  /\ cut \in [Attempts -> SUBSET Rows]
  /\ pageRows \in [Attempts -> PartialRows]

\* Channel c is seeded, nothing is under way on its subscription, and the last
\* delta the daemon sent on it was not lost.
Settled(c) ==
  LET n == ch[c].sid IN
  /\ connected /\ ch[c].next # 0 /\ n \in live
  /\ wire[n] = <<>> /\ page[n] = "none" /\ ch[c].next = sent[n]

\* A settled channel shows exactly the daemon's
\* collection, whatever order snapshot, pages and deltas came in: deltas that
\* overtake a continuation page are neither undone nor resurrected by it
\* (DeltaReconciler.fillFromPage), and a delta lost on the way is noticed by the
\* one after it (applyDelta).
Converged ==
  \A c \in desired :
    Settled(c) => ch[c].rows = store[c] /\ shown[c] = store[c]

\* Every subscription the daemon holds is one the client uses, is about to
\* learn of, asked the daemon to end, or gave up on when its request timed
\* out: a reply superseded by a newer attempt, a removal or the disposer
\* leaks nothing (registerChannel's "stale resolve").
NoLeakedSubscription ==
  \A n \in live :
    \/ of[n] \in desired /\ ch[of[n]].sid = n
    \/ req[n] \in {"acked", "timedout"}
    \/ n \in released

\* A push of subscription n is coming that seeds channel c: its snapshot, or a
\* delta that makes an unseeded channel register again.
SeedComing(c, n) ==
  LET coming == {wire[n][k] : k \in DOMAIN wire[n]}
                  \cup {p \in {buffer[k] : k \in DOMAIN buffer} : p.sub = n}
  IN  \E p \in coming : p.kind = "snapshot" \/ ~ch[c].awaiting

\* A channel without a snapshot is always on its way to one: a retry is armed,
\* its request is in flight, a push that seeds it is coming, or the transport
\* is down and will announce its return.  "A registration failure must keep
\* retrying rather than leaving the subscription permanently unseeded"
\* (retryDelayMs).
UnseededIsAttended ==
  \A c \in desired :
    ch[c].next = 0 =>
      \/ ~connected
      \/ ch[c].retry
      \/ ch[c].sid # 0 /\ SeedComing(c, ch[c].sid)
      \/ /\ ch[c].sid = 0 /\ ch[c].reg # 0
         /\ \/ req[ch[c].reg] \in {"asked", "failed"}
            \/ req[ch[c].reg] = "acked" /\ SeedComing(c, ch[c].reg)

\* The turn confirms the subscription whose snapshot was held for channel c.
ReplaysSnapshot(c) ==
  \E p \in Range(buffer) :
    p.kind = "snapshot" /\ p.sub = ch[c].reg /\ req'[p.sub] # req[p.sub]

\* A channel that stays desired never goes from rows to no rows in front of
\* the user unless a snapshot or a delta said so: "previously reconciled state
\* is never flashed away by a transient gap" (the module's header).
RowsVanishOnlyWhenTold ==
  \A c \in desired \cap desired' :
    shown[c] # NoRows /\ shown'[c] = NoRows =>
      ch'[c].next # 0 \/ ReplaysSnapshot(c)

NeverFlashedAway == [][RowsVanishOnlyWhenTold]_vars

=============================================================================
