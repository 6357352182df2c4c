----------------- MODULE DeltaSubscriptionRefinementProofs -----------------
(***************************************************************************)
(* DeltaSubscription implements CollectionView, for every number of        *)
(* channels, rows, attempts, changes and lost messages.                    *)
(*                                                                         *)
(* FInv says next to the invariant of DeltaSubscriptionProofs what may     *)
(* still be shown: no row is shown, comes with a push or waits in a        *)
(* continuation in a state it never had or that is older than its floor,   *)
(* and the pushes of a subscription bring the states of a row in the order *)
(* in which it had them.  Like ClientInv it is stated of a client state in *)
(* the middle of a handler, which may already show newer rows than those   *)
(* the handler began with (old): what it shows anew is the floor of all    *)
(* that follows.                                                           *)
(***************************************************************************)
EXTENDS DeltaSubscriptionRefinement, DeltaSubscriptionProofs

\* Row i of channel c may still be shown in state v, in the middle of a handler
\* that began when the rows old were shown.
Allowed(st, old, c, i, v) ==
  \/ v = 0
  \/ /\ v \in had[c][i] /\ floor[c][i] <= v
     /\ st.shown[c][i] # old[c][i] => st.shown[c][i] <= v

\* Channel c shows its rows unless it has none, and all in states they may have.
ShownWell(st, old, c) ==
  /\ st.ch[c].rows \in {NoRows, st.shown[c]}
  /\ \A i \in Rows : Allowed(st, old, c, i, st.shown[c][i])

\* Push q does not bring an older state of row i than push p.
NotOlder(p, q, i) ==
  p.seq < q.seq /\ i \in DOMAIN q.rows /\ q.rows[i] # 0 => p.rows[i] <= q.rows[i]

\* What comes for channel c may be shown, in the order it comes.
ComesWell(st, way, old, c) ==
  \A p \in Coming(st, way, st.ch[c].reg) : \A i \in Rows :
    i \in DOMAIN p.rows =>
      /\ Allowed(st, old, c, i, p.rows[i])
      /\ \A q \in Coming(st, way, st.ch[c].reg) : NotOlder(p, q, i)

\* What a continuation adds to channel c may be shown; pr are the rows read.
PagedWell(st, pr, old, c) ==
  st.page[st.ch[c].reg] = "read" =>
    \A i \in Rows :
      i \in DOMAIN pr[st.ch[c].reg] /\ Missing(st, c, i) =>
        Allowed(st, old, c, i, pr[st.ch[c].reg][i])

\* The client shows what it may, and will.
Faithful(D, st, way, pr, old) ==
  /\ \A c \in Channels : ShownWell(st, old, c)
  /\ \A c \in D : ComesWell(st, way, old, c) /\ PagedWell(st, pr, old, c)

\* The history variables have their types, ...
HistoryTyped ==
  /\ had \in [Channels -> [Rows -> SUBSET (0..changes)]]
  /\ floor \in [Channels -> [Rows -> Values]]

\* ... the daemon's state of a row is the newest it had, and the floor is one.
Past ==
  \A c \in Channels : \A i \in Rows :
    /\ store[c][i] \in had[c][i] /\ floor[c][i] \in had[c][i] \cup {0}
    /\ store[c][i] # 0 => \A w \in had[c][i] : w <= store[c][i]

\* The inductive invariant, next to IInv.
FInv ==
  /\ HistoryTyped /\ Past
  /\ Faithful(desired, Client, Way, pageRows, shown)

-----------------------------------------------------------------------------
(* Client states.                                                          *)

\* The states of a row are natural numbers.
LEMMA StatesOfRows ==
  ASSUME HistoryTyped, NEW c \in Channels, NEW i \in Rows
  PROVE  /\ floor[c][i] \in Nat /\ \A v \in had[c][i] : v \in Nat
         /\ \A st \in ClientStates :
              st.shown[c][i] \in Nat /\ st.ch[c].rows[i] \in Nat
         /\ NoRows[i] = 0
<1>1. floor[c][i] \in Values /\ had[c][i] \in SUBSET (0..changes)
  BY DEF HistoryTyped
<1>2. Values \subseteq Nat
  BY DeltaAssumption DEF Values, DeltaAssumption
<1>3. \A st \in ClientStates :
        st.shown[c] \in [Rows -> Values] /\ st.ch[c].rows \in [Rows -> Values]
  BY ClientFields
<1>4. \A v \in 0..changes : v \in Nat
  OBVIOUS
<1>5. QED BY <1>1, <1>2, <1>3, <1>4 DEF NoRows

\* What may be shown may still be shown when nothing new has been.
LEMMA AllowedStill ==
  ASSUME HistoryTyped, NEW st \in ClientStates, NEW r \in ClientStates, NEW old,
         NEW c \in Channels, NEW i \in Rows, NEW v, Allowed(st, old, c, i, v),
         r.shown[c][i] \in {st.shown[c][i], 0}
  PROVE  Allowed(r, old, c, i, v)
BY StatesOfRows DEF Allowed

\* Channel c shows nothing new.
NoNews(st, r, c) ==
  /\ r.ch[c].rows \in {st.ch[c].rows, NoRows}
  /\ r.shown[c] \in {st.shown[c], r.ch[c].rows}

\* It shows what it may, then.
LEMMA StaysShown ==
  ASSUME HistoryTyped, NEW st \in ClientStates, NEW r \in ClientStates, NEW old,
         NEW c \in Channels, ShownWell(st, old, c), NoNews(st, r, c)
  PROVE  /\ ShownWell(r, old, c)
         /\ \A i \in Rows : r.shown[c][i] \in {st.shown[c][i], 0}
<1>1. /\ r.shown[c] \in {st.shown[c], NoRows}
      /\ r.ch[c].rows \in {NoRows, r.shown[c]}
  BY DEF ShownWell, NoNews
<1>2. ASSUME NEW i \in Rows
      PROVE  /\ r.shown[c][i] \in {st.shown[c][i], 0}
             /\ Allowed(r, old, c, i, r.shown[c][i])
  <2>1. r.shown[c][i] \in {st.shown[c][i], 0}
    BY <1>1, StatesOfRows
  <2>2. Allowed(st, old, c, i, r.shown[c][i])
    BY <2>1 DEF ShownWell, Allowed
  <2>3. QED BY <2>1, <2>2, AllowedStill
<1>3. QED BY <1>1, <1>2 DEF ShownWell

\* Nothing comes for channel c that did not before.
Fewer(st, way, r, way2, c) ==
  /\ r.ch[c].reg = st.ch[c].reg
  /\ Coming(r, way2, r.ch[c].reg) \subseteq Coming(st, way, st.ch[c].reg)
  /\ r.page[r.ch[c].reg] = "read" =>
       /\ st.page[st.ch[c].reg] = "read"
       /\ r.ch[c].rows = st.ch[c].rows /\ r.ch[c].gone = st.ch[c].gone

\* What comes for it may be shown, then.
LEMMA StaysWell ==
  ASSUME HistoryTyped, NEW st \in ClientStates, NEW r \in ClientStates, NEW old,
         NEW pr, NEW way, NEW way2, NEW c \in Channels,
         ShownWell(st, old, c), NoNews(st, r, c),
         ComesWell(st, way, old, c), PagedWell(st, pr, old, c),
         Fewer(st, way, r, way2, c)
  PROVE  ComesWell(r, way2, old, c) /\ PagedWell(r, pr, old, c)
<1>1. \A i \in Rows : r.shown[c][i] \in {st.shown[c][i], 0}
  BY StaysShown
<1>2. \A i \in Rows : \A v : Allowed(st, old, c, i, v) => Allowed(r, old, c, i, v)
  BY <1>1, AllowedStill
<1>3. ComesWell(r, way2, old, c)
  BY <1>2 DEF ComesWell, Fewer
<1>4. PagedWell(r, pr, old, c)
  BY <1>2 DEF PagedWell, Fewer, Missing
<1>5. QED BY <1>3, <1>4

\* A channel for which nothing comes.
LEMMA NothingComes ==
  ASSUME NEW r, NEW old, NEW pr, NEW way2, NEW c,
         Coming(r, way2, r.ch[c].reg) = {}, r.page[r.ch[c].reg] # "read"
  PROVE  ComesWell(r, way2, old, c) /\ PagedWell(r, pr, old, c)
BY DEF ComesWell, PagedWell

\* A client that shows nothing new and for which no more comes stays faithful.
LEMMA FewerKeeps ==
  ASSUME HistoryTyped, NEW st \in ClientStates, NEW r \in ClientStates, NEW old,
         NEW pr, NEW way, NEW way2, NEW D \in SUBSET Channels,
         NEW D2 \in SUBSET Channels, Faithful(D, st, way, pr, old),
         \A c \in Channels : NoNews(st, r, c),
         \A c \in D2 :
           \/ c \in D /\ Fewer(st, way, r, way2, c)
           \/ Coming(r, way2, r.ch[c].reg) = {} /\ r.page[r.ch[c].reg] # "read"
  PROVE  Faithful(D2, r, way2, pr, old)
<1>1. \A c \in Channels : ShownWell(r, old, c)
  BY StaysShown DEF Faithful
<1>2. ASSUME NEW c \in D2
      PROVE  ComesWell(r, way2, old, c) /\ PagedWell(r, pr, old, c)
  <2>1. CASE c \in D /\ Fewer(st, way, r, way2, c)
    <3>1. /\ c \in Channels /\ ShownWell(st, old, c) /\ NoNews(st, r, c)
          /\ ComesWell(st, way, old, c) /\ PagedWell(st, pr, old, c)
      BY <2>1 DEF Faithful
    <3>2. QED BY <2>1, <3>1, StaysWell
  <2>2. CASE Coming(r, way2, r.ch[c].reg) = {} /\ r.page[r.ch[c].reg] # "read"
    BY <2>2, NothingComes
  <2>3. QED BY <1>2, <2>1, <2>2
<1>3. QED BY <1>1, <1>2 DEF Faithful

\* Registering channels again leaves nothing to come for them.
LEMMA SupersedesFaithfully ==
  ASSUME HistoryTyped, NEW st \in ClientStates, NEW r \in ClientStates, NEW old,
         NEW pr, NEW way, NEW D \in SUBSET Channels, NEW S \in SUBSET Channels,
         NEW D2 \in SUBSET Channels, ClientInv(D, st, way),
         Supersedes(D, st, S, D2, r), Faithful(D, st, way, pr, old)
  PROVE  Faithful(D2, r, way, pr, old)
<1>1. \A c \in Channels : NoNews(st, r, c)
  BY DEF Supersedes, NothingNewShown, NoNews
<1>2. /\ Range(r.buffer) \subseteq Range(st.buffer)
      /\ \A n : Coming(r, way, n) \subseteq Coming(st, way, n)
  <2>1. r.buffer = st.buffer \/ r.buffer = <<>>
    BY DEF Supersedes
  <2>2. Range(r.buffer) \subseteq Range(st.buffer)
    BY <2>1 DEF Range
  <2>3. QED BY <2>2 DEF Coming
<1>3. ASSUME NEW c \in S
      PROVE  Coming(r, way, r.ch[c].reg) = {} /\ r.page[r.ch[c].reg] # "read"
  <2>1. /\ r.ch[c].reg \in NewAttempts(st, r) /\ r.attempts <= MaxAttempts
        /\ st.attempts \in Nat /\ r.attempts \in Nat /\ MaxAttempts \in Nat
    BY ClientFields, DeltaAssumption DEF Supersedes, DeltaAssumption
  <2>2. r.ch[c].reg \in Attempts /\ r.ch[c].reg > st.attempts
    BY <2>1 DEF NewAttempts, Attempts
  <2>3. st.req[r.ch[c].reg] = "none" /\ st.page[r.ch[c].reg] = "none"
    BY <2>2 DEF ClientInv, Registered, Fresh
  <2>4. Coming(st, way, r.ch[c].reg) = {}
    BY <2>2, <2>3 DEF ClientInv, Issued
  <2>5. r.page[r.ch[c].reg] = "none"
    BY <2>2, <2>3 DEF Supersedes
  <2>6. QED BY <1>2, <2>4, <2>5
<1>4. ASSUME NEW c \in D2 \ S
      PROVE  c \in D /\ Fewer(st, way, r, way, c)
  <2>1. /\ c \in D /\ r.ch[c] = st.ch[c]
        /\ r.page[st.ch[c].reg] = st.page[st.ch[c].reg]
    BY DEF Supersedes
  <2>2. QED BY <1>2, <2>1 DEF Fewer
<1>5. \A c \in D2 :
        \/ c \in D /\ Fewer(st, way, r, way, c)
        \/ Coming(r, way, r.ch[c].reg) = {} /\ r.page[r.ch[c].reg] # "read"
  BY <1>3, <1>4
<1>6. QED BY <1>1, <1>5, FewerKeeps

\* The row a push leaves: the push's, else the one there was, or none.
LEMMA RowLeft ==
  ASSUME HistoryTyped, NEW st \in ClientStates, NEW r \in ClientStates,
         NEW p \in Pushes, NEW c \in Channels, NEW i \in Rows, NEW old,
         ShownWell(st, old, c), r.shown[c] = r.ch[c].rows,
         r.ch[c].rows \in {Over(p.rows, NoRows), Over(p.rows, st.ch[c].rows)}
  PROVE  IF i \in DOMAIN p.rows THEN r.shown[c][i] = p.rows[i]
         ELSE r.shown[c][i] \in {0, st.shown[c][i]}
<1>1. \A base : Over(p.rows, base)[i] =
                  IF i \in DOMAIN p.rows THEN p.rows[i] ELSE base[i]
  BY DEF Over
<1>2. st.ch[c].rows[i] \in {0, st.shown[c][i]} /\ NoRows[i] = 0
  BY StatesOfRows DEF ShownWell
<1>3. QED BY <1>1, <1>2

\* Applying the first push that comes for a subscription shows what it may, and
\* nothing that comes after it is older.
LEMMA AppliesFaithfully ==
  ASSUME HistoryTyped, NEW st \in ClientStates, NEW r \in ClientStates, NEW old,
         NEW pr, NEW p \in Pushes, NEW D \in SUBSET Channels,
         NEW way, NEW way2, ClientInv(D, st, way),
         \A n \in Attempts : way2[n] = IF n = p.sub THEN way[n] \ {p} ELSE way[n],
         p \in way[p.sub], \A q \in way2[p.sub] : p.seq < q.seq,
         NEW c \in D, st.ch[c].sid = p.sub,
         SnapshotApplied(st, c, p, r) \/ DeltaApplied(st, c, p, r),
         Faithful(D, st, way, pr, old)
  PROVE  Faithful(D, r, way2, pr, old)
<1> DEFINE n == st.ch[c].reg
<1>1. /\ n \in Attempts /\ n = p.sub /\ p.sub \in Attempts /\ n # 0
      /\ \A d \in D : st.ch[d].reg = n => d = c
  <2>1. n \in Attempts /\ st.ch[c].sid \in {0, n}
        /\ \A d \in Channels : st.ch[d].reg = n => d = c
    BY OwnAttempt DEF ClientInv
  <2>2. p.sub \in Attempts /\ 0 \notin Attempts
    BY PushFields DEF Attempts
  <2>3. QED BY <2>1, <2>2
<1> HIDE DEF n
<1>2. /\ r.ch[c].reg = st.ch[c].reg /\ r.buffer = st.buffer
      /\ \A d \in Channels : r.shown[d] = r.ch[d].rows
      /\ \A d \in Channels \ {c} : r.ch[d] = st.ch[d]
      /\ r.ch[c].rows \in {Over(p.rows, NoRows), Over(p.rows, st.ch[c].rows)}
      /\ \A m \in Attempts \ {n} : r.page[m] = st.page[m]
  <2>1. st.page \in [Attempts -> Pages]
    BY DEF ClientStates
  <2>2. QED BY <1>1, <2>1 DEF SnapshotApplied, DeltaApplied
<1>3. /\ \A d \in Channels : ShownWell(st, old, d)
      /\ \A d \in D : ComesWell(st, way, old, d) /\ PagedWell(st, pr, old, d)
  BY DEF Faithful
<1>4. ASSUME NEW d \in Channels \ {c}
      PROVE  NoNews(st, r, d)
  BY <1>2 DEF NoNews
<1>5. ASSUME NEW d \in D \ {c}
      PROVE  ComesWell(r, way2, old, d) /\ PagedWell(r, pr, old, d)
  <2>1. st.ch[d].reg \in Attempts /\ st.ch[d].reg # n
    BY <1>1, OwnAttempt DEF ClientInv
  <2>2. Fewer(st, way, r, way2, d)
    BY <1>1, <1>2, <2>1 DEF Fewer, Coming
  <2>3. QED BY <1>3, <1>4, <2>2, StaysWell
<1>6. /\ p \in Coming(st, way, n)
      /\ \A q \in Coming(r, way2, n) : q \in Coming(st, way, n) /\ p.seq < q.seq
  <2>1. \A q \in Range(st.buffer) : q.sub # n
    BY <1>1 DEF ClientInv, Confirmed
  <2>2. QED BY <1>1, <1>2, <2>1 DEF Coming
<1>7. ASSUME NEW i \in Rows
      PROVE  IF i \in DOMAIN p.rows THEN r.shown[c][i] = p.rows[i]
             ELSE r.shown[c][i] \in {0, st.shown[c][i]}
  <2>1. c \in Channels /\ ShownWell(st, old, c)
    BY <1>3
  <2>2. QED BY <1>2, <2>1, RowLeft
<1>8. ASSUME NEW i \in Rows
      PROVE  /\ Allowed(st, old, c, i, st.shown[c][i])
             /\ i \in DOMAIN p.rows => Allowed(st, old, c, i, p.rows[i])
             /\ i \in DOMAIN p.rows =>
                  \A q \in Coming(st, way, n) : NotOlder(p, q, i)
             /\ \A q \in Coming(st, way, n) : i \in DOMAIN q.rows =>
                  Allowed(st, old, c, i, q.rows[i])
  BY <1>3, <1>6 DEF ShownWell, ComesWell, n
<1>9. ASSUME NEW i \in Rows
      PROVE  Allowed(r, old, c, i, r.shown[c][i])
  <2>1. c \in Channels
    OBVIOUS
  <2>2. Allowed(st, old, c, i, r.shown[c][i])
    BY <1>7, <1>8 DEF Allowed
  <2>3. QED BY <2>1, <2>2, StatesOfRows DEF Allowed
<1>10. ShownWell(r, old, c)
  BY <1>2, <1>9 DEF ShownWell
<1>11. ASSUME NEW i \in Rows, NEW q \in Coming(r, way2, n), i \in DOMAIN q.rows
       PROVE  Allowed(r, old, c, i, q.rows[i])
  <2>1. c \in Channels /\ q \in Coming(st, way, n) /\ p.seq < q.seq
    BY <1>6, <1>11
  <2>2. Allowed(st, old, c, i, q.rows[i])
    BY <1>8, <1>11, <2>1
  <2>3. CASE q.rows[i] = 0
    BY <2>3 DEF Allowed
  <2>4. CASE q.rows[i] # 0 /\ i \in DOMAIN p.rows
    <3>1. r.shown[c][i] <= q.rows[i]
      BY <1>7, <1>8, <1>11, <2>1, <2>4 DEF NotOlder
    <3>2. QED BY <2>2, <2>4, <3>1 DEF Allowed
  <2>5. CASE q.rows[i] # 0 /\ i \notin DOMAIN p.rows
    <3>1. r.shown[c][i] \in {st.shown[c][i], 0}
      BY <1>7, <2>5
    <3>2. QED BY <2>1, <2>2, <3>1, AllowedStill
  <2>6. QED BY <2>3, <2>4, <2>5
<1>12. ComesWell(r, way2, old, c)
  <2>1. ASSUME NEW q \in Coming(r, way2, n), NEW i \in Rows, i \in DOMAIN q.rows,
               NEW x \in Coming(r, way2, n)
        PROVE  NotOlder(q, x, i)
    BY <1>3, <1>6, <2>1 DEF ComesWell, n
  <2>2. QED BY <1>2, <1>11, <2>1 DEF ComesWell, n
<1>13. PagedWell(r, pr, old, c)
  <2> SUFFICES ASSUME r.page[n] = "read", NEW i \in Rows, i \in DOMAIN pr[n],
                      Missing(r, c, i)
               PROVE  Allowed(r, old, c, i, pr[n][i])
    BY <1>2 DEF PagedWell, n
  <2>1. DeltaApplied(st, c, p, r)
    <3>1. ASSUME SnapshotApplied(st, c, p, r)
          PROVE  FALSE
      <4>1. r.page = [st.page EXCEPT ![p.sub] = IF p.more THEN "asked" ELSE "none"]
        BY <3>1 DEF SnapshotApplied
      <4>2. st.page \in [Attempts -> Pages]
        BY DEF ClientStates
      <4>3. QED BY <1>1, <4>1, <4>2
    <3>2. QED BY <3>1
  <2>2. /\ st.page[n] = "read" /\ r.ch[c].rows = Over(p.rows, st.ch[c].rows)
        /\ r.ch[c].gone = st.ch[c].gone \cup {j \in DOMAIN p.rows : p.rows[j] = 0}
    BY <2>1 DEF DeltaApplied
  <2>3. r.shown[c][i] = 0 /\ r.ch[c].rows[i] = 0 /\ i \notin r.ch[c].gone
    BY <1>2 DEF Missing
  <2>4. i \notin DOMAIN p.rows
    <3>1. i \in DOMAIN p.rows => p.rows[i] = 0
      BY <2>2, <2>3 DEF Over
    <3>2. QED BY <2>2, <2>3, <3>1
  <2>5. Missing(st, c, i)
    BY <2>2, <2>3, <2>4 DEF Missing, Over
  <2>6. Allowed(st, old, c, i, pr[n][i])
    BY <1>3, <2>2, <2>5 DEF PagedWell, n
  <2>7. c \in Channels
    OBVIOUS
  <2>8. QED BY <2>3, <2>6, <2>7, AllowedStill
<1>14. \A d \in Channels : ShownWell(r, old, d)
  BY <1>3, <1>4, <1>10, StaysShown
<1>15. \A d \in D : ComesWell(r, way2, old, d) /\ PagedWell(r, pr, old, d)
  BY <1>5, <1>12, <1>13
<1>16. QED BY <1>14, <1>15 DEF Faithful

\* Fewer pushes on their way do no harm.
LEMMA FewerOnTheWay ==
  ASSUME HistoryTyped, NEW st \in ClientStates, NEW old, NEW pr, NEW way, NEW way2,
         NEW D \in SUBSET Channels, ClientInv(D, st, way),
         \A n \in Attempts : way2[n] \subseteq way[n],
         Faithful(D, st, way, pr, old)
  PROVE  Faithful(D, st, way2, pr, old)
<1>1. \A c \in Channels : NoNews(st, st, c)
  BY DEF NoNews
<1>2. \A c \in D : st.ch[c].reg \in Attempts
  BY OwnAttempt DEF ClientInv
<1>3. \A c \in D : Fewer(st, way, st, way2, c)
  BY <1>2 DEF Fewer, Coming
<1>4. QED BY <1>1, <1>3, FewerKeeps

\* A push that is held adds itself to what is held, at most.
LEMMA HoldsAtMost ==
  ASSUME NEW st \in ClientStates, NEW p \in Pushes
  PROVE  Range(BufferPush(st, p).buffer) \subseteq Range(st.buffer) \cup {p}
<1> DEFINE b == Append(st.buffer, p)
           m == Len(st.buffer)
<1>1. /\ st.buffer \in Seq(Pushes) /\ m \in Nat /\ DOMAIN st.buffer = 1..m
      /\ \A k \in 1..m : st.buffer[k] \in Range(st.buffer)
  BY ClientFields
<1>2. /\ b \in Seq(Pushes) /\ DOMAIN b = 1..(m + 1) /\ b # <<>>
      /\ \A k \in 1..m : b[k] = st.buffer[k]
      /\ b[m + 1] = p
  BY <1>1, AppendProperties, LenProperties
<1>3. BufferPush(st, p).buffer \in {b, Tail(b)}
  BY BufferPushes
<1> HIDE DEF b
<1>4. \A k \in 1..(m + 1) : b[k] \in Range(st.buffer) \cup {p}
  <2>1. \A k \in 1..(m + 1) : k \in 1..m \/ k = m + 1
    BY <1>1
  <2>2. QED BY <1>1, <1>2, <2>1
<1>5. Range(b) \subseteq Range(st.buffer) \cup {p}
  BY <1>2, <1>4 DEF Range
<1>6. Range(Tail(b)) \subseteq Range(b)
  BY <1>2, WithoutTheOldest
<1>7. QED BY <1>3, <1>5, <1>6

\* Processing the first push that comes for a subscription: it is applied, held,
\* dropped, or has the channel start over.
LEMMA ProcessFaithfully ==
  ASSUME HistoryTyped, desired \subseteq Channels,
         NEW st \in ClientStates, NEW p \in Pushes, NEW old, NEW pr,
         NEW way, NEW way2, ClientInv(desired, st, way),
         \A n \in Attempts : way2[n] = IF n = p.sub THEN way[n] \ {p} ELSE way[n],
         p \in way[p.sub], \A q \in way2[p.sub] : p.seq < q.seq,
         ProcessPush(st, p).attempts <= MaxAttempts,
         Faithful(desired, st, way, pr, old)
  PROVE  Faithful(desired, ProcessPush(st, p), way2, pr, old)
<1> DEFINE r == ProcessPush(st, p)
<1> SUFFICES Faithful(desired, r, way2, pr, old)
  OBVIOUS
<1>1. Processed(st, p, r) /\ r \in ClientStates /\ r.attempts <= MaxAttempts
  BY Processes, ProcessTyped
<1> HIDE DEF r
<1>2. \A n \in Attempts : way2[n] \subseteq way[n]
  OBVIOUS
<1>3. ClientInv(desired, st, way2) /\ Faithful(desired, st, way2, pr, old)
  BY <1>2, LosesOnTheWay, FewerOnTheWay
<1>4. CASE r = BufferPush(st, p)
  <2>1. /\ r.ch = st.ch /\ r.shown = st.shown /\ r.page = st.page
        /\ Range(r.buffer) \subseteq Range(st.buffer) \cup {p}
    BY <1>4, BufferPushes, HoldsAtMost
  <2>2. \A c \in Channels : NoNews(st, r, c)
    BY <2>1 DEF NoNews
  <2>3. ASSUME NEW c \in desired
        PROVE  Fewer(st, way, r, way2, c)
    <3>1. st.ch[c].reg \in Attempts
      BY OwnAttempt DEF ClientInv
    <3>2. Coming(r, way2, st.ch[c].reg) \subseteq Coming(st, way, st.ch[c].reg)
      BY <1>2, <2>1, <3>1 DEF Coming
    <3>3. QED BY <2>1, <3>2 DEF Fewer
  <2>4. QED BY <1>1, <2>2, <2>3, FewerKeeps
<1>5. ASSUME NEW c \in desired, ResnapshottedAs(st, c, r)
      PROVE  Faithful(desired, r, way2, pr, old)
  <2>1. {c} \in SUBSET Channels
    OBVIOUS
  <2>2. Supersedes(desired, st, {c}, desired, r)
    BY <1>1, <1>3, <1>5, ResnapshotSupersedes
  <2>3. QED BY <1>1, <1>3, <2>1, <2>2, SupersedesFaithfully
<1>6. ASSUME NEW c \in desired, st.ch[c].sid = p.sub,
             SnapshotApplied(st, c, p, r) \/ DeltaApplied(st, c, p, r)
      PROVE  Faithful(desired, r, way2, pr, old)
  BY <1>1, <1>6, AppliesFaithfully
<1>7. r = st => Faithful(desired, r, way2, pr, old)
  BY <1>3
<1> HIDE <1>3
<1>8. QED BY <1>1, <1>4, <1>5, <1>6, <1>7 DEF Processed

\* Replaying the held pushes of a subscription, in their order.
LEMMA ReplayFaithfully ==
  ASSUME HistoryTyped, desired \subseteq Channels, NEW n \in Attempts, NEW matched,
         HeldFor(n, matched), NEW st \in ClientStates, NEW old, NEW pr,
         ClientInv(desired, st, WayAfter(n, matched, 0)),
         Faithful(desired, st, WayAfter(n, matched, 0), pr, old)
  PROVE  LET r == Replayed(st, matched) IN
         /\ r \in ClientStates
         /\ r.attempts <= MaxAttempts =>
              ClientInv(desired, r, Way) /\ Faithful(desired, r, Way, pr, old)
<1> DEFINE m == Len(matched)
           Kept(s, k) == /\ ClientInv(desired, s, WayAfter(n, matched, k))
                         /\ Faithful(desired, s, WayAfter(n, matched, k), pr, old)
           S == [k \in 0..m |->
                   {s \in ClientStates : s.attempts <= MaxAttempts => Kept(s, k)}]
<1>1. /\ m \in Nat /\ \A j \in 1..m : /\ matched[j] \in Pushes
                                      /\ matched[j].sub = n
                                      /\ matched[j].seq \in Nat
  BY LenProperties, ElementOfSeq, PushFields DEF HeldFor
<1>2. st \in S[0]
  BY <1>1
<1>3. ASSUME NEW k \in 1..m, NEW s \in S[k - 1]
      PROVE  ProcessPush(s, matched[k]) \in S[k]
  <2> DEFINE p == matched[k]
             r == ProcessPush(s, p)
             way == WayAfter(n, matched, k - 1)
             way2 == WayAfter(n, matched, k)
  <2>1. /\ p \in Pushes /\ p.sub = n /\ p.seq \in Nat
        /\ k - 1 \in 0..m /\ k \in 0..m
    BY <1>1
  <2>2. /\ s \in ClientStates
        /\ s.attempts <= MaxAttempts =>
             ClientInv(desired, s, way) /\ Faithful(desired, s, way, pr, old)
    BY <2>1
  <2>3. r \in ClientStates /\ s.attempts <= r.attempts
    BY <2>1, <2>2, ProcessTyped
  <2>4. \A q \in way2[n] : p.seq < q.seq
    BY <1>1 DEF WayAfter, HeldFor
  <2>5. p \in way[n]
    BY <1>1, <2>1 DEF WayAfter
  <2>6. way2[n] = way[n] \ {p}
    <3>1. k..m = {k} \cup (k + 1)..m /\ (k - 1) + 1 = k
      BY <1>1
    <3>2. way[n] = {p} \cup way2[n]
      BY <3>1 DEF WayAfter
    <3>3. p \notin way2[n]
      BY <2>1, <2>4
    <3>4. QED BY <3>2, <3>3
  <2>7. \A x \in Attempts : way2[x] = IF x = n THEN way[x] \ {p} ELSE way[x]
    BY <2>6 DEF WayAfter
  <2> HIDE DEF p, way, way2
  <2>8. ASSUME r.attempts <= MaxAttempts
        PROVE  ClientInv(desired, r, way2) /\ Faithful(desired, r, way2, pr, old)
    <3>1. s.attempts <= MaxAttempts
      BY <2>2, <2>3, <2>8, ClientFields, DeltaAssumption DEF DeltaAssumption
    <3>2. ClientInv(desired, s, way) /\ Faithful(desired, s, way, pr, old)
      BY <2>2, <3>1
    <3>3. ClientInv(desired, r, way2)
      BY <2>1, <2>2, <2>4, <2>5, <2>7, <2>8, <3>2, ProcessKeeps
    <3>4. Faithful(desired, r, way2, pr, old)
      BY <2>1, <2>2, <2>4, <2>5, <2>7, <2>8, <3>2, ProcessFaithfully
    <3>5. QED BY <3>3, <3>4
  <2>9. QED BY <2>1, <2>3, <2>8 DEF p, way2
<1> HIDE DEF S
<1>4. Replayed(st, matched) \in S[m]
  BY <1>1, <1>2, <1>3, ReplayKeeps
<1>5. WayAfter(n, matched, m) = Way
  <2>1. (m + 1)..Len(matched) = {}
    BY <1>1
  <2>2. {matched[j] : j \in (m + 1)..Len(matched)} = {}
    BY <2>1
  <2>3. QED BY <2>2 DEF WayAfter, Way
<1>6. QED BY <1>1, <1>4, <1>5 DEF S

\* Confirming a subscription, replaying what was held for it and throwing away
\* what belongs to no channel.
LEMMA DrainFaithfully ==
  ASSUME IInv, HistoryTyped, NEW old, NEW pr,
         Faithful(desired, Client, Way, pr, old), NEW n \in Attempts,
         req[n] = "acked", Current(n)
  PROVE  LET r == Drain([Client EXCEPT !.req[n] = "done", !.ch[of[n]].sid = n], n)
         IN  r.attempts <= MaxAttempts => Faithful(desired, r, Way, pr, old)
<1> DEFINE c == of[n]
           st == [Client EXCEPT !.req[n] = "done", !.ch[of[n]].sid = n]
           matched == PushesOf(buffer, {n})
           u == [st EXCEPT !.buffer = PushesOf(buffer, Attempts \ {n})]
           way == WayAfter(n, matched, 0)
           d == Replayed(u, matched)
           e == [d EXCEPT !.buffer = <<>>]
           r == Drain(st, n)
<1>1. /\ u \in ClientStates /\ st.buffer = buffer /\ HeldFor(n, matched)
      /\ ClientInv(desired, u, way) /\ u.shown = shown /\ u.page = page
      /\ u.ch[c].reg = n /\ SameChannel(u.ch[c], ch[c])
      /\ \A x \in Channels \ {c} : u.ch[x] = ch[x]
      /\ \A m \in Attempts : Coming(u, way, m) = Coming(Client, Way, m)
  BY SetsAside, Typed
<1> HIDE DEF st
<1>2. r = IF Pending(d) THEN d ELSE e
  BY <1>1 DEF Drain
<1> HIDE DEF u, way
<1>3. c \in desired /\ ch[c].reg = n /\ desired \subseteq Channels
      /\ desired \in SUBSET Channels
  BY Typed DEF Current
<1>4. Faithful(desired, u, way, pr, old)
  <2>1. ASSUME NEW x \in Channels
        PROVE  /\ u.ch[x].rows = ch[x].rows /\ u.ch[x].gone = ch[x].gone
               /\ u.ch[x].reg = ch[x].reg
    <3>1. CASE x = c
      BY <1>1, <3>1 DEF SameChannel
    <3>2. CASE x # c
      BY <1>1, <3>2
    <3>3. QED BY <3>1, <3>2
  <2>2. \A x \in Channels : NoNews(Client, u, x)
    BY <1>1, <2>1, Typed DEF NoNews
  <2>3. ASSUME NEW x \in desired
        PROVE  Fewer(Client, Way, u, way, x)
    <3>1. Client.ch[x].reg \in Attempts
      BY OwnAttempt, Typed DEF ClientInv
    <3>2. QED BY <1>1, <1>3, <2>1, <3>1, Typed DEF Fewer
  <2>4. QED BY <1>1, <1>3, <2>2, <2>3, FewerKeeps, Typed
<1>5. /\ d \in ClientStates
      /\ d.attempts <= MaxAttempts =>
           ClientInv(desired, d, Way) /\ Faithful(desired, d, Way, pr, old)
  <2>1. HeldFor(n, matched) /\ u \in ClientStates
        /\ ClientInv(desired, u, WayAfter(n, matched, 0))
        /\ Faithful(desired, u, WayAfter(n, matched, 0), pr, old)
    BY <1>1, <1>4 DEF way
  <2> HIDE DEF matched
  <2>2. QED BY <1>3, <2>1, ReplayFaithfully
<1> HIDE DEF d, r
<1>6. /\ e \in ClientStates /\ e.ch = d.ch /\ e.shown = d.shown
      /\ e.page = d.page /\ e.attempts = d.attempts /\ e.buffer = <<>>
  <2>1. <<>> \in Buffers
    BY DeltaAssumption DEF DeltaAssumption, Buffers
  <2>2. QED BY <1>5, <2>1 DEF ClientStates
<1> HIDE DEF e
<1>7. ASSUME d.attempts <= MaxAttempts
      PROVE  Faithful(desired, e, Way, pr, old)
  <2>1. \A x \in Channels : NoNews(d, e, x)
    BY <1>6 DEF NoNews
  <2>2. Range(e.buffer) = {}
    BY <1>6 DEF Range
  <2>3. \A x \in desired : Fewer(d, Way, e, Way, x)
    BY <1>6, <2>2 DEF Fewer, Coming
  <2>4. QED BY <1>3, <1>5, <1>6, <1>7, <2>1, <2>3, FewerKeeps
<1>8. r.attempts <= MaxAttempts => Faithful(desired, r, Way, pr, old)
  BY <1>2, <1>5, <1>6, <1>7
<1>9. QED BY <1>8 DEF r, st

-----------------------------------------------------------------------------
(* Steps.                                                                  *)

\* The floor of row i of channel c after a step: that of before, or the state st
\* shows it in anew.
FloorKeeps(st, old, c, i) ==
  \/ floor'[c][i] = floor[c][i]
  \/ floor'[c][i] = st.shown[c][i] /\ st.shown[c][i] # old[c][i]

\* What the client may show in the middle of a handler it may still show when the
\* handler is done.
LEMMA FaithfulAfter ==
  ASSUME had' = had, NEW st, st = Client', NEW D, D = desired', NEW way, way = Way',
         NEW pr, pr = pageRows', NEW old, Faithful(D, st, way, pr, old),
         \A c \in Channels : \A i \in Rows : FloorKeeps(st, old, c, i),
         D \subseteq Channels
  PROVE  Faithful(desired, Client, Way, pageRows, shown)'
<1>1. shown' = st.shown
  BY DEF Client
<1>2. ASSUME NEW c \in Channels, NEW i \in Rows, NEW v, Allowed(st, old, c, i, v)
      PROVE  Allowed(Client, shown, c, i, v)'
  BY <1>1, <1>2 DEF Allowed, FloorKeeps
<1>3. ASSUME NEW c \in Channels
      PROVE  ShownWell(Client, shown, c)'
  <2>1. ShownWell(st, old, c)
    BY DEF Faithful
  <2>2. ASSUME NEW i \in Rows
        PROVE  Allowed(Client, shown, c, i, Client.shown[c][i])'
    <3>1. Allowed(st, old, c, i, st.shown[c][i])
      BY <2>1 DEF ShownWell
    <3>2. QED BY <1>1, <3>1 DEF Allowed, FloorKeeps
  <2>3. QED BY <2>1, <2>2 DEF ShownWell
<1>4. ASSUME NEW c \in D
      PROVE  (ComesWell(Client, Way, shown, c) /\ PagedWell(Client, pageRows, shown, c))'
  <2>1. c \in Channels /\ ComesWell(st, way, old, c) /\ PagedWell(st, pr, old, c)
    BY DEF Faithful
  <2>2. \A n : Coming(Client, Way, n)' = Coming(st, way, n)
    BY DEF Coming
  <2>3. ASSUME NEW p \in Coming(st, way, st.ch[c].reg), NEW i \in Rows,
               i \in DOMAIN p.rows
        PROVE  /\ Allowed(Client, shown, c, i, p.rows[i])'
               /\ \A q \in Coming(st, way, st.ch[c].reg) : NotOlder(p, q, i)
    <3>1. Allowed(st, old, c, i, p.rows[i])
      BY <2>1, <2>3 DEF ComesWell
    <3>2. Allowed(Client, shown, c, i, p.rows[i])'
      BY <1>1, <2>1, <3>1 DEF Allowed, FloorKeeps
    <3>3. QED BY <2>1, <2>3, <3>2 DEF ComesWell
  <2>4. ComesWell(Client, Way, shown, c)'
    BY <2>2, <2>3 DEF ComesWell
  <2>5. ASSUME NEW i \in Rows, st.page[st.ch[c].reg] = "read",
               i \in DOMAIN pr[st.ch[c].reg], Missing(st, c, i)
        PROVE  Allowed(Client, shown, c, i, pageRows[st.ch[c].reg][i])'
    <3>1. Allowed(st, old, c, i, pr[st.ch[c].reg][i])
      BY <2>1, <2>5 DEF PagedWell
    <3>2. QED BY <1>1, <2>1, <3>1 DEF Allowed, FloorKeeps
  <2>6. PagedWell(Client, pageRows, shown, c)'
    BY <2>5 DEF PagedWell, Missing
  <2>7. QED BY <2>4, <2>6
<1>5. QED BY <1>3, <1>4 DEF Faithful

\* A step that leaves the daemon's collections alone adds nothing to what they
\* were, and raises the floor at most to what it shows.
LEMMA HistoryAfter ==
  ASSUME HistoryTyped, Past, HistoryNext, UNCHANGED store
  PROVE  /\ had' = had
         /\ \A c \in Channels : \A i \in Rows :
              floor'[c][i] = IF Raises(c, i) THEN shown'[c][i] ELSE floor[c][i]
<1>1. had \in [Channels -> [Rows -> SUBSET (0..changes)]]
  BY DEF HistoryTyped
<1>2. \A c \in Channels : \A i \in Rows : had[c][i] \cup {store'[c][i]} = had[c][i]
  BY DEF Past
<1>3. \A c \in Channels : had[c] = [i \in Rows |-> had[c][i] \cup {store'[c][i]}]
  BY <1>1, <1>2
<1>4. had = [c \in Channels |-> [i \in Rows |-> had[c][i] \cup {store'[c][i]}]]
  BY <1>1, <1>3
<1>5. QED BY <1>4 DEF HistoryNext

\* The invariant after such a step of the client.
LEMMA FInvAfter ==
  ASSUME IInv, HistoryTyped, Past, HistoryNext, UNCHANGED <<store, changes>>,
         NEW st \in ClientStates, Becomes(st), NEW D \in SUBSET Channels,
         D = desired', NEW way, way = Way', NEW pr, pr = pageRows', NEW old,
         old \in {shown, st.shown}, Faithful(D, st, way, pr, old),
         old = shown \/ \A c \in Channels : \A i \in Rows : ~Raises(c, i)
  PROVE  FInv'
<1>1. st = Client' /\ shown' = st.shown
  BY Lands DEF Becomes
<1>2. /\ had' = had
      /\ \A c \in Channels : \A i \in Rows :
           floor'[c][i] = IF Raises(c, i) THEN shown'[c][i] ELSE floor[c][i]
  BY HistoryAfter
<1>3. \A c \in Channels : \A i \in Rows : FloorKeeps(st, old, c, i)
  BY <1>1, <1>2 DEF FloorKeeps, Raises
<1>4. Faithful(desired, Client, Way, pageRows, shown)'
  BY <1>1, <1>2, <1>3, FaithfulAfter
<1>5. ASSUME NEW c \in Channels, NEW i \in Rows
      PROVE  /\ floor'[c][i] \in Values
             /\ floor'[c][i] \in had[c][i] \cup {0}
  <2>1. ShownWell(st, old, c)
    BY DEF Faithful
  <2>2. st.shown[c][i] \in Values /\ st.shown[c][i] \in had[c][i] \cup {0}
    BY <2>1, ClientFields DEF ShownWell, Allowed
  <2>3. floor[c][i] \in Values /\ floor[c][i] \in had[c][i] \cup {0}
    BY DEF HistoryTyped, Past
  <2>4. QED BY <1>1, <1>2, <2>2, <2>3
<1>6. floor' \in [Channels -> [Rows -> Values]]
  <2>1. floor' = [c \in Channels |-> [i \in Rows |->
                    IF Raises(c, i) THEN shown'[c][i] ELSE floor[c][i]]]
    BY DEF HistoryNext
  <2>2. \A c \in Channels : \A i \in Rows :
          (IF Raises(c, i) THEN shown'[c][i] ELSE floor[c][i]) \in Values
    BY <1>2, <1>5
  <2>3. QED BY <2>1, <2>2
<1>7. HistoryTyped'
  BY <1>2, <1>6 DEF HistoryTyped
<1>8. Past'
  BY <1>2, <1>5 DEF Past
<1>9. QED BY <1>4, <1>7, <1>8 DEF FInv

\* A turn of the client that reads no continuation.
LEMMA TurnIsFaithful ==
  ASSUME IInv, FInv, HistoryNext, UNCHANGED <<store, changes, pageRows>>,
         NEW st \in ClientStates, Becomes(st), NEW D \in SUBSET Channels,
         D = desired', NEW way, way = Way', Faithful(D, st, way, pageRows, shown)
  PROVE  FInv'
<1> DEFINE pr == pageRows
<1>1. pr = pageRows' /\ Faithful(D, st, way, pr, shown)
  OBVIOUS
<1> HIDE DEF pr
<1>2. QED BY <1>1, FInvAfter DEF FInv

\* A step that shows nothing and for which no more comes.
LEMMA QuietStepIsFaithful ==
  ASSUME IInv, IInv', FInv, HistoryNext,
         UNCHANGED <<desired, shown, store, changes, pageRows>>,
         \A c \in Channels :
           /\ ch'[c].rows = ch[c].rows /\ ch'[c].gone = ch[c].gone
           /\ ch'[c].reg = ch[c].reg,
         buffer' = buffer, \A n \in Attempts : Range(wire'[n]) \subseteq Range(wire[n]),
         \A n \in Attempts : page'[n] = "read" => page[n] = "read"
  PROVE  FInv'
<1> DEFINE st == Client'
           way == Way'
<1>1. st \in ClientStates /\ Becomes(st)
  <2>1. Client' \in ClientStates
    BY DEF IInv, ClientStates
  <2>2. attempts' <= MaxAttempts
    BY DEF IInv, ClientInv, Registered, Client
  <2>3. QED BY <2>1, <2>2 DEF Becomes, Client
<1>2. /\ \A c \in Channels : /\ st.ch[c].rows = ch[c].rows
                             /\ st.ch[c].gone = ch[c].gone
                             /\ st.ch[c].reg = ch[c].reg
      /\ st.shown = shown /\ st.buffer = buffer
      /\ \A n \in Attempts : st.page[n] = "read" => page[n] = "read"
      /\ \A n \in Attempts : way[n] \subseteq Way[n]
  BY DEF Client, Way
<1> HIDE DEF st, way
<1>3. \A c \in Channels : NoNews(Client, st, c)
  BY <1>2, Typed DEF NoNews
<1>4. ASSUME NEW c \in desired
      PROVE  Fewer(Client, Way, st, way, c)
  <2>1. c \in Channels /\ Client.ch[c].reg \in Attempts
    BY OwnAttempt, Typed DEF ClientInv
  <2>2. QED BY <1>2, <2>1, Typed DEF Fewer, Coming
<1>5. Faithful(desired, st, way, pageRows, shown)
  BY <1>1, <1>3, <1>4, FewerKeeps, Typed DEF FInv
<1>6. desired \in SUBSET Channels /\ desired = desired' /\ way = Way'
  BY Typed DEF way
<1>7. QED BY <1>1, <1>5, <1>6, TurnIsFaithful

\* A reply.
LEMMA ReplyIsFaithful ==
  ASSUME IInv, IInv', FInv, HistoryNext, NEW n \in Attempts, DeliverReply(n)
  PROVE  FInv'
<1> DEFINE r == Drain([Client EXCEPT !.req[n] = "done", !.ch[of[n]].sid = n], n)
           way == Way'
<1>1. /\ UNCHANGED <<desired, store, changes, pageRows, wire>> /\ req[n] = "acked"
      /\ \/ ~Current(n) /\ StaleReply(n)
         \/ Current(n) /\ Becomes(r)
  BY DEF DeliverReply, daemonVars
<1>2. way = Way
  BY <1>1 DEF Way
<1>3. CASE Current(n) /\ Becomes(r)
  <2>1. r \in ClientStates /\ r.attempts <= MaxAttempts
    BY <1>1, <1>3, DrainKeeps, Typed DEF Becomes
  <2>2. r.attempts <= MaxAttempts => Faithful(desired, r, Way, pageRows, shown)
    BY <1>1, <1>3, DrainFaithfully DEF FInv
  <2> HIDE DEF r
  <2>3. Faithful(desired, r, way, pageRows, shown)
    BY <1>2, <2>1, <2>2
  <2>4. desired \in SUBSET Channels /\ desired = desired' /\ way = Way'
    BY <1>1, Typed
  <2> HIDE DEF way
  <2>5. QED BY <1>1, <1>3, <2>1, <2>3, <2>4, TurnIsFaithful
<1>4. CASE ~Current(n) /\ StaleReply(n)
  <2>1. UNCHANGED <<ch, shown, buffer, page>>
    BY <1>4 DEF StaleReply, Becomes, Client
  <2>2. QED BY <1>1, <2>1, QuietStepIsFaithful
<1>5. QED BY <1>1, <1>3, <1>4

\* A failed or timed-out request arms a retry, at most.
LEMMA FailureIsFaithful ==
  ASSUME IInv, IInv', FInv, HistoryNext, NEW n \in Attempts,
         DeliverFailure(n) \/ ReplyTimesOut(n)
  PROVE  FInv'
<1>1. /\ UNCHANGED <<desired, shown, buffer, page, daemonVars>>
      /\ ch' = [c \in Channels |-> IF c = of[n] /\ Current(n)
                                   THEN [ch[c] EXCEPT !.retry = TRUE] ELSE ch[c]]
  BY DEF DeliverFailure, ReplyTimesOut, Failed, Becomes, Client
<1>2. ASSUME NEW c \in Channels
      PROVE  /\ ch'[c].rows = ch[c].rows /\ ch'[c].gone = ch[c].gone
             /\ ch'[c].reg = ch[c].reg
  <2>1. ch[c] \in ChannelStates
    BY Typed
  <2>2. ch'[c] \in {ch[c], [ch[c] EXCEPT !.retry = TRUE]}
    BY <1>1
  <2>3. QED BY <2>1, <2>2 DEF ChannelStates
<1>3. QED BY <1>1, <1>2, QuietStepIsFaithful DEF daemonVars

\* A push: it is applied, held, dropped, or has the channel start over.
LEMMA PushIsFaithful ==
  ASSUME IInv, IInv', FInv, HistoryNext, NEW n \in Attempts, DeliverPush(n)
  PROVE  FInv'
<1> DEFINE p == Head(wire[n])
           r == ProcessPush(Client, p)
           way == Way'
<1>1. /\ wire[n] # <<>> /\ wire' = [wire EXCEPT ![n] = Tail(@)]
      /\ Becomes(IF disposed THEN Client ELSE r)
      /\ UNCHANGED <<desired, store, changes, pageRows>>
  BY DEF DeliverPush
<1>2. /\ wire \in [Attempts -> Seq(Pushes)] /\ desired \in SUBSET Channels
      /\ \A m \in Attempts : \A j, k \in DOMAIN wire[m] :
           j < k => wire[m][j].seq < wire[m][k].seq
  BY DEF IInv, DaemonTyped, WireOrdered
<1>3. /\ p \in Pushes /\ p \in Range(wire[n])
      /\ Range(Tail(wire[n])) = Range(wire[n]) \ {p}
      /\ \A q \in Range(Tail(wire[n])) : p.seq < q.seq
  BY <1>1, <1>2, WithoutTheFirst
<1> HIDE DEF p
<1>4. p.sub = n
  BY <1>3, Typed DEF ClientInv, Ordered, Way
<1>5. /\ \A m \in Attempts : way[m] = IF m = p.sub THEN Way[m] \ {p} ELSE Way[m]
      /\ p \in Way[p.sub] /\ \A q \in way[p.sub] : p.seq < q.seq
  BY <1>1, <1>2, <1>3, <1>4 DEF Way
<1>6. CASE disposed
  <2>1. UNCHANGED <<ch, shown, buffer, page>>
    BY <1>1, <1>6 DEF Becomes, Client
  <2>2. \A m \in Attempts : Range(wire'[m]) \subseteq Range(wire[m])
    BY <1>1, <1>2, <1>3
  <2>3. QED BY <1>1, <2>1, <2>2, QuietStepIsFaithful
<1>7. CASE ~disposed
  <2>1. Becomes(r) /\ r.attempts <= MaxAttempts
    BY <1>1, <1>7 DEF Becomes
  <2>2. r \in ClientStates
    BY <1>2, <1>3, ProcessTyped, Typed
  <2>3. desired = desired' /\ way = Way'
    BY <1>1
  <2> HIDE DEF way
  <2>4. Faithful(desired, r, way, pageRows, shown)
    BY <1>2, <1>3, <1>5, <2>1, ProcessFaithfully, Typed DEF FInv
  <2> HIDE DEF r
  <2>5. QED BY <1>1, <1>2, <2>1, <2>2, <2>3, <2>4, TurnIsFaithful
<1>8. QED BY <1>6, <1>7

\* Channels that register again.
LEMMA SupersedingIsFaithful ==
  ASSUME IInv, FInv, HistoryNext, NEW st \in ClientStates, Becomes(st),
         NEW S \in SUBSET Channels, NEW D \in SUBSET Channels, desired' = D,
         Supersedes(desired, Client, S, D, st),
         UNCHANGED <<store, changes, pageRows, wire>>
  PROVE  FInv'
<1> DEFINE way == Way'
<1>1. way = Way /\ way = Way' /\ D = desired'
  BY DEF Way
<1> HIDE DEF way
<1>2. Faithful(D, st, way, pageRows, shown)
  BY <1>1, SupersedesFaithfully, Typed DEF FInv
<1>3. QED BY <1>1, <1>2, TurnIsFaithful

\* A continuation gives up, or is forgotten, or its channel starts over.
LEMMA GiveUpIsFaithful ==
  ASSUME IInv, IInv', FInv, HistoryNext, NEW n \in Attempts,
         PageGivesUp(n) \/ GiveUpFires(n)
  PROVE  FInv'
<1>1. CASE PageGivesUp(n)
  <2>1. /\ UNCHANGED <<desired, shown, ch, buffer, daemonVars>>
        /\ page' = [page EXCEPT ![n] = "gaveup"]
    BY <1>1 DEF PageGivesUp, PageFails
  <2>2. \A m \in Attempts : page'[m] = "read" => page[m] = "read"
    BY <2>1, Typed
  <2>3. QED BY <2>1, <2>2, QuietStepIsFaithful DEF daemonVars
<1>2. CASE GiveUpFires(n)
  <2>1. /\ UNCHANGED <<desired, store, changes, pageRows, wire>>
        /\ desired \in SUBSET Channels
    BY <1>2, Typed DEF GiveUpFires, daemonVars
  <2>2. CASE ch[of[n]].sid = n
    <3>1. PICK r \in ClientStates :
            Becomes(r) /\ Supersedes(desired, Client, {of[n]}, desired, r)
      BY <1>2, <2>2, GiveUpSupersedes
    <3>2. {of[n]} \in SUBSET Channels
      BY Typed
    <3>3. QED BY <2>1, <3>1, <3>2, SupersedingIsFaithful
  <2>3. CASE ch[of[n]].sid # n
    <3>1. /\ page' = [page EXCEPT ![n] = "none"]
          /\ UNCHANGED <<ch, buffer, shown>>
      BY <1>2, <2>3, GiveUpForgets
    <3>2. \A m \in Attempts : page'[m] = "read" => page[m] = "read"
      BY <3>1, Typed
    <3>3. QED BY <2>1, <3>1, <3>2, QuietStepIsFaithful
  <2>4. QED BY <2>2, <2>3
<1>3. QED BY <1>1, <1>2

\* A refusal, the end of a subscription, a connection that drops, and no step.
LEMMA NothingIsFaithful ==
  ASSUME IInv, IInv', FInv, HistoryNext, NEW n \in Attempts,
         \/ DaemonRefuses(n) \/ DaemonUnsubscribes(n) \/ Drop \/ UNCHANGED vars
  PROVE  FInv'
<1>1. /\ UNCHANGED <<desired, shown, ch, buffer, store, changes, pageRows>>
      /\ page' = page \/ Drop
      /\ wire' = wire \/ Drop
  BY DEF DaemonRefuses, DaemonUnsubscribes, Drop, vars, clientVars, daemonVars
<1>2. CASE Drop
  <2>1. /\ \A m \in Attempts : page'[m] = "read" => page[m] = "read"
        /\ \A m \in Attempts : wire'[m] = <<>>
    BY <1>2 DEF Drop
  <2>2. \A m \in Attempts : Range(wire'[m]) = {}
    BY <2>1 DEF Range
  <2>3. QED BY <1>1, <2>1, <2>2, QuietStepIsFaithful
<1>3. CASE page' = page /\ wire' = wire
  BY <1>1, <1>3, QuietStepIsFaithful
<1>4. QED BY <1>1, <1>2, <1>3

\* The rest of a snapshot shows rows that were not shown, in states they may be
\* shown in, or none.
LEMMA PageFills ==
  ASSUME IInv, FInv, NEW n \in Attempts, DeliverPage(n),
         NEW c \in Channels, NEW i \in Rows
  PROVE  \/ shown'[c][i] \in {0, shown[c][i]}
         \/ /\ shown[c][i] = 0 /\ pageRows' # pageRows
            /\ shown'[c][i] \in had[c][i] /\ floor[c][i] <= shown'[c][i]
<1>1. PICK r : Becomes(r) /\ PageDelivered(n, r)
  BY PageDelivers
<1>2. shown'[c] = r.ch[c].rows
  BY <1>1 DEF Becomes, PageDelivered
<1>3. ShownWell(Client, shown, c) /\ NoRows[i] = 0
  BY StatesOfRows, Typed DEF FInv, Faithful
<1>4. CASE ~(c = of[n] /\ ch[c].sid = n)
  <2>1. r.ch[c].rows = ch[c].rows
    BY <1>1, <1>4 DEF PageDelivered
  <2>2. ch[c].rows \in {NoRows, shown[c]}
    BY <1>3, Typed DEF ShownWell
  <2>3. QED BY <1>2, <1>3, <2>1, <2>2
<1>5. CASE c = of[n] /\ ch[c].sid = n
  <2>1. c \in desired /\ ch[c].reg = n
    <3>1. n # 0 /\ ChannelRegistered(desired, Client, c)
      BY Typed, DeltaAssumption
         DEF ClientInv, Registered, Attempts, DeltaAssumption
    <3>2. QED BY <1>5, <3>1, Typed DEF ChannelRegistered
  <2>2. shown[c] = ch[c].rows /\ page[n] = "read"
    <3>1. page[n] = "read"
      BY DEF DeliverPage
    <3>2. ch[c].next # 0
      BY <2>1, <3>1, PageOfTheConfirmed, Typed
    <3>3. QED BY <2>1, <3>1, <3>2, Typed DEF ClientInv, Fresh, ChannelFresh
  <2>3. r.ch[c].rows[i] = IF i \in DOMAIN pageRows[n] /\ Missing(Client, c, i)
                          THEN pageRows[n][i] ELSE ch[c].rows[i]
    BY <1>1, <1>5 DEF PageDelivered
  <2>4. CASE i \in DOMAIN pageRows[n] /\ Missing(Client, c, i)
    <3>1. Allowed(Client, shown, c, i, pageRows[n][i])
      BY <2>1, <2>2, <2>4, Typed DEF FInv, Faithful, PagedWell
    <3>2. shown[c][i] = 0
      BY <2>2, <2>4, Typed DEF Missing
    <3>3. pageRows' # pageRows
      <4>1. pageRows \in [Attempts -> PartialRows]
            /\ pageRows' = [pageRows EXCEPT ![n] = NoPage]
        BY DEF IInv, DaemonTyped, DeliverPage
      <4>2. DOMAIN pageRows'[n] = {}
        BY <4>1 DEF NoPage
      <4>3. QED BY <2>4, <4>2
    <3>4. QED BY <1>2, <2>3, <2>4, <3>1, <3>2, <3>3 DEF Allowed
  <2>5. CASE ~(i \in DOMAIN pageRows[n] /\ Missing(Client, c, i))
    BY <1>2, <2>2, <2>3, <2>5
  <2>6. QED BY <2>4, <2>5
<1>6. QED BY <1>4, <1>5

\* It raises no floor.
LEMMA PageRaisesNothing ==
  ASSUME IInv, FInv, NEW n \in Attempts, DeliverPage(n)
  PROVE  \A c \in Channels : \A i \in Rows : ~Raises(c, i)
<1> SUFFICES ASSUME NEW c \in Channels, NEW i \in Rows, Raises(c, i)
             PROVE  FALSE
  OBVIOUS
<1>1. shown'[c][i] = 0
  BY PageFills DEF Raises
<1>2. floor[c][i] \in Nat
  BY StatesOfRows DEF FInv
<1>3. QED BY <1>1, <1>2 DEF Raises

\* The rest of a snapshot.
LEMMA PageIsFaithful ==
  ASSUME IInv, FInv, HistoryNext, NEW n \in Attempts, DeliverPage(n)
  PROVE  FInv'
<1> DEFINE way == Way'
           pr == pageRows'
<1>1. PICK r : Becomes(r) /\ PageDelivered(n, r)
  BY PageDelivers
<1>2. /\ UNCHANGED <<desired, store, changes, wire>>
      /\ pageRows' = [pageRows EXCEPT ![n] = NoPage]
  BY DEF DeliverPage
<1>3. /\ r \in ClientStates /\ shown' = r.shown /\ r.buffer = buffer
      /\ r.page[n] = "none" /\ \A m \in Attempts \ {n} : r.page[m] = page[m]
      /\ \A c \in Channels : /\ r.shown[c] = r.ch[c].rows
                             /\ r.ch[c].reg = ch[c].reg /\ r.ch[c].gone = ch[c].gone
                             /\ ch[c].sid # n => r.ch[c].rows = ch[c].rows
  BY <1>1 DEF PageDelivered, Becomes
<1>4. way = Way' /\ pr = pageRows' /\ way = Way
      /\ \A m \in Attempts \ {n} : pr[m] = pageRows[m]
  BY <1>2 DEF Way, IInv, DaemonTyped
<1>5. Faithful(desired, Client, Way, pageRows, shown)
  BY DEF FInv
<1>6. \A c \in Channels : \A i \in Rows : \A v :
        Allowed(Client, shown, c, i, v) => Allowed(r, r.shown, c, i, v)
  BY DEF Allowed
<1> HIDE DEF way, pr
<1>7. ASSUME NEW c \in Channels
      PROVE  ShownWell(r, r.shown, c)
  <2>1. ASSUME NEW i \in Rows
        PROVE  Allowed(r, r.shown, c, i, r.shown[c][i])
    <3>1. Allowed(Client, shown, c, i, shown[c][i])
      BY <1>5, Typed DEF Faithful, ShownWell
    <3>2. \/ r.shown[c][i] \in {0, shown[c][i]}
          \/ r.shown[c][i] \in had[c][i] /\ floor[c][i] <= r.shown[c][i]
      BY <1>3, PageFills
    <3>3. QED BY <3>1, <3>2 DEF Allowed
  <2>2. QED BY <1>3, <2>1 DEF ShownWell
<1>8. ASSUME NEW c \in desired
      PROVE  ComesWell(r, way, r.shown, c) /\ PagedWell(r, pr, r.shown, c)
  <2>1. /\ c \in Channels /\ ch[c].reg \in Attempts /\ ch[c].sid \in {0, ch[c].reg}
        /\ n # 0 /\ ComesWell(Client, Way, shown, c)
        /\ PagedWell(Client, pageRows, shown, c)
    BY <1>5, OwnAttempt, Typed, DeltaAssumption
       DEF Faithful, ClientInv, Attempts, DeltaAssumption
  <2>2. Coming(r, way, ch[c].reg) = Coming(Client, Way, ch[c].reg)
    BY <1>3, <1>4, <2>1, Typed DEF Coming
  <2>3. ComesWell(r, way, r.shown, c)
    BY <1>3, <1>6, <2>1, <2>2, Typed DEF ComesWell
  <2>4. PagedWell(r, pr, r.shown, c)
    <3>1. CASE ch[c].reg = n
      BY <1>3, <2>1, <3>1 DEF PagedWell
    <3>2. CASE ch[c].reg # n
      <4>1. /\ r.ch[c].rows = ch[c].rows /\ pr[ch[c].reg] = pageRows[ch[c].reg]
            /\ r.page[ch[c].reg] = page[ch[c].reg]
        BY <1>3, <1>4, <2>1, <3>2
      <4>2. QED BY <1>3, <1>6, <2>1, <4>1, Typed DEF PagedWell, Missing
    <3>3. QED BY <3>1, <3>2
  <2>5. QED BY <2>3, <2>4
<1>9. Faithful(desired, r, way, pr, r.shown)
  BY <1>7, <1>8 DEF Faithful
<1>10. desired \in SUBSET Channels /\ desired = desired'
  BY <1>2, Typed
<1>11. QED BY <1>1, <1>2, <1>3, <1>4, <1>9, <1>10, PageRaisesNothing, FInvAfter
           DEF FInv

\* What the daemon has may be shown.
LEMMA StoredIsAllowed ==
  ASSUME IInv, FInv, NEW st, NEW c \in Channels, NEW i \in Rows
  PROVE  st.shown = shown => Allowed(st, shown, c, i, store[c][i])
<1>1. /\ store[c][i] \in had[c][i] /\ floor[c][i] \in had[c][i] \cup {0}
      /\ store[c][i] # 0 => \A w \in had[c][i] : w <= store[c][i]
  BY DEF FInv, Past
<1>2. store[c][i] \in Nat
  BY <1>1, StatesOfRows DEF FInv
<1>3. QED BY <1>1, <1>2 DEF Allowed

\* The daemon reads a continuation: rows it has.
LEMMA ReadIsFaithful ==
  ASSUME IInv, IInv', FInv, HistoryNext, NEW n \in Attempts, DaemonReads(n)
  PROVE  FInv'
<1> DEFINE st == Client'
           pr == pageRows'
           way == Way'
<1>1. /\ page' = [page EXCEPT ![n] = "read"]
      /\ pageRows' = [pageRows EXCEPT ![n] =
           [i \in Present(of[n]) \ cut[n] |-> store[of[n]][i]]]
      /\ UNCHANGED <<desired, ch, buffer, shown, store, changes, wire, attempts>>
  BY DEF DaemonReads
<1>2. /\ pr[n] = [i \in Present(of[n]) \ cut[n] |-> store[of[n]][i]]
      /\ \A m \in Attempts \ {n} : pr[m] = pageRows[m]
  BY <1>1 DEF IInv, DaemonTyped
<1>3. /\ st.ch = ch /\ st.buffer = buffer /\ st.shown = shown
      /\ \A m \in Attempts \ {n} : st.page[m] = page[m]
      /\ way = Way
  BY <1>1, Typed DEF Client, Way
<1>4. st \in ClientStates /\ Becomes(st)
  <2>1. Client' \in ClientStates
    BY DEF IInv, ClientStates
  <2>2. attempts' <= MaxAttempts
    BY <1>1, Typed
  <2>3. QED BY <2>1, <2>2 DEF Becomes, Client
<1>5. pr = pageRows' /\ way = Way' /\ desired = desired' /\ desired \in SUBSET Channels
  BY <1>1, Typed
<1> HIDE DEF st, pr, way
<1>6. Faithful(desired, Client, Way, pageRows, shown)
  BY DEF FInv
<1>7. \A c \in Channels : \A i \in Rows : \A v :
        Allowed(Client, shown, c, i, v) => Allowed(st, shown, c, i, v)
  BY <1>3 DEF Allowed
<1>8. \A c \in Channels : ShownWell(st, shown, c)
  BY <1>3, <1>6, <1>7, Typed DEF Faithful, ShownWell
<1>9. ASSUME NEW c \in desired
      PROVE  ComesWell(st, way, shown, c) /\ PagedWell(st, pr, shown, c)
  <2>1. /\ c \in Channels /\ ch[c].reg \in Attempts /\ of[ch[c].reg] = c
        /\ ComesWell(Client, Way, shown, c) /\ PagedWell(Client, pageRows, shown, c)
    BY <1>6, OwnAttempt, Typed DEF Faithful, ClientInv
  <2>2. Coming(st, way, ch[c].reg) = Coming(Client, Way, ch[c].reg)
    BY <1>3, Typed DEF Coming
  <2>3. ComesWell(st, way, shown, c)
    BY <1>3, <1>7, <2>1, <2>2, Typed DEF ComesWell
  <2>4. PagedWell(st, pr, shown, c)
    <3>1. CASE ch[c].reg = n
      <4>1. \A i \in DOMAIN pr[n] : pr[n][i] = store[c][i]
        BY <1>2, <2>1, <3>1
      <4>2. \A i \in Rows : Allowed(st, shown, c, i, store[c][i])
        BY <1>3, <2>1, StoredIsAllowed
      <4>3. QED BY <1>3, <3>1, <4>1, <4>2 DEF PagedWell
    <3>2. CASE ch[c].reg # n
      <4>1. /\ pr[ch[c].reg] = pageRows[ch[c].reg]
            /\ st.page[ch[c].reg] = page[ch[c].reg]
        BY <1>2, <1>3, <2>1, <3>2
      <4>2. QED BY <1>3, <1>7, <2>1, <4>1, Typed DEF PagedWell, Missing
    <3>3. QED BY <3>1, <3>2
  <2>5. QED BY <2>3, <2>4
<1>10. Faithful(desired, st, way, pr, shown)
  BY <1>8, <1>9 DEF Faithful
<1>11. QED BY <1>1, <1>4, <1>5, <1>10, FInvAfter DEF FInv

\* The daemon makes a subscription: its snapshot brings rows the daemon has.
LEMMA SubscriptionIsFaithful ==
  ASSUME IInv, IInv', FInv, HistoryNext, NEW n \in Attempts, DaemonSubscribes(n)
  PROVE  FInv'
<1> DEFINE st == Client'
           way == Way'
<1>1. /\ req[n] = "asked"
      /\ UNCHANGED <<desired, ch, buffer, shown, page, store, changes, attempts,
                     pageRows>>
      /\ \E first \in SUBSET Present(of[n]) : \E more \in BOOLEAN :
           wire' = [wire EXCEPT ![n] = <<Push(n, "snapshot", 0,
                      [i \in first |-> store[of[n]][i]], more)>>]
  BY DEF DaemonSubscribes
<1>2. PICK first \in SUBSET Present(of[n]), more \in BOOLEAN :
        wire' = [wire EXCEPT ![n] = <<Push(n, "snapshot", 0,
                   [i \in first |-> store[of[n]][i]], more)>>]
  BY <1>1
<1> DEFINE p == Push(n, "snapshot", 0, [i \in first |-> store[of[n]][i]], more)
<1>3. p.rows = [i \in first |-> store[of[n]][i]] /\ p.seq = 0
  BY DEF Push
<1>4. wire' = [wire EXCEPT ![n] = <<p>>] /\ wire \in [Attempts -> Seq(Pushes)]
  BY <1>2 DEF IInv, DaemonTyped
<1> HIDE DEF p
<1>5. Range(<<p>>) = {p}
  BY DEF Range
<1>6. way[n] = {p} /\ \A m \in Attempts \ {n} : way[m] = Way[m]
  BY <1>4, <1>5 DEF Way
<1>7. /\ st.ch = ch /\ st.buffer = buffer /\ st.shown = shown /\ st.page = page
  BY <1>1 DEF Client
<1>8. st \in ClientStates /\ Becomes(st)
  <2>1. Client' \in ClientStates
    BY DEF IInv, ClientStates
  <2>2. attempts' <= MaxAttempts
    BY <1>1, Typed
  <2>3. QED BY <2>1, <2>2 DEF Becomes, Client
<1>9. way = Way' /\ desired = desired' /\ desired \in SUBSET Channels
  BY <1>1, Typed
<1> HIDE DEF st, way
<1>10. \A q \in Range(buffer) : q.sub # n
  BY <1>1, UnansweredHasNothing
<1>11. Faithful(desired, Client, Way, pageRows, shown)
  BY DEF FInv
<1>12. \A c \in Channels : NoNews(Client, st, c)
  BY <1>7, Typed DEF NoNews
<1>13. \A c \in Channels : ShownWell(st, shown, c)
  BY <1>8, <1>11, <1>12, StaysShown, Typed DEF FInv, Faithful
<1>14. ASSUME NEW c \in desired
       PROVE  ComesWell(st, way, shown, c) /\ PagedWell(st, pageRows, shown, c)
  <2>1. /\ c \in Channels /\ ch[c].reg \in Attempts /\ of[ch[c].reg] = c
        /\ ShownWell(Client, shown, c)
        /\ ComesWell(Client, Way, shown, c) /\ PagedWell(Client, pageRows, shown, c)
    BY <1>11, OwnAttempt, Typed DEF Faithful, ClientInv
  <2>2. CASE ch[c].reg = n
    <3>1. Coming(st, way, n) = {p}
      BY <1>6, <1>7, <1>10 DEF Coming
    <3>2. \A i \in DOMAIN p.rows : p.rows[i] = store[c][i]
      BY <1>3, <2>1, <2>2
    <3>3. \A i \in Rows : Allowed(st, shown, c, i, store[c][i])
      BY <1>7, <2>1, StoredIsAllowed
    <3>4. ComesWell(st, way, shown, c)
      BY <1>3, <1>7, <2>2, <3>1, <3>2, <3>3 DEF ComesWell, NotOlder
    <3>5. PagedWell(st, pageRows, shown, c)
      BY <1>7, <2>1, Typed DEF PagedWell, Missing, Allowed
    <3>6. QED BY <3>4, <3>5
  <2>3. CASE ch[c].reg # n
    <3>1. Fewer(Client, Way, st, way, c)
      BY <1>6, <1>7, <2>1, <2>3, Typed DEF Fewer, Coming
    <3>2. QED BY <1>8, <1>12, <2>1, <3>1, StaysWell, Typed DEF FInv
  <2>4. QED BY <2>2, <2>3
<1>15. Faithful(desired, st, way, pageRows, shown)
  BY <1>13, <1>14 DEF Faithful
<1>16. QED BY <1>1, <1>8, <1>9, <1>15, TurnIsFaithful

\* The daemon's collections change: what they were is history, and every
\* subscription is brought the newest state of the row.
LEMMA ChangeIsFaithful ==
  ASSUME IInv, IInv', FInv, HistoryNext, NEW c0 \in Channels, NEW i0 \in Rows,
         DaemonChanges(c0, i0)
  PROVE  FInv'
<1> DEFINE told == {n \in live : of[n] = c0}
           st == Client'
           way == Way'
<1>1. PICK v \in {0, changes'} \ {store[c0][i0]}, loses \in BOOLEAN :
        /\ store' = [store EXCEPT ![c0][i0] = v]
        /\ wire' = [n \in Attempts |->
                      IF n \in told /\ ~loses
                      THEN Append(wire[n], Push(n, "delta", sent[n],
                                                [r \in {i0} |-> v], FALSE))
                      ELSE wire[n]]
  BY DEF DaemonChanges
<1>2. /\ changes' = changes + 1
      /\ UNCHANGED <<desired, ch, buffer, shown, page, attempts, pageRows>>
  BY DEF DaemonChanges, clientVars
<1> HIDE DEF told
<1>3. /\ store \in [Channels -> [Rows -> Values]] /\ changes \in Nat
      /\ wire \in [Attempts -> Seq(Pushes)] /\ live \subseteq Attempts
      /\ sent \in [Attempts -> Values] /\ desired \in SUBSET Channels
      /\ changes' \in Values
  <2>1. DaemonTyped /\ DaemonTyped'
    BY DEF IInv
  <2>2. /\ store \in [Channels -> [Rows -> Values]] /\ changes \in Values
        /\ wire \in [Attempts -> Seq(Pushes)] /\ live \subseteq Attempts
        /\ sent \in [Attempts -> Values] /\ desired \in SUBSET Channels
    BY <2>1 DEF DaemonTyped
  <2>3. changes' \in Values
    BY <2>1 DEF DaemonTyped, Values
  <2>4. QED BY <2>2, <2>3, DeltaAssumption DEF Values, DeltaAssumption
<1>4. v \in Values /\ (v = 0 \/ v = changes + 1)
  BY <1>1, <1>2, <1>3, DeltaAssumption DEF Values, DeltaAssumption
<1> DEFINE rows == [r \in {i0} |-> v]
           delta(n) == Push(n, "delta", sent[n], rows, FALSE)
<1>5. rows \in PartialRows /\ DOMAIN rows = {i0} /\ rows[i0] = v
  <2>1. rows \in [{i0} -> Values] /\ {i0} \in SUBSET Rows
    BY <1>4
  <2>2. QED BY <2>1 DEF PartialRows
<1>6. \A n \in Attempts :
        wire'[n] = IF n \in told /\ ~loses THEN Append(wire[n], delta(n)) ELSE wire[n]
  BY <1>1
<1> HIDE DEF rows
<1>7. ASSUME NEW n \in Attempts
      PROVE  /\ delta(n) \in Pushes /\ delta(n).seq = sent[n]
             /\ delta(n).rows = rows
  <2>1. sent[n] \in Values
    BY <1>3
  <2>2. QED BY <1>5, <2>1 DEF Push, Pushes
<1> HIDE DEF delta
<1>8. \A n \in told : n \in Attempts /\ n \in live /\ of[n] = c0
  BY <1>3 DEF told
<1>9. ASSUME NEW n \in Attempts
      PROVE  way[n] \subseteq Way[n] \cup (IF n \in told THEN {delta(n)} ELSE {})
  <2>1. CASE n \in told /\ ~loses
    <3>1. wire'[n] = Append(wire[n], delta(n)) /\ wire[n] \in Seq(Pushes)
      BY <1>3, <1>6, <2>1
    <3>2. Range(wire'[n]) = Range(wire[n]) \cup {delta(n)}
      BY <1>7, <3>1, WithOneMore
    <3>3. QED BY <2>1, <3>2 DEF Way
  <2>2. CASE ~(n \in told /\ ~loses)
    BY <1>6, <2>2 DEF Way
  <2>3. QED BY <2>1, <2>2
<1>10. /\ st.ch = ch /\ st.buffer = buffer /\ st.shown = shown /\ st.page = page
  BY <1>2 DEF Client
<1>11. st = Client' /\ way = Way'
  OBVIOUS
<1> HIDE DEF st, way
<1>12. \A n \in Attempts : Coming(st, way, n) \subseteq
         Coming(Client, Way, n) \cup (IF n \in told THEN {delta(n)} ELSE {})
  BY <1>9, <1>10, Typed DEF Coming
\* The history.
<1>13. ASSUME NEW c \in Channels, NEW i \in Rows
       PROVE  /\ had'[c][i] = had[c][i] \cup {store'[c][i]}
              /\ floor'[c][i] = floor[c][i]
              /\ had[c][i] \in SUBSET (0..changes)
              /\ floor[c][i] \in Values /\ floor[c][i] \in had[c][i] \cup {0}
              /\ store[c][i] \in had[c][i]
              /\ c # c0 \/ i # i0 => store'[c][i] = store[c][i]
  BY <1>1, <1>2, <1>3 DEF HistoryNext, Raises, FInv, HistoryTyped, Past
<1>14. store'[c0][i0] = v /\ \A c \in Channels : store'[c] \in [Rows -> Values]
  BY <1>1, <1>3, <1>4
<1>15. \A w \in 0..changes : w \in 0..(changes + 1) /\ w <= changes + 1
  BY <1>3
<1>16. HistoryTyped'
  <2>1. ASSUME NEW c \in Channels, NEW i \in Rows
        PROVE  store'[c][i] \in 0..(changes + 1)
    <3>1. CASE c = c0 /\ i = i0
      BY <1>3, <1>4, <1>14, <3>1
    <3>2. CASE c # c0 \/ i # i0
      BY <1>13, <1>15, <3>2
    <3>3. QED BY <3>1, <3>2
  <2>2. ASSUME NEW c \in Channels, NEW i \in Rows
        PROVE  had[c][i] \cup {store'[c][i]} \in SUBSET (0..(changes + 1))
    BY <1>13, <1>15, <2>1
  <2>3. had' = [c \in Channels |-> [i \in Rows |-> had[c][i] \cup {store'[c][i]}]]
        /\ floor' = [c \in Channels |-> [i \in Rows |->
                       IF Raises(c, i) THEN shown'[c][i] ELSE floor[c][i]]]
    BY DEF HistoryNext
  <2>4. had' \in [Channels -> [Rows -> SUBSET (0..(changes + 1))]]
    BY <2>2, <2>3
  <2>5. \A c \in Channels : \A i \in Rows :
          (IF Raises(c, i) THEN shown'[c][i] ELSE floor[c][i]) \in Values
    BY <1>2, <1>13 DEF Raises
  <2>6. floor' \in [Channels -> [Rows -> Values]]
    BY <2>3, <2>5
  <2>7. QED BY <1>2, <2>4, <2>6 DEF HistoryTyped, Values
<1>17. Past'
  <2>1. ASSUME NEW c \in Channels, NEW i \in Rows
        PROVE  /\ store'[c][i] \in had'[c][i] /\ floor'[c][i] \in had'[c][i] \cup {0}
               /\ store'[c][i] # 0 => \A w \in had'[c][i] : w <= store'[c][i]
    <3>1. CASE c = c0 /\ i = i0
      BY <1>3, <1>4, <1>13, <1>14, <1>15, <3>1
    <3>2. CASE c # c0 \/ i # i0
      <4>1. store'[c][i] = store[c][i] /\ store[c][i] \in had[c][i]
        BY <1>13, <3>2
      <4>2. had'[c][i] = had[c][i]
        <5>1. had'[c][i] = had[c][i] \cup {store'[c][i]}
          BY <1>13
        <5>2. QED BY <4>1, <5>1
      <4>3. QED BY <1>13, <4>1, <4>2 DEF FInv, Past
    <3>3. QED BY <3>1, <3>2
  <2>2. QED BY <2>1 DEF Past
\* What may be shown.
<1>18. ASSUME NEW c \in Channels, NEW i \in Rows, NEW x,
              Allowed(Client, shown, c, i, x)
       PROVE  Allowed(Client, shown, c, i, x)'
  BY <1>2, <1>10, <1>11, <1>13, <1>18, Typed DEF Allowed
<1>19. Allowed(Client, shown, c0, i0, v)'
  <2>1. v = 0 \/ (v \in had'[c0][i0] /\ floor'[c0][i0] <= v)
    BY <1>3, <1>4, <1>13, <1>14, <1>15
  <2>2. QED BY <1>2, <1>10, <1>11, <2>1 DEF Allowed
<1>20. Faithful(desired, Client, Way, pageRows, shown)
  BY DEF FInv
<1>21. ASSUME NEW c \in Channels
       PROVE  ShownWell(Client, shown, c)'
  <2>1. ShownWell(Client, shown, c)
    BY <1>20 DEF Faithful
  <2>2. QED BY <1>2, <1>10, <1>11, <1>18, <2>1, Typed DEF ShownWell
<1>22. ASSUME NEW c \in desired
       PROVE  ComesWell(Client, Way, shown, c)' /\ PagedWell(Client, pageRows, shown, c)'
  <2> DEFINE n == ch[c].reg
             before == Coming(Client, Way, n)
  <2>1. /\ c \in Channels /\ n \in Attempts /\ of[n] = c
        /\ ComesWell(Client, Way, shown, c) /\ PagedWell(Client, pageRows, shown, c)
    BY <1>20, OwnAttempt, Typed DEF Faithful, ClientInv
  <2>2. Coming(st, way, n) \subseteq before \cup (IF n \in told THEN {delta(n)} ELSE {})
    BY <1>12, <2>1
  <2>3. \A p \in before : \A i \in Rows : i \in DOMAIN p.rows =>
          /\ Allowed(Client, shown, c, i, p.rows[i])
          /\ \A q \in before : NotOlder(p, q, i)
    BY <2>1, Typed DEF ComesWell
  <2>4. n \in told => c = c0
    BY <1>8, <2>1
  <2>5. ASSUME n \in told
        PROVE  /\ \A p \in before : ~(delta(n).seq < p.seq)
               /\ ~(delta(n).seq < delta(n).seq)
    <3>1. sent[n] \in Nat /\ delta(n).seq = sent[n]
      BY <1>3, <1>7, <2>1 DEF Values
    <3>2. \A p \in before : p.seq \in Nat /\ p.seq < sent[n]
      BY <1>8, <2>1, <2>5, PushFields, Typed DEF ClientInv, Issued
    <3> HIDE DEF before, n
    <3>3. QED BY <3>1, <3>2
  <2>6. ASSUME n \in told, NEW p \in before, NEW i \in Rows, i \in DOMAIN p.rows
        PROVE  NotOlder(p, delta(n), i)
    <3>1. SUFFICES ASSUME i = i0, v # 0
                   PROVE  p.rows[i] <= v
      BY <1>5, <1>7, <2>1 DEF NotOlder
    <3>2. Allowed(Client, shown, c, i, p.rows[i])
      BY <2>3, <2>6
    <3>3. p.rows[i] \in 0..changes
      BY <1>3, <1>13, <2>1, <3>2 DEF Allowed
    <3>4. QED BY <1>3, <1>4, <3>1, <3>3
  <2>7. ASSUME n \in told, NEW i \in Rows, i \in DOMAIN delta(n).rows,
               NEW x, x = delta(n).rows[i]
        PROVE  Allowed(Client, shown, c, i, x)'
    <3>1. c = c0 /\ i = i0 /\ x = v
      BY <1>5, <1>7, <2>1, <2>4, <2>7
    <3>2. QED BY <1>19, <3>1
  <2>8. st.ch[c].reg = n
    BY <1>10
  <2> HIDE DEF before, n
  <2>9. ASSUME NEW p \in Coming(st, way, n), NEW i \in Rows, i \in DOMAIN p.rows
        PROVE  /\ Allowed(Client, shown, c, i, p.rows[i])'
               /\ \A q \in Coming(st, way, n) : NotOlder(p, q, i)
    <3>1. CASE p \in before
      <4>1. \A q \in before : NotOlder(p, q, i)
        BY <2>3, <2>9, <3>1
      <4>2. n \in told => NotOlder(p, delta(n), i)
        BY <2>6, <2>9, <3>1
      <4>3. Allowed(Client, shown, c, i, p.rows[i])'
        BY <1>18, <2>1, <2>3, <2>9, <3>1
      <4>4. QED BY <2>2, <4>1, <4>2, <4>3
    <3>2. CASE p \notin before
      <4>1. n \in told /\ p = delta(n)
        BY <2>2, <2>9, <3>2
      <4>2. \A q \in Coming(st, way, n) : ~(p.seq < q.seq)
        BY <2>2, <2>5, <4>1
      <4>3. QED BY <2>7, <2>9, <4>1, <4>2 DEF NotOlder
    <3>3. QED BY <3>1, <3>2
  <2>10. ComesWell(Client, Way, shown, c)'
    <3>1. \A m : Coming(Client, Way, m)' = Coming(st, way, m)
      BY <1>11 DEF Coming
    <3>2. QED BY <1>11, <2>8, <2>9, <3>1 DEF ComesWell
  <2>11. PagedWell(Client, pageRows, shown, c)'
    BY <1>2, <1>10, <1>11, <1>18, <2>1, Typed DEF PagedWell, Missing
  <2>12. QED BY <2>10, <2>11
<1>23. Faithful(desired, Client, Way, pageRows, shown)'
  BY <1>2, <1>21, <1>22 DEF Faithful
<1>24. QED BY <1>16, <1>17, <1>23 DEF FInv

\* The client and the daemon start with nothing shown and nothing coming.
LEMMA InitFInv == Init /\ HistoryInit => FInv
<1> SUFFICES ASSUME Init, HistoryInit
             PROVE  FInv
  OBVIOUS
<1>1. /\ ch = [c \in Channels |-> [FreshChannel EXCEPT !.reg = attempts]]
      /\ shown = [c \in Channels |-> NoRows] /\ buffer = <<>>
      /\ page = [n \in Attempts |-> "none"] /\ wire = [n \in Attempts |-> <<>>]
      /\ changes = 1 /\ attempts \in {0, 1}
      /\ store \in {[c \in Channels |-> [i \in Rows |-> v]] : v \in {0, 1}}
  BY DEF Init
<1>2. /\ had = [c \in Channels |-> [i \in Rows |-> {store[c][i]}]]
      /\ floor = [c \in Channels |-> [i \in Rows |-> 0]]
  BY DEF HistoryInit
<1>3. IInv
  BY InitIInv
<1>4. \A c \in Channels : \A i \in Rows : store[c][i] \in {0, 1}
  BY <1>1
<1>5. 0 \in Values /\ 0 \in 0..1 /\ 1 \in 0..1
  BY DeltaAssumption DEF Values, DeltaAssumption
<1>6. HistoryTyped
  <2>1. \A c \in Channels : \A i \in Rows : {store[c][i]} \in SUBSET (0..1)
    BY <1>4, <1>5
  <2>2. had \in [Channels -> [Rows -> SUBSET (0..changes)]]
    BY <1>1, <1>2, <2>1
  <2>3. floor \in [Channels -> [Rows -> Values]]
    BY <1>2, <1>5
  <2>4. QED BY <2>2, <2>3 DEF HistoryTyped
<1>7. Past
  BY <1>2, <1>4 DEF Past
<1>8. ASSUME NEW c \in Channels
      PROVE  ShownWell(Client, shown, c)
  <2>1. ch[c].rows = NoRows /\ shown[c] = NoRows
    BY <1>1 DEF FreshChannel
  <2>2. \A i \in Rows : shown[c][i] = 0
    BY <2>1 DEF NoRows
  <2>3. QED BY <1>3, <2>1, <2>2, Typed DEF ShownWell, Allowed
<1>9. ASSUME NEW c \in desired
      PROVE  ComesWell(Client, Way, shown, c) /\ PagedWell(Client, pageRows, shown, c)
  <2>1. c \in Channels /\ ch[c].reg \in Attempts
    BY <1>3, OwnAttempt, Typed DEF ClientInv
  <2>2. Coming(Client, Way, ch[c].reg) = {}
    <3>1. Range(buffer) = {} /\ wire[ch[c].reg] = <<>>
      BY <1>1, <2>1 DEF Range
    <3>2. Way[ch[c].reg] = {}
      BY <2>1, <3>1 DEF Way, Range
    <3>3. QED BY <1>3, <3>1, <3>2, Typed DEF Coming
  <2>3. page[ch[c].reg] = "none"
    BY <1>1, <2>1
  <2>4. QED BY <1>3, <2>2, <2>3, Typed DEF ComesWell, PagedWell
<1>10. QED BY <1>6, <1>7, <1>8, <1>9 DEF FInv, Faithful

\* Every step keeps what may be shown.
LEMMA NextFInv ==
  ASSUME IInv, IInv', FInv, HistoryNext, [Next]_vars
  PROVE  FInv'
<1>1. ASSUME NEW n \in Attempts,
             \/ DeliverReply(n) \/ DeliverFailure(n) \/ ReplyTimesOut(n)
             \/ DeliverPush(n) \/ DeliverPage(n) \/ PageGivesUp(n) \/ GiveUpFires(n)
             \/ DaemonSubscribes(n) \/ DaemonRefuses(n) \/ DaemonReads(n)
             \/ DaemonUnsubscribes(n)
      PROVE  FInv'
  BY <1>1, ReplyIsFaithful, FailureIsFaithful, PushIsFaithful, PageIsFaithful,
     GiveUpIsFaithful, SubscriptionIsFaithful, ReadIsFaithful, NothingIsFaithful
<1>2. ASSUME NEW c \in Channels, RetryFires(c)
      PROVE  FInv'
  <2>1. PICK r \in ClientStates :
          Becomes(r) /\ Supersedes(desired, Client, {c}, desired, r)
    BY <1>2, RetrySupersedes
  <2>2. {c} \in SUBSET Channels
    OBVIOUS
  <2>3. QED BY <1>2, <2>1, <2>2, SupersedingIsFaithful, Typed DEF RetryFires, daemonVars
<1>3. ASSUME NEW c \in Channels, NEW i \in Rows, DaemonChanges(c, i)
      PROVE  FInv'
  BY <1>3, ChangeIsFaithful
<1>4. ASSUME NEW D \in SUBSET Channels, SetDesired(D)
      PROVE  FInv'
  <2>1. PICK r \in ClientStates :
          Becomes(r) /\ Supersedes(desired, Client, D \ desired, D, r)
    BY <1>4, SetDesiredSupersedes
  <2>2. D \ desired \in SUBSET Channels
    OBVIOUS
  <2>3. QED BY <1>4, <2>1, <2>2, SupersedingIsFaithful DEF SetDesired, daemonVars
<1>5. CASE Reconnected
  <2>1. PICK r \in ClientStates :
          Becomes(r) /\ Supersedes(desired, Client, desired, desired, r)
    BY <1>5, ReconnectedSupersedes
  <2>2. QED BY <1>5, <2>1, SupersedingIsFaithful, Typed DEF Reconnected, daemonVars
<1>6. CASE Dispose
  <2>1. PICK r \in ClientStates :
          Becomes(r) /\ Supersedes(desired, Client, {}, {}, r)
    BY <1>6, DisposeSupersedes
  <2>2. {} \in SUBSET Channels
    OBVIOUS
  <2>3. QED BY <1>6, <2>1, <2>2, SupersedingIsFaithful DEF Dispose, daemonVars
<1>7. CASE Drop \/ UNCHANGED vars
  <2>1. 1 \in Attempts
    BY DeltaAssumption DEF Attempts, DeltaAssumption
  <2>2. QED BY <1>7, <2>1, NothingIsFaithful
<1>8. QED BY <1>1, <1>2, <1>3, <1>4, <1>5, <1>6, <1>7 DEF Next

-----------------------------------------------------------------------------
(* The view.                                                               *)

\* Whoever needs nothing more shows the daemon's collection.
LEMMA InSyncShowsIt ==
  ASSUME Converged', desired' \subseteq Channels
  PROVE  View!SyncIsTrue
BY DEF Converged, InSync, View!SyncIsTrue

\* The view begins empty, and with nothing in sync.
LEMMA InitShows == Init /\ HistoryInit => View!ViewInit
<1> SUFFICES ASSUME Init, HistoryInit
             PROVE  View!ViewInit
  OBVIOUS
<1>1. /\ ch = [c \in Channels |-> [FreshChannel EXCEPT !.reg = attempts]]
      /\ shown = [c \in Channels |-> NoRows]
  BY DEF Init
<1>2. store \in [Channels -> [Rows -> Values]] /\ desired \subseteq Channels
  BY InitIInv DEF IInv, DaemonTyped
<1>3. InSync = {}
  BY <1>1, <1>2 DEF InSync, Settled, FreshChannel
<1>4. QED BY <1>1, <1>2, <1>3
      DEF View!ViewInit, View!Collections, HistoryInit, NoRows

\* What is shown may be shown.
LEMMA ShownIsFaithful ==
  ASSUME IInv, IInv', FInv, FInv', HistoryNext, UNCHANGED store
  PROVE  View!Faithful
<1>1. shown' \in [Channels -> [Rows -> Values]]
  <2>1. Client'.shown = shown' /\ Client' \in ClientStates
    BY DEF IInv, Client
  <2>2. QED BY <2>1 DEF ClientStates
<1>2. ASSUME NEW c \in Channels, NEW i \in Rows
      PROVE  \/ shown'[c][i] = 0
             \/ shown'[c][i] \in had[c][i] /\ shown'[c][i] >= floor[c][i]
  <2>1. ShownWell(Client, shown, c)' /\ Client'.shown = shown'
    BY DEF FInv, Faithful, Client
  <2>2. Allowed(Client, shown, c, i, Client.shown[c][i])'
    BY <2>1 DEF ShownWell
  <2>3. had'[c][i] = had[c][i] /\ floor'[c][i] \in {floor[c][i], shown'[c][i]}
        /\ (floor'[c][i] # floor[c][i] => shown'[c][i] > floor[c][i])
    BY HistoryAfter DEF FInv, Raises
  <2>4. floor[c][i] \in Nat /\ shown'[c][i] \in Nat
    BY <1>1, StatesOfRows, DeltaAssumption DEF FInv, Values, DeltaAssumption
  <2>5. QED BY <2>1, <2>2, <2>3, <2>4 DEF Allowed
<1>3. QED BY <1>1, <1>2 DEF View!Faithful, View!Collections

\* A step that leaves the daemon's collections alone and fills no gap from a
\* page is the view's following.
LEMMA ShowsTheView ==
  ASSUME IInv, IInv', FInv, FInv', HistoryNext, Converged', UNCHANGED store,
         pageRows' = pageRows \/ shown' = shown
  PROVE  View!Show
<1>1. View!Faithful /\ View!SyncIsTrue
  <2>1. desired' \subseteq Channels
    BY DEF IInv, DaemonTyped
  <2>2. QED BY <2>1, ShownIsFaithful, InSyncShowsIt
<1>2. had' = had
  BY HistoryAfter DEF FInv
<1>3. \A c \in Channels : \A i \in Rows :
        Raises(c, i) <=> shown'[c][i] # shown[c][i] /\ shown'[c][i] > floor[c][i]
  BY DEF Raises
<1>4. floor' = [c \in Channels |-> [i \in Rows |->
                  IF shown'[c][i] # shown[c][i] /\ shown'[c][i] > floor[c][i]
                  THEN shown'[c][i] ELSE floor[c][i]]]
  BY <1>3 DEF HistoryNext
<1>5. QED BY <1>1, <1>2, <1>4 DEF View!Show

\* The rest of a snapshot fills the gaps of the view.
LEMMA FillsTheView ==
  ASSUME IInv, IInv', FInv, FInv', HistoryNext, Converged',
         NEW n \in Attempts, DeliverPage(n)
  PROVE  View!Fill
<1>1. store' = store
  BY DEF DeliverPage
<1>2. View!Faithful /\ View!SyncIsTrue
  <2>1. desired' \subseteq Channels
    BY DEF IInv, DaemonTyped
  <2>2. QED BY <1>1, <2>1, ShownIsFaithful, InSyncShowsIt
<1>3. had' = had
  BY <1>1, HistoryAfter DEF FInv
<1>4. floor' = floor
  <2>1. floor' = [c \in Channels |-> [i \in Rows |-> floor[c][i]]]
    BY PageRaisesNothing DEF HistoryNext
  <2>2. floor \in [Channels -> [Rows -> Values]]
    BY DEF FInv, HistoryTyped
  <2>3. \A c \in Channels : floor[c] = [i \in Rows |-> floor[c][i]]
    BY <2>2
  <2>4. floor = [c \in Channels |-> floor[c]]
    BY <2>2
  <2>5. QED BY <2>1, <2>3, <2>4
<1>5. \A c \in Channels : \A i \in Rows :
        shown[c][i] # 0 => shown'[c][i] \in {0, shown[c][i]}
  BY PageFills
<1>6. QED BY <1>1, <1>2, <1>3, <1>4, <1>5 DEF View!Fill

\* A row of the daemon's changes.
LEMMA ChangesTheStore ==
  ASSUME IInv, IInv', FInv, HistoryNext, Converged',
         NEW c0 \in Channels, NEW i0 \in Rows, DaemonChanges(c0, i0)
  PROVE  View!Change(c0, i0)
<1>1. PICK v \in {0, changes'} : store' = [store EXCEPT ![c0][i0] = v]
  BY DEF DaemonChanges
<1>2. changes' = changes + 1 /\ UNCHANGED <<shown, pageRows>>
  BY DEF DaemonChanges, clientVars
<1>3. /\ store \in [Channels -> [Rows -> Values]] /\ changes' \in Values
      /\ 0 \in Values /\ changes \in Nat
  <2>1. DaemonTyped /\ DaemonTyped'
    BY DEF IInv
  <2>2. /\ store \in [Channels -> [Rows -> Values]] /\ changes \in Values
        /\ changes' \in Values
    BY <2>1 DEF DaemonTyped, Values
  <2>3. QED BY <2>2, DeltaAssumption DEF Values, DeltaAssumption
<1>4. v \in Values /\ (v = 0 \/ v = changes + 1)
  BY <1>1, <1>2, <1>3
<1>5. ASSUME NEW c \in Channels, NEW i \in Rows
      PROVE  /\ had[c][i] \in SUBSET (0..changes) /\ floor[c][i] \in Values
             /\ store[c][i] \in had[c][i]
  BY DEF FInv, HistoryTyped, Past
<1>6. v = 0 \/ \A w \in had[c0][i0] : v > w
  <2>1. \A w \in 0..changes : changes + 1 > w
    BY <1>3
  <2>2. QED BY <1>4, <1>5, <2>1
<1>7. had \in [Channels -> [Rows -> SUBSET (0..changes)]]
      /\ floor \in [Channels -> [Rows -> Values]]
  BY DEF FInv, HistoryTyped
<1>8. had' = [had EXCEPT ![c0][i0] = @ \cup {v}]
  <2> DEFINE rows(c) == [i \in Rows |-> had[c][i] \cup {store'[c][i]}]
  <2>1. had' = [c \in Channels |-> rows(c)]
    BY DEF HistoryNext
  <2>2. ASSUME NEW c \in Channels, c # c0
        PROVE  rows(c) = had[c]
    <3>1. \A i \in Rows : store'[c][i] = store[c][i]
      BY <1>1, <1>3, <2>2
    <3>2. \A i \in Rows : had[c][i] \cup {store'[c][i]} = had[c][i]
      BY <1>5, <3>1
    <3>3. QED BY <1>7, <3>2
  <2>3. rows(c0) = [had[c0] EXCEPT ![i0] = @ \cup {v}]
    <3>1. store'[c0][i0] = v /\ \A i \in Rows \ {i0} : store'[c0][i] = store[c0][i]
      BY <1>1, <1>3
    <3>2. \A i \in Rows \ {i0} : had[c0][i] \cup {store'[c0][i]} = had[c0][i]
      BY <1>5, <3>1
    <3>3. had[c0] \in [Rows -> SUBSET (0..changes)]
      BY <1>7
    <3>4. QED BY <3>1, <3>2, <3>3
  <2> HIDE DEF rows
  <2>4. QED BY <1>7, <2>1, <2>2, <2>3
<1>9. floor' = floor
  <2>1. \A c \in Channels : \A i \in Rows : ~Raises(c, i)
    BY <1>2 DEF Raises
  <2>2. floor' = [c \in Channels |-> [i \in Rows |-> floor[c][i]]]
    BY <2>1 DEF HistoryNext
  <2>3. \A c \in Channels : floor[c] = [i \in Rows |-> floor[c][i]]
    BY <1>7
  <2>4. floor = [c \in Channels |-> floor[c]]
    BY <1>7
  <2>5. QED BY <2>2, <2>3, <2>4
<1>10. View!SyncIsTrue
  <2>1. desired' \subseteq Channels
    BY DEF IInv, DaemonTyped
  <2>2. QED BY <2>1, InSyncShowsIt
<1>11. QED BY <1>1, <1>2, <1>4, <1>6, <1>8, <1>9, <1>10 DEF View!Change

\* Every step of the client, of the daemon and of the transport is one of the
\* view's.
LEMMA NextShows ==
  ASSUME IInv, IInv', FInv, FInv', Converged', [Next /\ HistoryNext]_viewed
  PROVE  [View!ViewNext]_View!viewVars
<1>1. CASE UNCHANGED viewed
  <2>1. InSync' = InSync
    BY <1>1 DEF viewed, vars, clientVars, daemonVars, InSync, Settled
  <2>2. QED BY <1>1, <2>1 DEF viewed, vars, clientVars, daemonVars, View!viewVars
<1>2. CASE Next /\ HistoryNext
  <2>1. ASSUME NEW n \in Attempts, DeliverPage(n)
        PROVE  View!ViewNext
    BY <1>2, <2>1, FillsTheView DEF View!ViewNext
  <2>2. ASSUME NEW c \in Channels, NEW i \in Rows, DaemonChanges(c, i)
        PROVE  View!ViewNext
    BY <1>2, <2>2, ChangesTheStore DEF View!ViewNext
  <2>3. ASSUME store' = store, pageRows' = pageRows \/ shown' = shown
        PROVE  View!ViewNext
    BY <1>2, <2>3, ShowsTheView DEF View!ViewNext
  <2>4. ASSUME NEW n \in Attempts,
               \/ DeliverReply(n) \/ DeliverFailure(n) \/ ReplyTimesOut(n)
               \/ DeliverPush(n) \/ PageGivesUp(n) \/ GiveUpFires(n)
               \/ DaemonSubscribes(n) \/ DaemonRefuses(n) \/ DaemonUnsubscribes(n)
        PROVE  store' = store /\ pageRows' = pageRows
    BY <2>4 DEF DeliverReply, DeliverFailure, ReplyTimesOut, DeliverPush, PageGivesUp,
       GiveUpFires, DaemonSubscribes, DaemonRefuses, DaemonUnsubscribes, daemonVars
  <2>5. ASSUME NEW n \in Attempts, DaemonReads(n)
        PROVE  store' = store /\ shown' = shown
    BY <2>5 DEF DaemonReads
  <2>6. ASSUME \/ \E c \in Channels : RetryFires(c)
               \/ \E D \in SUBSET Channels : SetDesired(D)
               \/ Reconnected \/ Dispose \/ Drop
        PROVE  store' = store /\ pageRows' = pageRows
    BY <2>6 DEF RetryFires, SetDesired, Reconnected, Dispose, Drop, daemonVars
  <2>7. QED BY <1>2, <2>1, <2>2, <2>3, <2>4, <2>5, <2>6 DEF Next
<1>3. QED BY <1>1, <1>2

\* What may be shown is kept by every step, with the invariant of the replica.
LEMMA ViewedInvariance == ViewedSpec => [](IInv /\ FInv)
<1>1. Init /\ HistoryInit => IInv /\ FInv
  BY InitIInv, InitFInv
<1>2. IInv /\ FInv /\ [Next /\ HistoryNext]_viewed => (IInv /\ FInv)'
  <2> SUFFICES ASSUME IInv, FInv, [Next /\ HistoryNext]_viewed
               PROVE  IInv' /\ FInv'
    OBVIOUS
  <2>1. [Next]_vars
    BY DEF viewed
  <2>2. IInv'
    BY <2>1, NextIInv
  <2>3. CASE Next /\ HistoryNext
    BY <2>1, <2>2, <2>3, NextFInv
  <2>4. CASE UNCHANGED viewed
    <3>1. /\ had' = had /\ floor' = floor /\ UNCHANGED vars
      BY <2>4 DEF viewed
    <3>2. Client' = Client /\ Way' = Way
          /\ UNCHANGED <<shown, store, changes, desired, pageRows>>
      BY <3>1 DEF vars, clientVars, daemonVars, Client, Way
    <3>3. HistoryTyped' /\ Past'
      BY <3>1, <3>2 DEF FInv, HistoryTyped, Past
    <3>4. Faithful(desired, Client, Way, pageRows, shown)'
      BY <3>1, <3>2 DEF FInv, Faithful, ShownWell, ComesWell, PagedWell, Allowed,
         Coming, Missing
    <3>5. QED BY <2>2, <3>3, <3>4 DEF FInv
  <2>5. QED BY <2>3, <2>4
<1>3. QED BY <1>1, <1>2, PTL DEF ViewedSpec

\* The handler's view of a collection is what CollectionView allows: no row is
\* shown in a state the daemon never had it in, none goes back to a state older
\* than one a snapshot or a delta showed, a page only fills gaps, and once nothing
\* is under way the view is the collection -- however many channels, rows, changes
\* and retries there are, and whatever is lost, held back, replayed or overtaken
\* (processPush, drainBufferedPushes, DeltaReconciler.applyDelta, fillFromPage).
THEOREM ViewImplemented == ViewedSpec => ImplementsView
<1>1. Init /\ HistoryInit => View!ViewInit
  BY InitShows
<1>2. IInv /\ IInv' /\ FInv /\ FInv' /\ Converged' /\ [Next /\ HistoryNext]_viewed
        => [View!ViewNext]_View!viewVars
  BY NextShows
<1>3. IInv => Converged
  BY SettledIsRight
<1>4. QED
  BY <1>1, <1>2, <1>3, ViewedInvariance, PTL
     DEF ViewedSpec, ImplementsView, View!ViewSpec

\* No row is ever shown that the daemon never had, or in a state older than one
\* that a snapshot or a delta showed: what the handler of a subscription gets to
\* see (emit, DeltaReconciler).
ShownIsReal ==
  \A c \in Channels : \A i \in Rows :
    shown[c][i] # 0 => shown[c][i] \in had[c][i] /\ floor[c][i] <= shown[c][i]

\* Whatever is lost, held back, replayed or overtaken, every row in front of the
\* user is one the daemon had, and not older than what it was told before.
THEOREM RowsAreReal == ViewedSpec => []ShownIsReal
<1>1. IInv /\ FInv => ShownIsReal
  <2> SUFFICES ASSUME IInv, FInv, NEW c \in Channels, NEW i \in Rows,
                      shown[c][i] # 0
               PROVE  shown[c][i] \in had[c][i] /\ floor[c][i] <= shown[c][i]
    BY DEF ShownIsReal
  <2>1. Allowed(Client, shown, c, i, shown[c][i])
    BY Typed DEF FInv, Faithful, ShownWell
  <2>2. QED BY <2>1 DEF Allowed
<1>2. QED BY <1>1, ViewedInvariance, PTL

=============================================================================
