---------------------- MODULE DeltaSubscriptionProofs ----------------------
(***************************************************************************)
(* The properties of DeltaSubscription, proved for every number of         *)
(* channels, rows, attempts, changes and lost messages.                    *)
(*                                                                         *)
(* The invariant IInv has four parts: the types of the client's and the    *)
(* daemon's state, the order of the pushes on a wire, what a disposed      *)
(* client leaves, and ClientInv.  ClientInv is stated of a client state,   *)
(* the channels it has and the pushes on their way to each subscription,   *)
(* so that it can be carried through the middle of a handler: the pushes   *)
(* a reply replays are on their way until each has been processed.         *)
(*                                                                         *)
(* Its heart is Follows.  As long as no push of a live subscription is     *)
(* missing, the last word on each row (the last delta about it that comes, *)
(* else the snapshot that comes, else what the client has, to which the    *)
(* daemon's continuation adds) is the daemon's state of that row.  When    *)
(* nothing comes any more, the client has the last word itself, which is   *)
(* Converged; a push that is missing is noticed by the sequence number of  *)
(* the next one and has the channel subscribed again.                      *)
(*                                                                         *)
(* The module goes from the client's operators (what registering, ending,  *)
(* replaying and emitting do to a state) to the invariant and each         *)
(* operator's effect on it, then to the client's steps, the daemon's and   *)
(* the transport's.  The last two parts are about rows that vanish and     *)
(* about channels that wait for their snapshot.                            *)
(***************************************************************************)
EXTENDS DeltaSubscription, FiniteSetTheorems, SequenceTheorems,
        WellFoundedInduction, TLAPS

\* The states of a request, a continuation, the buffer, a channel and
\* the whole client.
Statuses == {"none", "asked", "acked", "failed", "timedout", "done"}
Pages == {"none", "asked", "read", "gaveup"}
Buffers == {b \in Seq(Pushes) : Len(b) <= MaxBuffered}
ChannelStates ==
  [reg : Nat, sid : 0..MaxAttempts, retry : BOOLEAN, awaiting : BOOLEAN,
   next : 0..(MaxChanges + 1), rows : [Rows -> Values], gone : SUBSET Rows]
ClientStates ==
  [ch : [Channels -> ChannelStates], buffer : Buffers,
   shown : [Channels -> [Rows -> Values]], attempts : Nat,
   req : [Attempts -> Statuses], of : [Attempts -> Channels],
   page : [Attempts -> Pages], released : SUBSET Attempts]

\* The attempts made from st to r.
NewAttempts(st, r) == (st.attempts + 1)..r.attempts

\* A registration changes nothing but what it is about.
SameReplica(x, y) ==
  /\ x.sid = y.sid /\ x.awaiting = y.awaiting /\ x.next = y.next
  /\ x.rows = y.rows /\ x.gone = y.gone

\* r is st with an attempt of its own for each of the channels S: what Register
\* does, whatever order it takes them in.
RegisteredAs(st, S, r) ==
  /\ r \in ClientStates
  /\ st.attempts <= r.attempts
  /\ \A c \in S :
       /\ r.ch[c].reg \in NewAttempts(st, r)
       /\ ~r.ch[c].retry /\ SameReplica(r.ch[c], st.ch[c])
       /\ r.ch[c].reg \in Attempts => r.of[r.ch[c].reg] = c
  /\ \A c \in Channels \ S : r.ch[c] = st.ch[c]
  /\ \A n \in Attempts :
       IF n \in NewAttempts(st, r)
       THEN r.req[n] = "asked"
       ELSE r.req[n] = st.req[n] /\ r.of[n] = st.of[n]
  /\ r.buffer = st.buffer /\ r.shown = st.shown /\ r.page = st.page
  /\ r.released = st.released

\* Finite sets can be put in an order.
LEMMA SomeOrder ==
  ASSUME NEW S, IsFiniteSet(S)
  PROVE  LET k == Cardinality(S)
             order == CHOOSE f \in Bijection(1..k, S) : TRUE
         IN  /\ k \in Nat
             /\ order \in [1..k -> S]
             /\ \A i, j \in 1..k : order[i] = order[j] => i = j
             /\ \A c \in S : \E i \in 1..k : order[i] = c
<1> DEFINE k == Cardinality(S)
           order == CHOOSE f \in Bijection(1..k, S) : TRUE
<1>1. k \in Nat /\ \E f \in Bijection(1..k, S) : TRUE
  BY FS_CardinalityType DEF ExistsBijection
<1>2. order \in Bijection(1..k, S)
  BY <1>1
<1>3. QED BY <1>1, <1>2 DEF Bijection, Injection, Surjection, IsInjective

\* A registration.
LEMMA Registers ==
  ASSUME NEW st \in ClientStates, NEW S \in SUBSET Channels
  PROVE  RegisteredAs(st, S, Register(st, S))
<1> DEFINE k == Cardinality(S)
           order == CHOOSE f \in Bijection(1..k, S) : TRUE
           new == (st.attempts + 1)..(st.attempts + k)
           number == [c \in S |-> st.attempts + CHOOSE i \in 1..k : order[i] = c]
           r == Register(st, S)
<1>1. IsFiniteSet(S)
  BY DeltaAssumption, FS_Subset DEF DeltaAssumption
<1>2. /\ k \in Nat
      /\ order \in [1..k -> S]
      /\ \A i, j \in 1..k : order[i] = order[j] => i = j
      /\ \A c \in S : \E i \in 1..k : order[i] = c
  BY <1>1, SomeOrder
<1>3. st.attempts \in Nat
  BY DEF ClientStates
<1>4. r = [st EXCEPT
        !.attempts = @ + k,
        !.req = [n \in Attempts |-> IF n \in new THEN "asked" ELSE @[n]],
        !.of = [n \in Attempts |->
                  IF n \in new THEN order[n - st.attempts] ELSE @[n]],
        !.ch = [c \in Channels |->
                  IF c \in S THEN [@[c] EXCEPT !.reg = number[c],
                                               !.retry = FALSE]
                  ELSE @[c]]]
  BY DEF Register
<1> HIDE DEF order, r, k
<1>5. \A c \in S : number[c] \in new /\ order[number[c] - st.attempts] = c
  BY <1>2, <1>3
<1>6. \A n \in new : order[n - st.attempts] \in S
  BY <1>2, <1>3
<1> HIDE DEF number
<1> DEFINE req2 == [n \in Attempts |-> IF n \in new THEN "asked" ELSE st.req[n]]
           of2 == [n \in Attempts |->
                     IF n \in new THEN order[n - st.attempts] ELSE st.of[n]]
           ch2 == [c \in Channels |->
                     IF c \in S THEN [st.ch[c] EXCEPT !.reg = number[c],
                                                      !.retry = FALSE]
                     ELSE st.ch[c]]
<1>7. r = [st EXCEPT !.attempts = st.attempts + k, !.req = req2, !.of = of2,
                     !.ch = ch2]
  BY <1>4
<1>8. /\ st.req \in [Attempts -> Statuses]
      /\ st.of \in [Attempts -> Channels]
      /\ st.ch \in [Channels -> ChannelStates]
  BY DEF ClientStates
<1>9. req2 \in [Attempts -> Statuses]
  BY <1>8 DEF Statuses
<1>10. of2 \in [Attempts -> Channels]
  BY <1>6, <1>8
<1>11. ASSUME NEW c \in S
       PROVE  ch2[c] \in ChannelStates
  <2>1. number[c] \in Nat /\ st.ch[c] \in ChannelStates
    BY <1>2, <1>3, <1>5, <1>8
  <2>2. [st.ch[c] EXCEPT !.reg = number[c], !.retry = FALSE] \in ChannelStates
    BY <2>1 DEF ChannelStates
  <2>3. QED BY <2>2
<1>12. ch2 \in [Channels -> ChannelStates]
  BY <1>8, <1>11
<1>13. ASSUME NEW c \in S
       PROVE  /\ ch2[c].reg = number[c] /\ ~ch2[c].retry
              /\ SameReplica(ch2[c], st.ch[c])
  <2>1. c \in Channels /\ st.ch[c] \in ChannelStates
    BY <1>8
  <2>2. ch2[c] = [st.ch[c] EXCEPT !.reg = number[c], !.retry = FALSE]
    BY <2>1
  <2> HIDE DEF ch2
  <2>3. QED BY <2>1, <2>2 DEF ChannelStates, SameReplica
<1>14. \A c \in Channels \ S : ch2[c] = st.ch[c]
  OBVIOUS
<1>15. \A n \in Attempts : /\ req2[n] = IF n \in new THEN "asked" ELSE st.req[n]
                          /\ of2[n] = IF n \in new THEN order[n - st.attempts] ELSE st.of[n]
  OBVIOUS
<1> HIDE DEF req2, of2, ch2
<1>16. r \in ClientStates
  <2>1. st.attempts + k \in Nat
    BY <1>2, <1>3
  <2>2. QED BY <2>1, <1>7, <1>9, <1>10, <1>12 DEF ClientStates
<1>17. /\ r.attempts = st.attempts + k /\ r.req = req2 /\ r.of = of2 /\ r.ch = ch2
       /\ r.buffer = st.buffer /\ r.shown = st.shown /\ r.page = st.page
       /\ r.released = st.released
  BY <1>7 DEF ClientStates
<1>18. NewAttempts(st, r) = new
  BY <1>17 DEF NewAttempts
<1>19. st.attempts <= r.attempts
  BY <1>2, <1>3, <1>17
<1>20. ASSUME NEW c \in S
       PROVE  /\ r.ch[c].reg \in NewAttempts(st, r)
              /\ r.ch[c].reg \in Attempts => r.of[r.ch[c].reg] = c
  BY <1>5, <1>13, <1>15, <1>17, <1>18
<1>21. QED BY <1>13, <1>14, <1>15, <1>16, <1>17, <1>18, <1>19, <1>20
           DEF RegisteredAs, r

\* A set of natural numbers that is not empty has a least one.
LEMMA LeastNumber ==
  ASSUME NEW T \in SUBSET Nat, T # {}
  PROVE  \E i \in T : \A j \in T : i <= j
<1>1. PICK i \in T : \A j \in T : ~(<<j, i>> \in OpToRel(<, Nat))
  BY WFMin, NatLessThanWellFounded
<1>2. \A j \in T : ~(j < i)
  BY <1>1 DEF OpToRel
<1>3. QED BY <1>2

\* What holds at 0 and of every number after one of which it holds, holds up to
\* m: the numbers it holds of are a set.
LEMMA UpTo ==
  ASSUME NEW m \in Nat, NEW T, 0 \in T,
         \A k \in 1..m : k - 1 \in T => k \in T
  PROVE  0..m \subseteq T
<1> SUFFICES ASSUME {k \in 0..m : k \notin T} # {}
             PROVE  FALSE
  OBVIOUS
<1> DEFINE U == {k \in 0..m : k \notin T}
<1>1. U \in SUBSET Nat /\ U # {}
  OBVIOUS
<1>2. PICK i \in U : \A j \in U : i <= j
  <2> HIDE DEF U
  <2>1. QED BY <1>1, LeastNumber
<1>3. i # 0
  BY <1>2
<1>4. i \in 1..m /\ i - 1 \in 0..m /\ ~(i <= i - 1)
  BY <1>2, <1>3
<1>5. QED BY <1>2, <1>4

\* The steps of a replay, as a function.
Replays(st, pushes, m, f) ==
  f = [k \in 0..m |-> IF k = 0 THEN st ELSE ProcessPush(f[k - 1], pushes[k])]

\* A replay has steps, whatever its length.
LEMMA ReplayExists ==
  ASSUME NEW st, NEW pushes, NEW m \in Nat
  PROVE  \E f : Replays(st, pushes, m, f)
<1> DEFINE T == {k \in Nat : \E f : Replays(st, pushes, k, f)}
<1>1. 0 \in T
  <2>1. Replays(st, pushes, 0, [k \in 0..0 |-> st])
    BY DEF Replays
  <2>2. QED BY <2>1
<1>2. ASSUME NEW k \in 1..m, k - 1 \in T
      PROVE  k \in T
  <2>1. PICK f : Replays(st, pushes, k - 1, f)
    BY <1>2
  <2> DEFINE g == [j \in 0..k |-> IF j = k THEN ProcessPush(f[k - 1], pushes[k])
                                  ELSE f[j]]
  <2>2. \A j \in 0..k : g[j] = IF j = 0 THEN st ELSE ProcessPush(g[j - 1], pushes[j])
    <3> SUFFICES ASSUME NEW j \in 0..k
                 PROVE  g[j] = IF j = 0 THEN st ELSE ProcessPush(g[j - 1], pushes[j])
      OBVIOUS
    <3>1. CASE j = k
      BY <3>1
    <3>2. CASE j # k
      <4>1. j \in 0..(k - 1) /\ g[j] = f[j] /\ (j # 0 => g[j - 1] = f[j - 1])
        BY <3>2
      <4>2. f[j] = IF j = 0 THEN st ELSE ProcessPush(f[j - 1], pushes[j])
        BY <2>1, <4>1 DEF Replays
      <4>3. QED BY <4>1, <4>2
    <3>3. QED BY <3>1, <3>2
  <2>3. Replays(st, pushes, k, g)
    <3> DEFINE h == [j \in 0..k |-> IF j = 0 THEN st ELSE ProcessPush(g[j - 1], pushes[j])]
    <3>1. \A j \in 0..k : g[j] = h[j]
      BY <2>2
    <3>2. g = h
      BY <3>1
    <3>3. QED BY <3>2 DEF Replays
  <2>4. QED BY <2>3
<1> HIDE DEF T
<1>3. m \in T
  BY <1>1, <1>2, UpTo
<1>4. QED BY <1>3 DEF T

\* What the first state of a replay has and every push keeps, the last one has:
\* S[k] is the set of states that may follow k pushes.
LEMMA ReplayKeeps ==
  ASSUME NEW st, NEW pushes, Len(pushes) \in Nat, NEW S, st \in S[0],
         \A k \in 1..Len(pushes) : \A s \in S[k - 1] :
           ProcessPush(s, pushes[k]) \in S[k]
  PROVE  Replayed(st, pushes) \in S[Len(pushes)]
<1> DEFINE m == Len(pushes)
           after == CHOOSE f : Replays(st, pushes, m, f)
           T == {k \in 0..m : after[k] \in S[k]}
<1>1. Replays(st, pushes, m, after)
  BY ReplayExists
<1>2. Replayed(st, pushes) = after[m]
  BY DEF Replayed, Replays
<1> HIDE DEF after
<1>3. \A k \in 0..m : after[k] = IF k = 0 THEN st ELSE ProcessPush(after[k - 1], pushes[k])
  BY <1>1 DEF Replays
<1>4. 0 \in T
  BY <1>3
<1>5. ASSUME NEW k \in 1..m, k - 1 \in T
      PROVE  k \in T
  BY <1>3, <1>5
<1>6. m \in Nat
  OBVIOUS
<1> HIDE DEF T, m
<1>7. 0..m \subseteq T
  BY <1>4, <1>5, <1>6, UpTo
<1>8. m \in T
  BY <1>6, <1>7
<1>9. QED BY <1>2, <1>8 DEF T, m

\* What choosing the pushes of some subscriptions gives.
ChosenFrom(S, pushes, N, t) ==
  /\ t \in Seq(S)
  /\ Len(t) <= Len(pushes)
  /\ Range(t) = {p \in Range(pushes) : p.sub \in N}
  /\ \A j, k \in DOMAIN t : j < k =>
       \E x, y \in DOMAIN pushes : x < y /\ t[j] = pushes[x] /\ t[k] = pushes[y]

\* The steps of choosing, as a function.
Chooses(pushes, N, m, f) ==
  f = [k \in 0..m |-> IF k = 0 THEN <<>>
                      ELSE IF pushes[k].sub \in N
                      THEN Append(f[k - 1], pushes[k])
                      ELSE f[k - 1]]

\* There are such steps, whatever the length.
LEMMA ChoiceExists ==
  ASSUME NEW pushes, NEW N, NEW m \in Nat
  PROVE  \E f : Chooses(pushes, N, m, f)
<1> DEFINE T == {k \in Nat : \E f : Chooses(pushes, N, k, f)}
           Next1(k, t) == IF pushes[k].sub \in N THEN Append(t, pushes[k]) ELSE t
<1>1. 0 \in T
  <2>1. Chooses(pushes, N, 0, [k \in 0..0 |-> <<>>])
    BY DEF Chooses
  <2>2. QED BY <2>1
<1>2. ASSUME NEW k \in 1..m, k - 1 \in T
      PROVE  k \in T
  <2>1. PICK f : Chooses(pushes, N, k - 1, f)
    BY <1>2
  <2>2. f = [j \in 0..(k - 1) |-> IF j = 0 THEN <<>> ELSE Next1(j, f[j - 1])]
    BY <2>1 DEF Chooses
  <2> DEFINE g == [j \in 0..k |-> IF j = k THEN Next1(k, f[k - 1]) ELSE f[j]]
             h == [j \in 0..k |-> IF j = 0 THEN <<>> ELSE Next1(j, g[j - 1])]
  <2> HIDE DEF Next1
  <2>3. ASSUME NEW j \in 0..k
        PROVE  g[j] = h[j]
    <3>1. CASE j = k
      BY <3>1
    <3>2. CASE j # k
      <4>1. j \in 0..(k - 1) /\ g[j] = f[j] /\ (j # 0 => g[j - 1] = f[j - 1])
        BY <3>2
      <4>2. QED BY <2>2, <4>1
    <3>3. QED BY <3>1, <3>2
  <2>4. g = h
    BY <2>3
  <2>5. Chooses(pushes, N, k, g)
    BY <2>4 DEF Chooses, Next1
  <2>6. QED BY <2>5
<1> HIDE DEF T
<1>3. m \in 0..m /\ 0..m \subseteq T
  BY <1>1, <1>2, UpTo
<1>4. QED BY <1>3 DEF T

\* What has been chosen of the first k pushes.
ChosenUpTo(S, pushes, N, k, t) ==
  /\ t \in Seq(S)
  /\ Len(t) <= k
  /\ \A j \in DOMAIN t : \E x \in 1..k : t[j] = pushes[x] /\ pushes[x].sub \in N
  /\ \A x \in 1..k : pushes[x].sub \in N => \E j \in DOMAIN t : t[j] = pushes[x]
  /\ \A i, j \in DOMAIN t : i < j =>
       \E x, y \in 1..k : x < y /\ t[i] = pushes[x] /\ t[j] = pushes[y]

\* The pushes of some subscriptions, in their order.
LEMMA ChosenPushes ==
  ASSUME NEW S, NEW pushes \in Seq(S), NEW N
  PROVE  ChosenFrom(S, pushes, N, PushesOf(pushes, N))
<1> DEFINE m == Len(pushes)
           chosen == CHOOSE f : Chooses(pushes, N, m, f)
           T == {k \in 0..m : ChosenUpTo(S, pushes, N, k, chosen[k])}
<1>1. m \in Nat /\ DOMAIN pushes = 1..m /\ \A x \in 1..m : pushes[x] \in S
  BY LenProperties, ElementOfSeq
<1>2. Chooses(pushes, N, m, chosen)
  BY <1>1, ChoiceExists
<1>3. PushesOf(pushes, N) = chosen[m]
  BY DEF PushesOf, Chooses
<1> HIDE DEF chosen, m
<1>4. \A k \in 0..m : chosen[k] = IF k = 0 THEN <<>>
                      ELSE IF pushes[k].sub \in N
                      THEN Append(chosen[k - 1], pushes[k])
                      ELSE chosen[k - 1]
  BY <1>2 DEF Chooses
<1>5. 0 \in T
  <2>1. chosen[0] = <<>>
    BY <1>1, <1>4
  <2>2. ChosenUpTo(S, pushes, N, 0, <<>>)
    <3>1. <<>> \in Seq(S) /\ Len(<<>>) = 0 /\ DOMAIN <<>> = {}
      BY EmptySeq, LenProperties
    <3>2. QED BY <3>1 DEF ChosenUpTo
  <2>3. QED BY <1>1, <2>1, <2>2
<1>6. ASSUME NEW k \in 1..m, k - 1 \in T
      PROVE  k \in T
  <2> DEFINE t == chosen[k - 1]
             u == chosen[k]
  <2>1. ChosenUpTo(S, pushes, N, k - 1, t) /\ k \in 0..m /\ pushes[k] \in S
    BY <1>1, <1>6
  <2>2. u = IF pushes[k].sub \in N THEN Append(t, pushes[k]) ELSE t
    BY <1>1, <1>4
  <2> HIDE DEF t, u
  <2>3. CASE pushes[k].sub \notin N
    <3>1. u = t
      BY <2>2, <2>3
    <3>2. 1..k = (1..(k - 1)) \cup {k} /\ Len(t) \in Nat
      BY <1>1, <2>1, LenProperties DEF ChosenUpTo
    <3>3. Len(t) <= k
      BY <1>1, <2>1, <3>2 DEF ChosenUpTo
    <3>4. \A i, j \in DOMAIN t : i < j =>
            \E x, y \in 1..k : x < y /\ t[i] = pushes[x] /\ t[j] = pushes[y]
      BY <2>1, <3>2 DEF ChosenUpTo
    <3>5. \A j \in DOMAIN t : \E x \in 1..k : t[j] = pushes[x] /\ pushes[x].sub \in N
      BY <2>1, <3>2 DEF ChosenUpTo
    <3>6. \A x \in 1..k : pushes[x].sub \in N => \E j \in DOMAIN t : t[j] = pushes[x]
      BY <2>1, <2>3, <3>2 DEF ChosenUpTo
    <3>7. ChosenUpTo(S, pushes, N, k, t)
      BY <2>1, <3>3, <3>4, <3>5, <3>6 DEF ChosenUpTo
    <3>8. QED BY <2>1, <3>1, <3>7 DEF u
  <2>4. CASE pushes[k].sub \in N
    <3>1. u = Append(t, pushes[k])
      BY <2>2, <2>4
    <3>2. /\ u \in Seq(S) /\ Len(t) \in Nat /\ Len(u) = Len(t) + 1
          /\ DOMAIN t = 1..Len(t) /\ DOMAIN u = 1..(Len(t) + 1)
          /\ \A j \in 1..Len(t) : u[j] = t[j]
          /\ u[Len(t) + 1] = pushes[k]
      BY <2>1, <3>1, AppendProperties, LenProperties DEF ChosenUpTo
    <3>3. Len(u) <= k
      BY <1>1, <2>1, <3>2 DEF ChosenUpTo
    <3>4. \A j \in DOMAIN u : \E x \in 1..k : u[j] = pushes[x] /\ pushes[x].sub \in N
      <4>1. ASSUME NEW j \in DOMAIN u
            PROVE  \E x \in 1..k : u[j] = pushes[x] /\ pushes[x].sub \in N
        <5>1. CASE j = Len(t) + 1
          BY <1>1, <2>4, <3>2, <5>1
        <5>2. CASE j \in DOMAIN t
          <6>1. PICK x \in 1..(k - 1) : t[j] = pushes[x] /\ pushes[x].sub \in N
            BY <2>1, <5>2 DEF ChosenUpTo
          <6>2. x \in 1..k /\ u[j] = t[j]
            BY <1>1, <3>2, <5>2
          <6>3. QED BY <6>1, <6>2
        <5>3. QED BY <3>2, <4>1, <5>1, <5>2
      <4>2. QED BY <4>1
    <3>5. \A x \in 1..k : pushes[x].sub \in N => \E j \in DOMAIN u : u[j] = pushes[x]
      <4>1. ASSUME NEW x \in 1..k, pushes[x].sub \in N
            PROVE  \E j \in DOMAIN u : u[j] = pushes[x]
        <5>1. CASE x = k
          BY <3>2, <5>1
        <5>2. CASE x \in 1..(k - 1)
          <6>1. PICK j \in DOMAIN t : t[j] = pushes[x]
            BY <2>1, <4>1, <5>2 DEF ChosenUpTo
          <6>2. QED BY <3>2, <6>1
        <5>3. QED BY <1>1, <5>1, <5>2
      <4>2. QED BY <4>1
    <3>6. \A i, j \in DOMAIN u : i < j =>
            \E x, y \in 1..k : x < y /\ u[i] = pushes[x] /\ u[j] = pushes[y]
      <4>1. ASSUME NEW i \in DOMAIN u, NEW j \in DOMAIN u, i < j
            PROVE  \E x, y \in 1..k : x < y /\ u[i] = pushes[x] /\ u[j] = pushes[y]
        <5>1. i \in DOMAIN t /\ u[i] = t[i]
          BY <3>2, <4>1
        <5>2. CASE j = Len(t) + 1
          <6>1. PICK x \in 1..(k - 1) : t[i] = pushes[x]
            BY <2>1, <5>1 DEF ChosenUpTo
          <6>2. x \in 1..k /\ k \in 1..k /\ x < k
            BY <1>1
          <6>3. QED BY <3>2, <5>1, <5>2, <6>1, <6>2
        <5>3. CASE j \in DOMAIN t
          <6>1. PICK x \in 1..(k - 1), y \in 1..(k - 1) :
                  x < y /\ t[i] = pushes[x] /\ t[j] = pushes[y]
            BY <2>1, <4>1, <5>1, <5>3 DEF ChosenUpTo
          <6>2. x \in 1..k /\ y \in 1..k /\ u[j] = t[j]
            BY <1>1, <3>2, <5>3
          <6>3. QED BY <5>1, <6>1, <6>2
        <5>4. QED BY <3>2, <5>2, <5>3
      <4>2. QED BY <4>1
    <3>7. ChosenUpTo(S, pushes, N, k, u)
      BY <3>2, <3>3, <3>4, <3>5, <3>6 DEF ChosenUpTo
    <3>8. QED BY <2>1, <3>7 DEF u
  <2>5. QED BY <2>3, <2>4
<1>7. ChosenUpTo(S, pushes, N, m, chosen[m])
  <2> HIDE DEF T
  <2>1. 0..m \subseteq T
    BY <1>1, <1>5, <1>6, UpTo
  <2>2. m \in T
    BY <1>1, <2>1
  <2>3. QED BY <2>2 DEF T
<1> DEFINE t == PushesOf(pushes, N)
<1>8. ChosenUpTo(S, pushes, N, m, t)
  BY <1>3, <1>7
<1> HIDE DEF t
<1>9. Range(t) = {p \in Range(pushes) : p.sub \in N}
  <2>1. ASSUME NEW p \in Range(t)
        PROVE  p \in Range(pushes) /\ p.sub \in N
    <3>1. PICK j \in DOMAIN t : p = t[j]
      BY DEF Range
    <3>2. QED BY <1>1, <1>8, <3>1 DEF ChosenUpTo, Range
  <2>2. ASSUME NEW p \in Range(pushes), p.sub \in N
        PROVE  p \in Range(t)
    <3>1. PICK x \in 1..m : p = pushes[x]
      BY <1>1 DEF Range
    <3>2. QED BY <1>8, <2>2, <3>1 DEF ChosenUpTo, Range
  <2>3. QED BY <2>1, <2>2
<1>10. \A j, k \in DOMAIN t : j < k =>
         \E x, y \in DOMAIN pushes :
           x < y /\ t[j] = pushes[x] /\ t[k] = pushes[y]
  BY <1>1, <1>8 DEF ChosenUpTo
<1>11. QED BY <1>8, <1>9, <1>10 DEF ChosenUpTo, ChosenFrom, t, m

\* The handler is given the merged rows.
LEMMA Emits ==
  ASSUME NEW st \in ClientStates
  PROVE  LET r == Emit(st) IN
         /\ r \in ClientStates
         /\ r.shown = [c \in Channels |-> st.ch[c].rows]
         /\ r.ch = st.ch /\ r.buffer = st.buffer /\ r.attempts = st.attempts
         /\ r.req = st.req /\ r.of = st.of /\ r.page = st.page
         /\ r.released = st.released
<1> DEFINE merged == [c \in Channels |-> st.ch[c].rows]
<1>1. ASSUME NEW c \in Channels
      PROVE  st.ch[c].rows \in [Rows -> Values]
  <2>1. st.ch[c] \in ChannelStates
    BY DEF ClientStates
  <2>2. QED BY <2>1 DEF ChannelStates
<1>2. merged \in [Channels -> [Rows -> Values]]
  BY <1>1
<1>3. Emit(st) = [st EXCEPT !.shown = merged]
  BY DEF Emit
<1> HIDE DEF merged
<1>4. QED BY <1>2, <1>3 DEF ClientStates, merged

\* r is st without the attempts of the channels S, whose subscriptions are
\* released: what Unregister does.
UnregisteredAs(st, S, r) ==
  /\ r \in ClientStates
  /\ \A c \in S :
       /\ r.ch[c].reg = 0 /\ r.ch[c].sid = 0 /\ ~r.ch[c].retry
       /\ r.ch[c].awaiting = st.ch[c].awaiting
       /\ r.ch[c].next = st.ch[c].next /\ r.ch[c].rows = st.ch[c].rows
       /\ r.ch[c].gone = st.ch[c].gone
  /\ \A c \in Channels \ S : r.ch[c] = st.ch[c]
  /\ \A n \in Attempts :
       n \in r.released <=> n \in st.released \/ \E c \in S : n = st.ch[c].sid
  /\ r.buffer = st.buffer /\ r.shown = st.shown /\ r.attempts = st.attempts
  /\ r.req = st.req /\ r.of = st.of /\ r.page = st.page

\* A registration is given up, and its subscription released.
LEMMA Unregisters ==
  ASSUME NEW st \in ClientStates, NEW S \in SUBSET Channels
  PROVE  UnregisteredAs(st, S, Unregister(st, S))
<1> DEFINE ch2 == [c \in Channels |->
                     IF c \in S THEN [st.ch[c] EXCEPT !.reg = 0, !.retry = FALSE,
                                                      !.sid = 0]
                     ELSE st.ch[c]]
           released2 == st.released \cup ({st.ch[c].sid : c \in S} \ {0})
           r == Unregister(st, S)
<1>1. r = [st EXCEPT !.ch = ch2, !.released = released2]
  BY DEF Unregister
<1>2. st.ch \in [Channels -> ChannelStates] /\ st.released \in SUBSET Attempts
  BY DEF ClientStates
<1>3. ASSUME NEW c \in S
      PROVE  /\ ch2[c] \in ChannelStates
             /\ st.ch[c].sid \in 0..MaxAttempts
             /\ ch2[c].reg = 0 /\ ch2[c].sid = 0 /\ ~ch2[c].retry
             /\ ch2[c].awaiting = st.ch[c].awaiting
             /\ ch2[c].next = st.ch[c].next /\ ch2[c].rows = st.ch[c].rows
             /\ ch2[c].gone = st.ch[c].gone
  <2>1. c \in Channels /\ st.ch[c] \in ChannelStates
    BY <1>2
  <2>2. ch2[c] = [st.ch[c] EXCEPT !.reg = 0, !.retry = FALSE, !.sid = 0]
    BY <2>1
  <2> HIDE DEF ch2
  <2>3. 0 \in 0..MaxAttempts
    BY DeltaAssumption DEF DeltaAssumption
  <2>4. [st.ch[c] EXCEPT !.reg = 0, !.retry = FALSE, !.sid = 0] \in ChannelStates
    BY <2>1, <2>3 DEF ChannelStates
  <2>5. ch2[c] \in ChannelStates
    BY <2>2, <2>4
  <2>6. ch2[c].retry = FALSE
    BY <2>1, <2>2 DEF ChannelStates
  <2>7. /\ st.ch[c].sid \in 0..MaxAttempts
        /\ ch2[c].reg = 0 /\ ch2[c].sid = 0
        /\ ch2[c].awaiting = st.ch[c].awaiting
        /\ ch2[c].next = st.ch[c].next /\ ch2[c].rows = st.ch[c].rows
        /\ ch2[c].gone = st.ch[c].gone
    BY <2>1, <2>2 DEF ChannelStates
  <2>8. QED BY <2>5, <2>6, <2>7
<1>4. \A c \in Channels \ S : ch2[c] = st.ch[c]
  OBVIOUS
<1>5. ch2 \in [Channels -> ChannelStates]
  BY <1>2, <1>3, <1>4
<1> HIDE DEF ch2, r
<1>6. released2 \in SUBSET Attempts
  BY <1>2, <1>3 DEF Attempts
<1>7. \A n \in Attempts :
        n \in released2 <=> n \in st.released \/ \E c \in S : n = st.ch[c].sid
  BY DEF Attempts
<1> HIDE DEF released2
<1>8. r \in ClientStates
  BY <1>1, <1>5, <1>6 DEF ClientStates
<1>9. /\ r.ch = ch2 /\ r.released = released2
      /\ r.buffer = st.buffer /\ r.shown = st.shown /\ r.attempts = st.attempts
      /\ r.req = st.req /\ r.of = st.of /\ r.page = st.page
  BY <1>1 DEF ClientStates
<1>10. QED BY <1>3, <1>4, <1>7, <1>8, <1>9 DEF UnregisteredAs, r

\* r is st with no rows and no page for the channels S: what Reset does.
ResetAs(st, S, r) ==
  /\ r \in ClientStates
  /\ \A c \in S :
       /\ r.ch[c].next = 0 /\ r.ch[c].rows = NoRows /\ r.ch[c].gone = {}
       /\ r.ch[c].reg = st.ch[c].reg /\ r.ch[c].sid = st.ch[c].sid
       /\ r.ch[c].retry = st.ch[c].retry
       /\ r.ch[c].awaiting = st.ch[c].awaiting
  /\ \A c \in Channels \ S : r.ch[c] = st.ch[c]
  /\ \A n \in Attempts :
       r.page[n] = IF \E c \in S : n = st.ch[c].sid THEN "none" ELSE st.page[n]
  /\ r.buffer = st.buffer /\ r.shown = st.shown /\ r.attempts = st.attempts
  /\ r.req = st.req /\ r.of = st.of /\ r.released = st.released

\* The reconcilers start over.
LEMMA Resets ==
  ASSUME NEW st \in ClientStates, NEW S \in SUBSET Channels
  PROVE  ResetAs(st, S, Reset(st, S))
<1> DEFINE ch2 == [c \in Channels |->
                     IF c \in S THEN [st.ch[c] EXCEPT !.next = 0, !.rows = NoRows,
                                                      !.gone = {}]
                     ELSE st.ch[c]]
           page2 == [n \in Attempts |->
                       IF \E c \in S : n = st.ch[c].sid THEN "none" ELSE st.page[n]]
           r == Reset(st, S)
<1>1. r = [st EXCEPT !.ch = ch2, !.page = page2]
  BY DEF Reset
<1>2. st.ch \in [Channels -> ChannelStates] /\ st.page \in [Attempts -> Pages]
  BY DEF ClientStates
<1>3. NoRows \in [Rows -> Values] /\ 0 \in 0..(MaxChanges + 1)
  BY DeltaAssumption DEF DeltaAssumption, NoRows, Values
<1>4. ASSUME NEW c \in S
      PROVE  /\ ch2[c] \in ChannelStates
             /\ ch2[c].next = 0 /\ ch2[c].rows = NoRows /\ ch2[c].gone = {}
             /\ ch2[c].reg = st.ch[c].reg /\ ch2[c].sid = st.ch[c].sid
             /\ ch2[c].retry = st.ch[c].retry
             /\ ch2[c].awaiting = st.ch[c].awaiting
  <2>1. c \in Channels /\ st.ch[c] \in ChannelStates
    BY <1>2
  <2>2. ch2[c] = [st.ch[c] EXCEPT !.next = 0, !.rows = NoRows, !.gone = {}]
    BY <2>1
  <2> HIDE DEF ch2
  <2>3. QED BY <1>3, <2>1, <2>2 DEF ChannelStates
<1>5. \A c \in Channels \ S : ch2[c] = st.ch[c]
  OBVIOUS
<1>6. ch2 \in [Channels -> ChannelStates]
  BY <1>2, <1>4, <1>5
<1>7. page2 \in [Attempts -> Pages]
  BY <1>2 DEF Pages
<1>8. \A n \in Attempts :
        page2[n] = IF \E c \in S : n = st.ch[c].sid THEN "none" ELSE st.page[n]
  OBVIOUS
<1> HIDE DEF ch2, page2, r
<1>9. r \in ClientStates
  BY <1>1, <1>6, <1>7 DEF ClientStates
<1>10. /\ r.ch = ch2 /\ r.page = page2
      /\ r.buffer = st.buffer /\ r.shown = st.shown /\ r.attempts = st.attempts
      /\ r.req = st.req /\ r.of = st.of /\ r.released = st.released
  BY <1>1 DEF ClientStates
<1>11. QED BY <1>4, <1>5, <1>8, <1>9, <1>10 DEF ResetAs, r

\* r is st with channel c released, reset and registered again: what Resnapshot
\* does.
ResnapshottedAs(st, c, r) ==
  /\ r \in ClientStates
  /\ st.attempts <= r.attempts
  /\ r.ch[c].reg \in NewAttempts(st, r)
  /\ r.ch[c].reg \in Attempts => r.of[r.ch[c].reg] = c
  /\ r.ch[c].sid = 0 /\ ~r.ch[c].retry
  /\ r.ch[c].next = 0 /\ r.ch[c].rows = NoRows /\ r.ch[c].gone = {}
  /\ \A d \in Channels \ {c} : r.ch[d] = st.ch[d]
  /\ \A n \in Attempts :
       IF n \in NewAttempts(st, r)
       THEN r.req[n] = "asked"
       ELSE r.req[n] = st.req[n] /\ r.of[n] = st.of[n]
  /\ \A n \in Attempts :
       r.page[n] = IF n = st.ch[c].sid THEN "none" ELSE st.page[n]
  /\ \A n \in Attempts : n \in r.released <=> n \in st.released \/ n = st.ch[c].sid
  /\ r.buffer = st.buffer
  /\ ~Dynamic => r.ch[c].awaiting = st.ch[c].awaiting /\ r.shown = st.shown
  /\ Dynamic => r.shown = [d \in Channels |-> r.ch[d].rows]

\* A fresh registration for a fresh snapshot, or nothing: the channel waits for
\* one already.
LEMMA Resnapshots ==
  ASSUME NEW st \in ClientStates, NEW c \in Channels
  PROVE  IF Dynamic /\ st.ch[c].awaiting THEN Resnapshot(st, c) = st
         ELSE ResnapshottedAs(st, c, Resnapshot(st, c))
<1> DEFINE a == Reset(st, {c})
           b == Unregister(a, {c})
           again == Register(b, {c})
           marked == [again EXCEPT !.ch[c].awaiting = TRUE]
<1>1. ResetAs(st, {c}, a)
  BY Resets
<1>2. a \in ClientStates
  BY <1>1 DEF ResetAs
<1> HIDE DEF a
<1>3. UnregisteredAs(a, {c}, b)
  BY <1>2, Unregisters
<1>4. b \in ClientStates
  BY <1>3 DEF UnregisteredAs
<1> HIDE DEF b
<1>5. RegisteredAs(b, {c}, again)
  BY <1>4, Registers
<1>6. again \in ClientStates
  BY <1>5 DEF RegisteredAs
<1>7. Resnapshot(st, c) = IF ~Dynamic THEN again
                          ELSE IF st.ch[c].awaiting THEN st
                          ELSE Emit(marked)
  BY DEF Resnapshot, a, b
<1> HIDE DEF again
<1>8. /\ b.attempts = st.attempts /\ b.req = st.req /\ b.of = st.of
      /\ b.page = a.page /\ b.buffer = st.buffer /\ b.shown = st.shown
  BY <1>1, <1>3 DEF ResetAs, UnregisteredAs
<1>9. NewAttempts(st, again) = NewAttempts(b, again)
  BY <1>8 DEF NewAttempts
<1>10. /\ again.ch[c].reg \in NewAttempts(st, again)
       /\ again.ch[c].reg \in Attempts => again.of[again.ch[c].reg] = c
       /\ again.ch[c].sid = 0 /\ ~again.ch[c].retry
       /\ again.ch[c].next = 0 /\ again.ch[c].rows = NoRows
       /\ again.ch[c].gone = {}
       /\ again.ch[c].awaiting = st.ch[c].awaiting
  BY <1>1, <1>3, <1>5, <1>9
     DEF ResetAs, UnregisteredAs, RegisteredAs, SameReplica
<1>11. \A d \in Channels \ {c} : again.ch[d] = st.ch[d]
  BY <1>1, <1>3, <1>5 DEF ResetAs, UnregisteredAs, RegisteredAs
<1>12. \A n \in Attempts :
         IF n \in NewAttempts(st, again)
         THEN again.req[n] = "asked"
         ELSE again.req[n] = st.req[n] /\ again.of[n] = st.of[n]
  BY <1>5, <1>8, <1>9 DEF RegisteredAs
<1>13. \A n \in Attempts :
         again.page[n] = IF n = st.ch[c].sid THEN "none" ELSE st.page[n]
  BY <1>1, <1>5, <1>8 DEF ResetAs, RegisteredAs
<1>14. \A n \in Attempts :
         n \in again.released <=> n \in st.released \/ n = st.ch[c].sid
  BY <1>1, <1>3, <1>5 DEF ResetAs, UnregisteredAs, RegisteredAs
<1>15. /\ again.buffer = st.buffer /\ again.shown = st.shown
       /\ st.attempts <= again.attempts
  BY <1>5, <1>8 DEF RegisteredAs
<1>16. CASE ~Dynamic
  BY <1>6, <1>7, <1>10, <1>11, <1>12, <1>13, <1>14, <1>15, <1>16
     DEF ResnapshottedAs
<1>17. CASE Dynamic /\ st.ch[c].awaiting
  BY <1>7, <1>17
<1>18. CASE Dynamic /\ ~st.ch[c].awaiting
  <2> DEFINE x == [again.ch[c] EXCEPT !.awaiting = TRUE]
             ch2 == [again.ch EXCEPT ![c] = x]
             r == Emit(marked)
  <2>1. again.ch \in [Channels -> ChannelStates] /\ again.ch[c] \in ChannelStates
    BY <1>6 DEF ClientStates
  <2>2. /\ x \in ChannelStates /\ x.reg = again.ch[c].reg
        /\ x.sid = again.ch[c].sid /\ x.retry = again.ch[c].retry
        /\ x.next = again.ch[c].next /\ x.rows = again.ch[c].rows
        /\ x.gone = again.ch[c].gone
    BY <2>1 DEF ChannelStates
  <2> HIDE DEF x
  <2>3. ch2 \in [Channels -> ChannelStates] /\ ch2[c] = x
        /\ \A d \in Channels \ {c} : ch2[d] = again.ch[d]
    BY <2>1, <2>2
  <2>4. marked = [again EXCEPT !.ch = ch2]
    BY <1>6 DEF x, ClientStates
  <2> HIDE DEF ch2, marked
  <2>5. marked \in ClientStates
    BY <1>6, <2>3, <2>4 DEF ClientStates
  <2>6. /\ marked.ch = ch2 /\ marked.buffer = again.buffer
        /\ marked.attempts = again.attempts
        /\ marked.req = again.req /\ marked.of = again.of
        /\ marked.page = again.page /\ marked.released = again.released
    BY <1>6, <2>4 DEF ClientStates
  <2>7. /\ r \in ClientStates
        /\ r.shown = [d \in Channels |-> r.ch[d].rows]
        /\ r.ch = ch2 /\ r.buffer = again.buffer
        /\ r.attempts = again.attempts
        /\ r.req = again.req /\ r.of = again.of
        /\ r.page = again.page /\ r.released = again.released
    BY <2>5, <2>6, Emits
  <2> HIDE DEF r
  <2>8. NewAttempts(st, r) = NewAttempts(st, again)
    BY <2>7 DEF NewAttempts
  <2>9. /\ r.ch[c].reg = again.ch[c].reg
        /\ r.ch[c].sid = 0 /\ ~r.ch[c].retry
        /\ r.ch[c].next = 0 /\ r.ch[c].rows = NoRows /\ r.ch[c].gone = {}
    BY <1>10, <2>2, <2>3, <2>7
  <2>10. \A d \in Channels \ {c} : r.ch[d] = st.ch[d]
    BY <1>11, <2>3, <2>7
  <2>11. ResnapshottedAs(st, c, r)
    BY <1>10, <1>12, <1>13, <1>14, <1>15, <1>18, <2>7, <2>8, <2>9, <2>10
       DEF ResnapshottedAs
  <2>12. Resnapshot(st, c) = r
    BY <1>7, <1>18 DEF r
  <2>13. QED BY <1>18, <2>11, <2>12
<1>19. QED BY <1>16, <1>17, <1>18

\* A push is held, and makes room for itself.
LEMMA BufferPushes ==
  ASSUME NEW st \in ClientStates, NEW p \in Pushes
  PROVE  LET r == BufferPush(st, p)
             full == Append(st.buffer, p)
         IN  /\ r \in ClientStates
             /\ r.buffer = IF Len(full) > MaxBuffered THEN Tail(full) ELSE full
             /\ r.ch = st.ch /\ r.shown = st.shown /\ r.attempts = st.attempts
             /\ r.req = st.req /\ r.of = st.of /\ r.page = st.page
             /\ r.released = st.released
<1> DEFINE full == Append(st.buffer, p)
           kept == IF Len(full) > MaxBuffered THEN Tail(full) ELSE full
<1>1. st.buffer \in Seq(Pushes) /\ Len(st.buffer) <= MaxBuffered
  BY DEF ClientStates, Buffers
<1>2. full \in Seq(Pushes) /\ Len(full) = Len(st.buffer) + 1 /\ full # <<>>
      /\ Len(st.buffer) \in Nat
  BY <1>1, AppendProperties, LenProperties
<1>3. MaxBuffered \in Nat
  BY DeltaAssumption DEF DeltaAssumption
<1>4. BufferPush(st, p) = [st EXCEPT !.buffer = kept]
  BY DEF BufferPush
<1> HIDE DEF full
<1>5. kept \in Buffers
  BY <1>1, <1>2, <1>3, HeadTailProperties DEF Buffers
<1> HIDE DEF kept
<1>6. QED BY <1>4, <1>5 DEF ClientStates, full, kept

\* A snapshot replaces the collection of its channel.
SnapshotApplied(st, c, p, r) ==
  /\ r \in ClientStates
  /\ r.ch[c].next = p.seq + 1 /\ r.ch[c].rows = Over(p.rows, NoRows)
  /\ r.ch[c].gone = {} /\ ~r.ch[c].awaiting
  /\ r.ch[c].reg = st.ch[c].reg /\ r.ch[c].sid = st.ch[c].sid
  /\ r.ch[c].retry = st.ch[c].retry
  /\ \A d \in Channels \ {c} : r.ch[d] = st.ch[d]
  /\ r.page = [st.page EXCEPT ![p.sub] = IF p.more THEN "asked" ELSE "none"]
  /\ r.shown = [d \in Channels |-> r.ch[d].rows]
  /\ r.buffer = st.buffer /\ r.attempts = st.attempts
  /\ r.req = st.req /\ r.of = st.of /\ r.released = st.released

\* A delta changes some rows of its channel.
DeltaApplied(st, c, p, r) ==
  /\ r \in ClientStates
  /\ r.ch[c].next = p.seq + 1 /\ r.ch[c].rows = Over(p.rows, st.ch[c].rows)
  /\ r.ch[c].gone = st.ch[c].gone \cup {i \in DOMAIN p.rows : p.rows[i] = 0}
  /\ r.ch[c].awaiting = st.ch[c].awaiting
  /\ r.ch[c].reg = st.ch[c].reg /\ r.ch[c].sid = st.ch[c].sid
  /\ r.ch[c].retry = st.ch[c].retry
  /\ \A d \in Channels \ {c} : r.ch[d] = st.ch[d]
  /\ r.page = st.page
  /\ r.shown = [d \in Channels |-> r.ch[d].rows]
  /\ r.buffer = st.buffer /\ r.attempts = st.attempts
  /\ r.req = st.req /\ r.of = st.of /\ r.released = st.released

\* The rows a push has are states of rows, and so are those it leaves.
LEMMA OverTyped ==
  ASSUME NEW p \in Pushes, NEW old \in [Rows -> Values]
  PROVE  /\ Over(p.rows, old) \in [Rows -> Values]
         /\ DOMAIN p.rows \subseteq Rows
         /\ p.sub \in Attempts /\ p.seq \in 0..MaxChanges
         /\ p.seq + 1 \in 0..(MaxChanges + 1)
<1>1. p.rows \in PartialRows /\ p.sub \in Attempts /\ p.seq \in 0..MaxChanges
  BY DEF Pushes, Values
<1>2. PICK I \in SUBSET Rows : p.rows \in [I -> Values]
  BY <1>1 DEF PartialRows
<1>3. p.seq + 1 \in 0..(MaxChanges + 1)
  BY <1>1, DeltaAssumption DEF DeltaAssumption
<1>4. Over(p.rows, old) \in [Rows -> Values]
  BY <1>2 DEF Over
<1>5. QED BY <1>1, <1>2, <1>3, <1>4

\* A snapshot is applied.
LEMMA AppliesSnapshot ==
  ASSUME NEW st \in ClientStates, NEW c \in Channels, NEW p \in Pushes
  PROVE  SnapshotApplied(st, c, p, ApplySnapshot(st, c, p))
<1> DEFINE x == [st.ch[c] EXCEPT !.next = p.seq + 1, !.rows = Over(p.rows, NoRows),
                                 !.gone = {}, !.awaiting = FALSE]
           ch2 == [st.ch EXCEPT ![c] = x]
           page2 == [st.page EXCEPT ![p.sub] = IF p.more THEN "asked" ELSE "none"]
           u == [st EXCEPT !.ch = ch2, !.page = page2]
           r == ApplySnapshot(st, c, p)
<1>1. NoRows \in [Rows -> Values]
  BY DeltaAssumption DEF DeltaAssumption, NoRows, Values
<1>2. /\ Over(p.rows, NoRows) \in [Rows -> Values]
      /\ p.sub \in Attempts /\ p.seq + 1 \in 0..(MaxChanges + 1)
  BY <1>1, OverTyped
<1>3. /\ st.ch \in [Channels -> ChannelStates] /\ st.ch[c] \in ChannelStates
      /\ st.page \in [Attempts -> Pages]
  BY DEF ClientStates
<1>4. /\ x \in ChannelStates /\ x.next = p.seq + 1
      /\ x.rows = Over(p.rows, NoRows) /\ x.gone = {} /\ ~x.awaiting
      /\ x.reg = st.ch[c].reg /\ x.sid = st.ch[c].sid
      /\ x.retry = st.ch[c].retry
  BY <1>2, <1>3 DEF ChannelStates
<1>5. r = Emit([st EXCEPT
        !.ch[c] = [@ EXCEPT !.next = p.seq + 1, !.rows = Over(p.rows, NoRows),
                            !.gone = {}, !.awaiting = FALSE],
        !.page[p.sub] = IF p.more THEN "asked" ELSE "none"])
  BY DEF ApplySnapshot
<1>6. page2 \in [Attempts -> Pages]
  BY <1>2, <1>3 DEF Pages
<1> HIDE DEF x
<1>7. /\ ch2 \in [Channels -> ChannelStates] /\ ch2[c] = x
      /\ \A d \in Channels \ {c} : ch2[d] = st.ch[d]
  BY <1>3, <1>4
<1> HIDE DEF ch2, page2
<1>8. u \in ClientStates
  BY <1>6, <1>7 DEF ClientStates
<1>9. /\ u.ch = ch2 /\ u.page = page2 /\ u.buffer = st.buffer
       /\ u.attempts = st.attempts /\ u.req = st.req /\ u.of = st.of
       /\ u.released = st.released
  BY DEF ClientStates
<1>10. r = Emit(u)
  BY <1>5 DEF ClientStates, u, ch2, page2, x
<1> HIDE DEF u, r
<1>11. /\ r \in ClientStates
       /\ r.shown = [d \in Channels |-> r.ch[d].rows]
       /\ r.ch = ch2 /\ r.page = page2 /\ r.buffer = st.buffer
       /\ r.attempts = st.attempts /\ r.req = st.req /\ r.of = st.of
       /\ r.released = st.released
  BY <1>8, <1>9, <1>10, Emits
<1>12. QED BY <1>4, <1>7, <1>11 DEF SnapshotApplied, page2, r

\* A delta is applied.
LEMMA AppliesDelta ==
  ASSUME NEW st \in ClientStates, NEW c \in Channels, NEW p \in Pushes
  PROVE  DeltaApplied(st, c, p, ApplyDelta(st, c, p))
<1> DEFINE more == {i \in DOMAIN p.rows : p.rows[i] = 0}
           x == [st.ch[c] EXCEPT
                   !.next = p.seq + 1, !.rows = Over(p.rows, st.ch[c].rows),
                   !.gone = st.ch[c].gone \cup more]
           ch2 == [st.ch EXCEPT ![c] = x]
           u == [st EXCEPT !.ch = ch2]
           r == ApplyDelta(st, c, p)
<1>1. /\ st.ch \in [Channels -> ChannelStates] /\ st.ch[c] \in ChannelStates
  BY DEF ClientStates
<1>2. st.ch[c].rows \in [Rows -> Values] /\ st.ch[c].gone \in SUBSET Rows
  BY <1>1 DEF ChannelStates
<1>3. /\ Over(p.rows, st.ch[c].rows) \in [Rows -> Values]
      /\ more \in SUBSET Rows /\ p.seq + 1 \in 0..(MaxChanges + 1)
  BY <1>2, OverTyped
<1>4. r = Emit([st EXCEPT !.ch[c] = x])
  BY DEF ApplyDelta
<1> HIDE DEF more
<1>5. /\ x \in ChannelStates /\ x.next = p.seq + 1
      /\ x.rows = Over(p.rows, st.ch[c].rows)
      /\ x.gone = st.ch[c].gone \cup more
      /\ x.awaiting = st.ch[c].awaiting
      /\ x.reg = st.ch[c].reg /\ x.sid = st.ch[c].sid
      /\ x.retry = st.ch[c].retry
  BY <1>2, <1>3, <1>1 DEF ChannelStates
<1> HIDE DEF x
<1>6. /\ ch2 \in [Channels -> ChannelStates] /\ ch2[c] = x
      /\ \A d \in Channels \ {c} : ch2[d] = st.ch[d]
  BY <1>1, <1>5
<1> HIDE DEF ch2
<1>7. u \in ClientStates
  BY <1>6 DEF ClientStates
<1>8. /\ u.ch = ch2 /\ u.page = st.page /\ u.buffer = st.buffer
       /\ u.attempts = st.attempts /\ u.req = st.req /\ u.of = st.of
       /\ u.released = st.released
  BY DEF ClientStates
<1>9. r = Emit(u)
  BY <1>4 DEF u, ch2, ClientStates
<1> HIDE DEF u, r
<1>10. /\ r \in ClientStates
       /\ r.shown = [d \in Channels |-> r.ch[d].rows]
       /\ r.ch = ch2 /\ r.page = st.page /\ r.buffer = st.buffer
       /\ r.attempts = st.attempts /\ r.req = st.req /\ r.of = st.of
       /\ r.released = st.released
  BY <1>7, <1>8, <1>9, Emits
<1>11. QED BY <1>5, <1>6, <1>10 DEF DeltaApplied, more, r

-----------------------------------------------------------------------------
(* The invariant, of a client state st with the channels D, whose further  *)
(* pushes are the sets way[n]: those on the wire and, in the middle of a   *)
(* replay, those still to be replayed.                                     *)

\* The pushes on the wire of each subscription.
Way == [n \in Attempts |-> Range(wire[n])]

\* The pushes of subscription n the client is still to apply.
Coming(st, way, n) == {p \in Range(st.buffer) : p.sub = n} \cup way[n]

\* A channel's attempt is its own; it is confirmed by the reply of that attempt,
\* or it is not and may have a retry armed.
ChannelRegistered(D, st, c) ==
  /\ c \in D <=> st.ch[c].reg # 0
  /\ st.ch[c].reg # 0 =>
       st.ch[c].reg \in 1..st.attempts /\ st.of[st.ch[c].reg] = c
  /\ st.ch[c].sid # 0 =>
       st.ch[c].sid = st.ch[c].reg /\ st.req[st.ch[c].reg] = "done"
  /\ st.ch[c].retry =>
       /\ st.ch[c].reg # 0 /\ st.ch[c].sid = 0
       /\ st.req[st.ch[c].reg] \in {"timedout", "done"}

\* Every channel of D has its attempt, and no attempt is made beyond the bound.
Registered(D, st) ==
  /\ st.attempts <= MaxAttempts
  /\ \A c \in Channels : ChannelRegistered(D, st, c)
  /\ \A n \in Attempts : st.req[n] = "none" <=> n > st.attempts

\* The daemon holds a subscription for an answered request on this connection;
\* the client uses it or has asked to end it once it knows of it.
Alive(st) ==
  \A n \in Attempts :
    /\ sent[n] \in 0..changes
    /\ n \in live =>
         /\ connected /\ sent[n] >= 1
         /\ st.req[n] \in {"acked", "timedout", "done"}
         /\ st.req[n] = "done" => n \in st.released \/ st.ch[st.of[n]].sid = n

\* What is not confirmed has no rows, and what has no rows no continuation; what
\* has rows has no more of them than were sent, and has shown them.
ChannelFresh(st, c) ==
  /\ st.ch[c].sid = 0 => st.ch[c].next = 0
  /\ st.ch[c].awaiting => st.ch[c].next = 0
  /\ st.ch[c].next = 0 => st.page[st.ch[c].reg] = "none"
  /\ st.ch[c].next # 0 => st.shown[c] = st.ch[c].rows
  /\ st.ch[c].reg \in live => st.ch[c].next <= sent[st.ch[c].reg]

\* Every channel has what was sent for it, and shows its rows.
Fresh(D, st) ==
  /\ \A c \in D : ChannelFresh(st, c)
  /\ \A n \in Attempts : n > st.attempts => st.page[n] = "none"

\* The pushes of a subscription are held in the order they were made, ...
BufferOrdered(b) ==
  \A j, k \in DOMAIN b : j < k /\ b[j].sub = b[k].sub => b[j].seq < b[k].seq

\* ... before those on their way.
Ordered(st, way) ==
  /\ BufferOrdered(st.buffer)
  /\ \A p \in Range(st.buffer) : \A q \in way[p.sub] : p.seq < q.seq
  /\ \A n \in Attempts : \A p, q \in way[n] :
       p.sub = n /\ (p.seq = q.seq => p = q)

\* They come for an answered request, and the first one is the snapshot.
Issued(st, way) ==
  \A n \in Attempts : \A p \in Coming(st, way, n) :
    /\ p \in Pushes
    /\ st.req[n] \notin {"none", "asked"}
    /\ p.seq < changes
    /\ n \in live => p.seq < sent[n]
    /\ p.kind = "snapshot" <=> p.seq = 0

\* Nothing is held for a confirmed subscription, and what comes for a seeded one
\* is new.
Confirmed(D, st, way) ==
  \A c \in D : st.ch[c].sid # 0 =>
    /\ \A p \in Range(st.buffer) : p.sub # st.ch[c].sid
    /\ st.ch[c].next # 0 =>
         \A p \in way[st.ch[c].sid] : st.ch[c].next <= p.seq

\* No push is missing from the next one of channel c to the last one made.
Complete(st, way, c) ==
  \A s \in st.ch[c].next..(sent[st.ch[c].reg] - 1) :
    \E p \in Coming(st, way, st.ch[c].reg) : p.seq = s

\* The deltas that come for row i.
Touching(st, way, n, i) ==
  {p \in Coming(st, way, n) : p.kind = "delta" /\ i \in DOMAIN p.rows}

\* The last word on row i of channel c is the daemon's state of it: that of the
\* deltas that come for it, ...
LastDeltaRight(st, way, c, i) ==
  \E p \in Touching(st, way, st.ch[c].reg, i) :
    /\ p.rows[i] = store[c][i]
    /\ \A q \in Touching(st, way, st.ch[c].reg, i) : q.seq <= p.seq

\* ... or of the snapshot that comes and its continuation, ...
SnapshotRight(st, way, c, i) ==
  \A p \in Coming(st, way, st.ch[c].reg) : p.kind = "snapshot" =>
    /\ DOMAIN p.rows = cut[st.ch[c].reg]
    /\ IF i \in DOMAIN p.rows THEN p.rows[i] = store[c][i]
       ELSE p.more \/ store[c][i] = 0

\* The client has no row i, and was not told that there is none.
Missing(st, c, i) == st.ch[c].rows[i] = 0 /\ i \notin st.ch[c].gone

\* ... or of what the client has and the continuation that comes.
ReplicaRight(st, c, i) ==
  LET n == st.ch[c].reg
      right == st.ch[c].rows[i] = store[c][i]
  IN  \/ st.page[n] = "none" /\ right
      \/ st.page[n] = "asked" /\ (right \/ (i \notin cut[n] /\ Missing(st, c, i)))
      \/ /\ st.page[n] = "read"
         /\ IF i \in DOMAIN pageRows[n] /\ Missing(st, c, i)
            THEN pageRows[n][i] = store[c][i] ELSE right
      \/ st.page[n] = "gaveup"

\* The last word on row i, wherever it is.
RowRight(st, way, c, i) ==
  \/ LastDeltaRight(st, way, c, i)
  \/ /\ Touching(st, way, st.ch[c].reg, i) = {}
     /\ IF st.ch[c].next = 0 THEN SnapshotRight(st, way, c, i)
        ELSE ReplicaRight(st, c, i)

\* As long as nothing is missing, every row is on its way to what the daemon has.
ChannelFollows(st, way, c) ==
  st.ch[c].reg \in live /\ Complete(st, way, c) =>
    \A i \in Rows : RowRight(st, way, c, i)

\* Every channel follows the daemon.
Follows(D, st, way) == \A c \in D : ChannelFollows(st, way, c)

\* The client's part of the invariant.
ClientInv(D, st, way) ==
  /\ Registered(D, st) /\ Alive(st) /\ Fresh(D, st)
  /\ Ordered(st, way) /\ Issued(st, way) /\ Confirmed(D, st, way)
  /\ Follows(D, st, way)

\* What is on the wire, the daemon's own state and what the disposer leaves.
DaemonTyped ==
  /\ released \cup live \subseteq Attempts
  /\ connected \in BOOLEAN
  /\ store \in [Channels -> [Rows -> Values]]
  /\ changes \in Values /\ changes # 0 /\ faults \in 0..MaxFaults
  /\ sent \in [Attempts -> Values]
  /\ wire \in [Attempts -> Seq(Pushes)]
  /\ cut \in [Attempts -> SUBSET Rows]
  /\ pageRows \in [Attempts -> PartialRows]
  /\ desired \subseteq Channels /\ disposed \in BOOLEAN

\* The pushes on a wire are in the order they were made.
WireOrdered ==
  \A n \in Attempts : \A j, k \in DOMAIN wire[n] :
    j < k => wire[n][j].seq < wire[n][k].seq

\* A disposed client wants nothing.
Closed == disposed => desired = {}

\* The inductive invariant.
IInv ==
  /\ Client \in ClientStates /\ DaemonTyped /\ WireOrdered /\ Closed
  /\ ClientInv(desired, Client, Way)

\* The fields of a client state have their types.
LEMMA ClientFields ==
  ASSUME NEW st \in ClientStates
  PROVE  /\ st.buffer \in Seq(Pushes) /\ Len(st.buffer) \in Nat
         /\ Len(st.buffer) <= MaxBuffered
         /\ DOMAIN st.buffer = 1..Len(st.buffer)
         /\ Range(st.buffer) \subseteq Pushes
         /\ \A k \in DOMAIN st.buffer : st.buffer[k] \in Range(st.buffer)
         /\ \A p \in Range(st.buffer) : \E k \in DOMAIN st.buffer : st.buffer[k] = p
         /\ st.attempts \in Nat
         /\ \A n \in Attempts : /\ st.req[n] \in Statuses
                                /\ st.of[n] \in Channels
                                /\ st.page[n] \in Pages
         /\ st.released \subseteq Attempts
         /\ \A c \in Channels :
              /\ st.ch[c].reg \in Nat /\ st.ch[c].sid \in 0..MaxAttempts
              /\ st.ch[c].retry \in BOOLEAN /\ st.ch[c].awaiting \in BOOLEAN
              /\ st.ch[c].next \in 0..(MaxChanges + 1)
              /\ st.ch[c].rows \in [Rows -> Values]
              /\ st.ch[c].gone \in SUBSET Rows
              /\ st.shown[c] \in [Rows -> Values]
<1>1. /\ st.ch \in [Channels -> ChannelStates] /\ st.buffer \in Buffers
      /\ st.shown \in [Channels -> [Rows -> Values]] /\ st.attempts \in Nat
      /\ st.req \in [Attempts -> Statuses] /\ st.of \in [Attempts -> Channels]
      /\ st.page \in [Attempts -> Pages] /\ st.released \in SUBSET Attempts
  BY DEF ClientStates
<1>2. st.buffer \in Seq(Pushes) /\ Len(st.buffer) <= MaxBuffered
  BY <1>1 DEF Buffers
<1>3. /\ Len(st.buffer) \in Nat /\ DOMAIN st.buffer = 1..Len(st.buffer)
      /\ \A k \in DOMAIN st.buffer : st.buffer[k] \in Pushes
  BY <1>2, LenProperties, ElementOfSeq
<1>4. ASSUME NEW c \in Channels
      PROVE  /\ st.ch[c].reg \in Nat /\ st.ch[c].sid \in 0..MaxAttempts
             /\ st.ch[c].retry \in BOOLEAN /\ st.ch[c].awaiting \in BOOLEAN
             /\ st.ch[c].next \in 0..(MaxChanges + 1)
             /\ st.ch[c].rows \in [Rows -> Values]
             /\ st.ch[c].gone \in SUBSET Rows
             /\ st.shown[c] \in [Rows -> Values]
  <2>1. st.ch[c] \in ChannelStates
    BY <1>1
  <2>2. QED BY <1>1, <2>1 DEF ChannelStates
<1>5. /\ Range(st.buffer) \subseteq Pushes
      /\ \A k \in DOMAIN st.buffer : st.buffer[k] \in Range(st.buffer)
      /\ \A p \in Range(st.buffer) : \E k \in DOMAIN st.buffer : st.buffer[k] = p
  BY <1>3 DEF Range
<1>6. \A n \in Attempts : /\ st.req[n] \in Statuses /\ st.of[n] \in Channels
                          /\ st.page[n] \in Pages
  BY <1>1
<1>7. QED BY <1>1, <1>2, <1>3, <1>4, <1>5, <1>6

\* The pushes that come have natural numbers.
LEMMA PushFields ==
  ASSUME NEW p \in Pushes
  PROVE  /\ p.seq \in Nat /\ p.seq <= MaxChanges /\ p.sub \in Attempts
         /\ p.kind \in {"snapshot", "delta"} /\ p.more \in BOOLEAN
<1>1. MaxChanges \in Nat
  BY DeltaAssumption DEF DeltaAssumption
<1>2. QED BY <1>1 DEF Pushes, Values

\* A registered channel's attempt is one of the attempts, and no other's.
LEMMA OwnAttempt ==
  ASSUME NEW st \in ClientStates, NEW D \in SUBSET Channels, Registered(D, st),
         NEW c \in D
  PROVE  /\ st.ch[c].reg \in Attempts /\ st.ch[c].reg # 0
         /\ st.ch[c].reg <= st.attempts
         /\ st.of[st.ch[c].reg] = c
         /\ st.ch[c].sid \in {0, st.ch[c].reg}
         /\ st.ch[c].sid # 0 => st.req[st.ch[c].reg] = "done"
         /\ \A d \in Channels : st.ch[d].reg = st.ch[c].reg => d = c
         /\ \A d \in Channels : st.ch[d].sid = st.ch[c].reg => d = c
<1>1. /\ MaxAttempts \in Nat /\ st.attempts \in Nat /\ st.attempts <= MaxAttempts
      /\ \A d \in Channels : st.ch[d].reg \in Nat /\ ChannelRegistered(D, st, d)
  BY ClientFields, DeltaAssumption DEF DeltaAssumption, Registered
<1>2. /\ st.ch[c].reg # 0 /\ st.ch[c].reg \in 1..st.attempts
      /\ st.of[st.ch[c].reg] = c
      /\ st.ch[c].sid \in {0, st.ch[c].reg}
      /\ st.ch[c].sid # 0 => st.req[st.ch[c].reg] = "done"
  BY <1>1 DEF ChannelRegistered
<1>3. \A d \in Channels : st.ch[d].reg = st.ch[c].reg => d = c
  BY <1>1, <1>2 DEF ChannelRegistered
<1>4. \A d \in Channels : st.ch[d].sid = st.ch[c].reg => d = c
  BY <1>1, <1>2, <1>3 DEF ChannelRegistered
<1>5. QED BY <1>1, <1>2, <1>3, <1>4 DEF Attempts

\* No two pushes of a subscription have the same number.
LEMMA OneOfANumber ==
  ASSUME NEW st \in ClientStates, NEW way, Ordered(st, way), Issued(st, way),
         NEW n \in Attempts,
         NEW p \in Coming(st, way, n), NEW q \in Coming(st, way, n),
         p.seq = q.seq
  PROVE  p = q
<1>1. p \in Pushes /\ q \in Pushes /\ p.seq \in Nat /\ q.seq \in Nat
      /\ ~(p.seq < q.seq) /\ ~(q.seq < p.seq)
  BY PushFields DEF Issued
<1>2. CASE p \in way[n] /\ q \in way[n]
  BY <1>2 DEF Ordered
<1>3. CASE p \in way[n] /\ q \in Range(st.buffer) /\ q.sub = n
  BY <1>1, <1>3 DEF Ordered
<1>4. CASE q \in way[n] /\ p \in Range(st.buffer) /\ p.sub = n
  BY <1>1, <1>4 DEF Ordered
<1>5. CASE /\ p \in Range(st.buffer) /\ p.sub = n
           /\ q \in Range(st.buffer) /\ q.sub = n
  <2>1. PICK j \in DOMAIN st.buffer : st.buffer[j] = p
    BY <1>5, ClientFields
  <2>2. PICK k \in DOMAIN st.buffer : st.buffer[k] = q
    BY <1>5, ClientFields
  <2>3. BufferOrdered(st.buffer)
    BY DEF Ordered
  <2>4. j \in Nat /\ k \in Nat
    BY ClientFields
  <2>5. ~(j < k) /\ ~(k < j)
    BY <1>1, <1>5, <2>1, <2>2, <2>3 DEF BufferOrdered
  <2>6. QED BY <2>1, <2>2, <2>4, <2>5
<1>6. QED BY <1>2, <1>3, <1>4, <1>5 DEF Coming

\* What comes for a registered channel is new to it.
LEMMA NewToIt ==
  ASSUME NEW st \in ClientStates, NEW D \in SUBSET Channels, NEW way,
         Registered(D, st), Fresh(D, st), Confirmed(D, st, way), Issued(st, way),
         NEW c \in D, NEW p \in Coming(st, way, st.ch[c].reg)
  PROVE  st.ch[c].next <= p.seq
<1>1. /\ st.ch[c].reg \in Attempts /\ st.ch[c].reg # 0
      /\ st.ch[c].sid \in {0, st.ch[c].reg}
  BY OwnAttempt
<1>2. p \in Pushes /\ p.seq \in Nat
  BY <1>1, PushFields DEF Issued
<1>3. CASE st.ch[c].next = 0
  BY <1>2, <1>3
<1>4. CASE st.ch[c].next # 0
  <2>1. st.ch[c].sid = st.ch[c].reg /\ st.ch[c].sid # 0
    BY <1>1, <1>4 DEF Fresh, ChannelFresh
  <2>2. p \in way[st.ch[c].sid]
    BY <2>1 DEF Confirmed, Coming
  <2>3. QED BY <1>4, <2>1, <2>2 DEF Confirmed
<1>5. QED BY <1>3, <1>4

\* The client's part is the same but for what it holds.
SameBut(st, r) ==
  /\ r.ch = st.ch /\ r.shown = st.shown /\ r.attempts = st.attempts
  /\ r.req = st.req /\ r.of = st.of /\ r.page = st.page
  /\ r.released = st.released

\* Losing pushes, held or on their way, or holding them, leaves every channel
\* right: one that misses a push is not complete.
LEMMA LosesPushes ==
  ASSUME NEW st \in ClientStates, NEW r \in ClientStates, SameBut(st, r),
         NEW D \in SUBSET Channels, NEW way, NEW way2, ClientInv(D, st, way),
         \A n \in Attempts : Coming(r, way2, n) \subseteq Coming(st, way, n),
         Ordered(r, way2), Confirmed(D, r, way2)
  PROVE  ClientInv(D, r, way2)
<1>1. Registered(D, r)
  BY DEF ClientInv, Registered, ChannelRegistered, SameBut
<1>2. Alive(r)
  BY DEF ClientInv, Alive, SameBut
<1>3. Fresh(D, r)
  BY DEF ClientInv, Fresh, ChannelFresh, SameBut
<1>4. Issued(r, way2)
  BY DEF ClientInv, Issued, SameBut
<1>5. ASSUME NEW c \in D, r.ch[c].reg \in live, Complete(r, way2, c), NEW i \in Rows
      PROVE  RowRight(r, way2, c, i)
  <2> DEFINE n == st.ch[c].reg
  <2>1. n \in Attempts /\ n \in live /\ r.ch[c] = st.ch[c] /\ r.page = st.page
    BY <1>5, OwnAttempt DEF ClientInv, SameBut
  <2>2. ASSUME NEW p \in Coming(st, way, n)
        PROVE  p \in Coming(r, way2, n)
    <3>1. p \in Pushes /\ p.seq < sent[n] /\ sent[n] \in Nat /\ p.seq \in Nat
      BY <2>1, PushFields DEF ClientInv, Issued, Alive
    <3>2. st.ch[c].next <= p.seq /\ st.ch[c].next \in Nat
      BY NewToIt, ClientFields DEF ClientInv
    <3>3. PICK q \in Coming(r, way2, n) : q.seq = p.seq
      BY <1>5, <2>1, <3>1, <3>2 DEF Complete
    <3>4. q = p
      BY <2>1, <3>3, OneOfANumber DEF ClientInv
    <3>5. QED BY <3>3, <3>4
  <2>3. Coming(r, way2, n) = Coming(st, way, n)
    BY <2>1, <2>2
  <2>4. ChannelFollows(st, way, c)
    BY DEF ClientInv, Follows
  <2>5. Complete(st, way, c)
    BY <1>5, <2>1, <2>3 DEF Complete
  <2>6. RowRight(st, way, c, i)
    BY <2>1, <2>4, <2>5 DEF ChannelFollows
  <2>7. QED BY <2>1, <2>3, <2>6
            DEF RowRight, LastDeltaRight, SnapshotRight, ReplicaRight, Missing,
                Touching
<1>6. Follows(D, r, way2)
  BY <1>5 DEF Follows, ChannelFollows
<1>7. QED BY <1>1, <1>2, <1>3, <1>4, <1>6 DEF ClientInv

\* Losing pushes on their way does so, too.
LEMMA LosesOnTheWay ==
  ASSUME NEW st \in ClientStates, NEW D \in SUBSET Channels, NEW way, NEW way2,
         ClientInv(D, st, way), \A n \in Attempts : way2[n] \subseteq way[n]
  PROVE  ClientInv(D, st, way2)
<1>1. \A p \in Range(st.buffer) : p.sub \in Attempts
  BY ClientFields, PushFields
<1>2. \A c \in D : st.ch[c].sid # 0 => st.ch[c].sid \in Attempts
  BY OwnAttempt DEF ClientInv
<1>3. Ordered(st, way2) /\ Confirmed(D, st, way2)
  BY <1>1, <1>2 DEF ClientInv, Ordered, Confirmed
<1>4. \A n \in Attempts : Coming(st, way2, n) \subseteq Coming(st, way, n)
  BY DEF Coming
<1>5. QED BY <1>3, <1>4, LosesPushes DEF SameBut

\* Channel c is as before, but for its registration.
SameChannel(x, y) ==
  /\ x.reg = y.reg /\ x.awaiting = y.awaiting /\ x.next = y.next
  /\ x.rows = y.rows /\ x.gone = y.gone

\* The requests of the attempts N are settled: some of them confirm the channel
\* they were made for, the others arm a retry or are released.
Settles(st, N, r) ==
  /\ \A c \in Channels : SameChannel(r.ch[c], st.ch[c])
  /\ \A n \in Attempts \ N : r.req[n] = st.req[n]
  /\ \A n \in N : r.req[n] \in {"timedout", "done"}
  /\ \A c \in Channels :
       \/ r.ch[c].sid = st.ch[c].sid /\ r.ch[c].retry = st.ch[c].retry
       \/ /\ st.ch[c].sid = 0 /\ st.ch[c].reg \in N
          /\ r.ch[c].sid \in {0, st.ch[c].reg}
          /\ r.ch[c].sid # 0 => ~r.ch[c].retry /\ r.req[st.ch[c].reg] = "done"
  /\ st.released \subseteq r.released
  /\ \A n \in N : n \in live /\ r.req[n] = "done" =>
       n \in r.released \/ r.ch[st.of[n]].sid = n
  /\ r.buffer = st.buffer /\ r.shown = st.shown /\ r.attempts = st.attempts
  /\ r.of = st.of /\ r.page = st.page

\* Settling requests that were answered keeps the invariant, if nothing is held
\* for a subscription that gets confirmed.
LEMMA SettlesKeeps ==
  ASSUME NEW st \in ClientStates, NEW r \in ClientStates,
         NEW N \in SUBSET Attempts, Settles(st, N, r),
         NEW D \in SUBSET Channels, NEW way, ClientInv(D, st, way),
         \A n \in N : st.req[n] \in {"acked", "failed"},
         \A c \in D : r.ch[c].sid \in N =>
           \A p \in Range(st.buffer) : p.sub # r.ch[c].sid
  PROVE  ClientInv(D, r, way)
<1>1. ASSUME NEW c \in Channels
      PROVE  ChannelRegistered(D, r, c)
  <2>1. ChannelRegistered(D, st, c) /\ r.attempts = st.attempts /\ r.of = st.of
    BY DEF ClientInv, Registered, Settles
  <2>2. r.ch[c].reg = st.ch[c].reg
    BY DEF Settles, SameChannel
  <2>3. st.ch[c].reg # 0 => st.ch[c].reg \in Attempts
    BY <2>1, OwnAttempt DEF ClientInv, ChannelRegistered
  <2>4. r.ch[c].reg # 0 /\ st.req[r.ch[c].reg] \in {"timedout", "done"} =>
          r.req[r.ch[c].reg] = st.req[r.ch[c].reg]
    BY <2>2, <2>3 DEF Settles
  <2>5. CASE r.ch[c].sid = st.ch[c].sid /\ r.ch[c].retry = st.ch[c].retry
    BY <2>1, <2>2, <2>4, <2>5 DEF ChannelRegistered
  <2>6. CASE /\ st.ch[c].sid = 0 /\ st.ch[c].reg \in N
             /\ r.ch[c].sid \in {0, st.ch[c].reg}
             /\ r.ch[c].sid # 0 => ~r.ch[c].retry /\ r.req[st.ch[c].reg] = "done"
    <3>1. 0 \notin Attempts
      BY DeltaAssumption DEF Attempts, DeltaAssumption
    <3>2. r.req[st.ch[c].reg] \in {"timedout", "done"} /\ st.ch[c].reg # 0
      BY <2>6, <3>1 DEF Settles
    <3>3. QED BY <2>1, <2>2, <2>6, <3>2 DEF ChannelRegistered
  <2>7. QED BY <2>5, <2>6 DEF Settles
<1>2. Registered(D, r)
  <2>1. \A n \in Attempts : r.req[n] = "none" <=> st.req[n] = "none"
    BY DEF Settles
  <2>2. QED BY <1>1, <2>1 DEF ClientInv, Registered, Settles
<1>3. Alive(r)
  <2>1. ASSUME NEW n \in Attempts, n \in live
        PROVE  /\ r.req[n] \in {"acked", "timedout", "done"}
               /\ r.req[n] = "done" => n \in r.released \/ r.ch[r.of[n]].sid = n
    <3>1. CASE n \in N
      BY <2>1, <3>1 DEF Settles
    <3>2. CASE n \notin N
      <4>1. /\ r.req[n] = st.req[n] /\ r.of = st.of
            /\ st.req[n] \in {"acked", "timedout", "done"}
            /\ st.req[n] = "done" => n \in st.released \/ st.ch[st.of[n]].sid = n
        BY <2>1, <3>2 DEF ClientInv, Alive, Settles
      <4>2. st.of[n] \in Channels /\ n # 0
        BY ClientFields DEF Attempts
      <4>3. st.ch[st.of[n]].sid = n => r.ch[st.of[n]].sid = n
        BY <4>2 DEF Settles
      <4>4. QED BY <4>1, <4>3 DEF Settles
    <3>3. QED BY <3>1, <3>2
  <2>2. QED BY <2>1 DEF ClientInv, Alive
<1>4. Fresh(D, r)
  <2>1. ASSUME NEW c \in D
        PROVE  ChannelFresh(r, c)
    <3>1. /\ ChannelFresh(st, c) /\ SameChannel(r.ch[c], st.ch[c])
          /\ r.page = st.page /\ r.shown = st.shown
          /\ r.ch[c].sid = 0 => st.ch[c].sid = 0
      BY DEF ClientInv, Fresh, Settles
    <3>2. QED BY <3>1 DEF ChannelFresh, SameChannel
  <2>2. QED BY <2>1 DEF ClientInv, Fresh, Settles
<1>5. Ordered(r, way)
  BY DEF ClientInv, Ordered, Settles
<1>6. \A n \in Attempts : Coming(r, way, n) = Coming(st, way, n)
  BY DEF Coming, Settles
<1>7. Issued(r, way)
  <2>1. \A n \in Attempts : st.req[n] \notin {"none", "asked"} =>
                            r.req[n] \notin {"none", "asked"}
    BY DEF Settles
  <2>2. QED BY <1>6, <2>1 DEF ClientInv, Issued
<1>8. ASSUME NEW c \in D, r.ch[c].sid # 0
      PROVE  /\ \A p \in Range(r.buffer) : p.sub # r.ch[c].sid
             /\ r.ch[c].next # 0 =>
                  \A p \in way[r.ch[c].sid] : r.ch[c].next <= p.seq
  <2>1. SameChannel(r.ch[c], st.ch[c]) /\ r.buffer = st.buffer
    BY DEF Settles
  <2>2. CASE r.ch[c].sid = st.ch[c].sid
    BY <1>8, <2>1, <2>2 DEF ClientInv, Confirmed, SameChannel
  <2>3. CASE /\ st.ch[c].sid = 0 /\ st.ch[c].reg \in N
             /\ r.ch[c].sid = st.ch[c].reg
    <3>1. st.ch[c].next = 0
      BY <2>3 DEF ClientInv, Fresh, ChannelFresh
    <3>2. QED BY <2>1, <2>3, <3>1 DEF SameChannel
  <2>4. QED BY <1>8, <2>2, <2>3 DEF Settles
<1>9. Confirmed(D, r, way)
  BY <1>8 DEF Confirmed
<1>10. ASSUME NEW c \in D, r.ch[c].reg \in live, Complete(r, way, c), NEW i \in Rows
       PROVE  RowRight(r, way, c, i)
  <2>1. /\ SameChannel(r.ch[c], st.ch[c]) /\ r.page = st.page
        /\ st.ch[c].reg \in Attempts
    BY OwnAttempt DEF ClientInv, Settles
  <2>2. Coming(r, way, st.ch[c].reg) = Coming(st, way, st.ch[c].reg)
    BY <1>6, <2>1
  <2>3. Complete(st, way, c) /\ st.ch[c].reg \in live
    BY <1>10, <2>1, <2>2 DEF Complete, SameChannel
  <2>4. RowRight(st, way, c, i)
    BY <2>3 DEF ClientInv, Follows, ChannelFollows
  <2>5. QED BY <2>1, <2>2, <2>4
            DEF RowRight, LastDeltaRight, SnapshotRight, ReplicaRight, Missing,
                Touching, SameChannel
<1>11. Follows(D, r, way)
  BY <1>10 DEF Follows, ChannelFollows
<1>12. QED BY <1>2, <1>3, <1>4, <1>5, <1>7, <1>9, <1>11 DEF ClientInv

\* Every channel keeps its rows or has none any more, and shows what it did or
\* these rows.
NothingNewShown(st, r) ==
  \A c \in Channels : /\ r.ch[c].rows \in {st.ch[c].rows, NoRows}
                      /\ r.shown[c] \in {st.shown[c], r.ch[c].rows}

\* The channels S are registered again, as channels of D2; those that are not
\* are gone, and their subscriptions released.
Supersedes(D, st, S, D2, r) ==
  /\ st.attempts <= r.attempts /\ r.attempts <= MaxAttempts
  /\ S \subseteq D2 /\ D2 \subseteq D \cup S
  /\ \A c \in S :
       /\ r.ch[c].reg \in NewAttempts(st, r)
       /\ r.ch[c].reg \in Attempts => r.of[r.ch[c].reg] = c
       /\ r.ch[c].sid = 0 /\ ~r.ch[c].retry /\ r.ch[c].next = 0
  /\ \A c \in D2 \ S :
       /\ r.ch[c] = st.ch[c]
       /\ r.ch[c].next # 0 => r.shown[c] = r.ch[c].rows
       /\ r.page[st.ch[c].reg] = st.page[st.ch[c].reg]
  /\ \A c \in Channels \ D2 :
       r.ch[c].reg = 0 /\ r.ch[c].sid = 0 /\ ~r.ch[c].retry
  /\ \A n \in Attempts :
       IF n \in NewAttempts(st, r)
       THEN r.req[n] = "asked"
       ELSE r.req[n] = st.req[n] /\ r.of[n] = st.of[n]
  /\ \A n \in Attempts : r.page[n] \in {st.page[n], "none"}
  /\ st.released \subseteq r.released
  /\ \A c \in D : st.ch[c].sid # 0 /\ st.ch[c].sid \in live =>
       c \in D2 \ S \/ st.ch[c].sid \in r.released
  /\ r.buffer = st.buffer \/ (r.buffer = <<>> /\ D2 = S)
  /\ NothingNewShown(st, r)

\* Registering channels again keeps the invariant: nothing comes for an attempt
\* before the daemon has answered its request.
LEMMA SupersedesKeeps ==
  ASSUME NEW st \in ClientStates, NEW r \in ClientStates,
         NEW D \in SUBSET Channels, NEW S \in SUBSET Channels,
         NEW D2 \in SUBSET Channels, Supersedes(D, st, S, D2, r),
         NEW way, ClientInv(D, st, way)
  PROVE  ClientInv(D2, r, way)
<1>1. /\ st.attempts \in Nat /\ r.attempts \in Nat /\ st.attempts <= r.attempts
      /\ r.attempts <= MaxAttempts /\ MaxAttempts \in Nat
      /\ Registered(D, st)
  BY ClientFields, DeltaAssumption DEF DeltaAssumption, ClientInv, Supersedes
<1>2. \A n \in NewAttempts(st, r) :
        /\ n \in Attempts /\ n \in 1..r.attempts /\ n > st.attempts
        /\ st.req[n] = "none" /\ r.req[n] = "asked" /\ n \notin live
  <2>1. ASSUME NEW n \in NewAttempts(st, r)
        PROVE  n \in Attempts /\ n \in 1..r.attempts /\ n > st.attempts
    BY <1>1 DEF NewAttempts, Attempts
  <2>2. \A n \in NewAttempts(st, r) : st.req[n] = "none" /\ r.req[n] = "asked"
    BY <2>1 DEF ClientInv, Registered, Supersedes
  <2>3. QED BY <2>1, <2>2 DEF ClientInv, Alive
<1>3. \A n \in Attempts : n \notin NewAttempts(st, r) =>
        /\ r.req[n] = st.req[n] /\ r.of[n] = st.of[n]
        /\ n <= st.attempts \/ n > r.attempts
  BY <1>1 DEF Supersedes, NewAttempts, Attempts
<1>4. \A c \in D : st.ch[c].reg \in Attempts /\ st.ch[c].reg \notin NewAttempts(st, r)
  BY <1>1, OwnAttempt DEF NewAttempts
<1>5. ASSUME NEW c \in Channels
      PROVE  ChannelRegistered(D2, r, c)
  <2>1. CASE c \in S
    BY <1>2, <2>1 DEF Supersedes, ChannelRegistered
  <2>2. CASE c \in D2 \ S
    <3>1. c \in D /\ r.ch[c] = st.ch[c] /\ ChannelRegistered(D, st, c)
      BY <2>2 DEF Supersedes, ClientInv, Registered
    <3>2. /\ r.req[st.ch[c].reg] = st.req[st.ch[c].reg]
          /\ r.of[st.ch[c].reg] = st.of[st.ch[c].reg]
      BY <1>3, <1>4, <3>1
    <3>3. QED BY <1>1, <2>2, <3>1, <3>2 DEF ChannelRegistered
  <2>3. CASE c \notin D2
    BY <2>3 DEF Supersedes, ChannelRegistered
  <2>4. QED BY <2>1, <2>2, <2>3
<1>6. Registered(D2, r)
  <2>1. ASSUME NEW n \in Attempts
        PROVE  r.req[n] = "none" <=> n > r.attempts
    <3>1. CASE n \in NewAttempts(st, r)
      BY <1>1, <1>2, <3>1 DEF Attempts
    <3>2. CASE n \notin NewAttempts(st, r)
      BY <1>1, <1>3, <3>2 DEF Registered, Attempts
    <3>3. QED BY <3>1, <3>2
  <2>2. QED BY <1>1, <1>5, <2>1 DEF Registered
<1>7. Alive(r)
  <2>1. ASSUME NEW n \in Attempts, n \in live
        PROVE  /\ r.req[n] \in {"acked", "timedout", "done"}
               /\ r.req[n] = "done" => n \in r.released \/ r.ch[r.of[n]].sid = n
    <3>1. /\ r.req[n] = st.req[n] /\ r.of[n] = st.of[n]
          /\ st.req[n] \in {"acked", "timedout", "done"}
          /\ st.req[n] = "done" => n \in st.released \/ st.ch[st.of[n]].sid = n
      BY <1>2, <1>3, <2>1 DEF ClientInv, Alive
    <3>2. ASSUME st.ch[st.of[n]].sid = n
          PROVE  n \in r.released \/ r.ch[st.of[n]].sid = n
      <4>1. st.of[n] \in Channels /\ n # 0
        BY ClientFields DEF Attempts
      <4>2. st.of[n] \in D
        BY <1>1, <3>2, <4>1 DEF Registered, ChannelRegistered
      <4>3. QED BY <2>1, <3>2, <4>1, <4>2 DEF Supersedes
    <3>3. QED BY <3>1, <3>2 DEF Supersedes
  <2>2. QED BY <2>1 DEF ClientInv, Alive
<1>8. Fresh(D2, r)
  <2>1. ASSUME NEW n \in Attempts, n > st.attempts
        PROVE  r.page[n] = "none"
    BY <2>1 DEF ClientInv, Fresh, Supersedes
  <2>2. ASSUME NEW c \in S
        PROVE  ChannelFresh(r, c)
    <3>1. /\ r.ch[c].reg \in NewAttempts(st, r) /\ r.ch[c].next = 0
      BY DEF Supersedes
    <3>2. r.page[r.ch[c].reg] = "none" /\ r.ch[c].reg \notin live
      BY <1>2, <2>1, <3>1
    <3>3. QED BY <3>1, <3>2 DEF ChannelFresh
  <2>3. ASSUME NEW c \in D2 \ S
        PROVE  ChannelFresh(r, c)
    <3>1. /\ r.ch[c] = st.ch[c] /\ ChannelFresh(st, c)
          /\ r.page[st.ch[c].reg] = st.page[st.ch[c].reg]
          /\ r.ch[c].next # 0 => r.shown[c] = r.ch[c].rows
      BY DEF Supersedes, ClientInv, Fresh
    <3>2. QED BY <3>1 DEF ChannelFresh
  <2>4. \A n \in Attempts : n > r.attempts => n > st.attempts
    BY <1>1 DEF Attempts
  <2>5. QED BY <2>1, <2>2, <2>3, <2>4 DEF Fresh
<1>9. Range(r.buffer) \subseteq Range(st.buffer) /\ BufferOrdered(r.buffer)
  <2>1. CASE r.buffer = st.buffer
    BY <2>1 DEF ClientInv, Ordered
  <2>2. CASE r.buffer = <<>>
    BY <2>2 DEF Range, BufferOrdered
  <2>3. QED BY <2>1, <2>2 DEF Supersedes
<1>10. Ordered(r, way)
  BY <1>9 DEF ClientInv, Ordered
<1>11. \A n \in Attempts : Coming(r, way, n) \subseteq Coming(st, way, n)
  BY <1>9 DEF Coming
<1>12. Issued(r, way)
  <2>1. ASSUME NEW n \in Attempts, st.req[n] # "none"
        PROVE  r.req[n] = st.req[n]
    BY <1>2, <1>3, <2>1
  <2>2. QED BY <1>11, <2>1 DEF ClientInv, Issued
<1>13. Confirmed(D2, r, way)
  <2>1. ASSUME NEW c \in D2, r.ch[c].sid # 0
        PROVE  r.ch[c] = st.ch[c] /\ c \in D
    BY <2>1 DEF Supersedes
  <2>2. QED BY <1>9, <2>1 DEF ClientInv, Confirmed
<1>14. ASSUME NEW c \in D2, r.ch[c].reg \in live, Complete(r, way, c), NEW i \in Rows
       PROVE  RowRight(r, way, c, i)
  <2>1. c \in D2 \ S
    BY <1>2, <1>14 DEF Supersedes
  <2>2. /\ c \in D /\ r.ch[c] = st.ch[c] /\ r.buffer = st.buffer
        /\ r.page[st.ch[c].reg] = st.page[st.ch[c].reg]
    BY <2>1 DEF Supersedes
  <2>3. Coming(r, way, st.ch[c].reg) = Coming(st, way, st.ch[c].reg)
    BY <2>2 DEF Coming
  <2>4. Complete(st, way, c) /\ st.ch[c].reg \in live
    BY <1>14, <2>2, <2>3 DEF Complete
  <2>5. RowRight(st, way, c, i)
    BY <2>2, <2>4 DEF ClientInv, Follows, ChannelFollows
  <2>6. QED BY <2>2, <2>3, <2>5
            DEF RowRight, LastDeltaRight, SnapshotRight, ReplicaRight, Missing,
                Touching
<1>15. Follows(D2, r, way)
  BY <1>14 DEF Follows, ChannelFollows
<1>16. QED BY <1>6, <1>7, <1>8, <1>10, <1>12, <1>13, <1>15 DEF ClientInv

\* Applying the snapshot of a confirmed subscription, the first push that comes
\* for it, keeps the invariant.
LEMMA SnapshotKeeps ==
  ASSUME NEW st \in ClientStates, NEW D \in SUBSET Channels,
         NEW way, NEW way2, ClientInv(D, st, way),
         NEW c \in D, NEW p \in Pushes, st.ch[c].sid = p.sub,
         p.kind = "snapshot",
         \A n \in Attempts : way2[n] = IF n = p.sub THEN way[n] \ {p} ELSE way[n],
         p \in way[p.sub],
         NEW r, SnapshotApplied(st, c, p, r)
  PROVE  ClientInv(D, r, way2)
<1> DEFINE n == st.ch[c].reg
<1>1. /\ n \in Attempts /\ n # 0 /\ n = p.sub /\ st.ch[c].sid = n
      /\ st.of[n] = c /\ st.req[n] = "done"
      /\ \A d \in Channels : st.ch[d].reg = n => d = c
  BY OwnAttempt, PushFields DEF ClientInv, Attempts
<1>2. /\ r \in ClientStates /\ r.buffer = st.buffer /\ r.req = st.req
      /\ r.of = st.of /\ r.attempts = st.attempts /\ r.released = st.released
      /\ r.shown = [d \in Channels |-> r.ch[d].rows]
      /\ r.page = [st.page EXCEPT ![n] = IF p.more THEN "asked" ELSE "none"]
      /\ r.ch[c].reg = n /\ r.ch[c].sid = n
      /\ r.ch[c].retry = st.ch[c].retry /\ ~r.ch[c].awaiting
      /\ r.ch[c].next = p.seq + 1 /\ r.ch[c].rows = Over(p.rows, NoRows)
      /\ r.ch[c].gone = {}
      /\ \A d \in Channels \ {c} : r.ch[d] = st.ch[d]
  BY <1>1 DEF SnapshotApplied
<1>3. /\ p \in Coming(st, way, n) /\ p.seq = 0 /\ r.ch[c].next = 1
      /\ n \in live => 0 < sent[n]
  BY <1>1, <1>2 DEF ClientInv, Issued, Coming
<1>4. st.ch[c].next = 0
  BY <1>3, NewToIt, ClientFields DEF ClientInv
<1>5. \A m \in Attempts : Coming(r, way2, m) \subseteq Coming(st, way, m)
  BY <1>2 DEF Coming
<1>6. Registered(D, r)
  <2>1. ASSUME NEW d \in Channels
        PROVE  ChannelRegistered(D, r, d)
    <3>1. ChannelRegistered(D, st, d)
      BY DEF ClientInv, Registered
    <3>2. CASE d = c
      BY <1>1, <1>2, <3>1, <3>2 DEF ChannelRegistered
    <3>3. CASE d # c
      BY <1>2, <3>1, <3>3 DEF ChannelRegistered
    <3>4. QED BY <3>2, <3>3
  <2>2. QED BY <1>2, <2>1 DEF ClientInv, Registered
<1>7. Alive(r)
  <2>1. \A d \in Channels : r.ch[d].sid = st.ch[d].sid
    BY <1>1, <1>2
  <2>2. \A m \in Attempts : st.of[m] \in Channels
    BY ClientFields
  <2>3. QED BY <1>2, <2>1, <2>2 DEF ClientInv, Alive
<1>8. Fresh(D, r)
  <2>1. st.page \in [Attempts -> Pages]
    BY DEF ClientStates
  <2>2. ChannelFresh(r, c)
    <3>1. n \in live => 1 <= sent[n]
      BY <1>1, <1>3 DEF ClientInv, Alive
    <3>2. QED BY <1>1, <1>2, <1>3, <3>1 DEF ChannelFresh
  <2>3. ASSUME NEW d \in D \ {c}
        PROVE  ChannelFresh(r, d)
    <3>1. ChannelFresh(st, d) /\ r.ch[d] = st.ch[d]
      BY <1>2 DEF ClientInv, Fresh
    <3>2. st.ch[d].reg \in Attempts /\ st.ch[d].reg # n
      BY <1>1, OwnAttempt DEF ClientInv
    <3>3. r.page[st.ch[d].reg] = st.page[st.ch[d].reg] /\ r.shown[d] = r.ch[d].rows
      BY <1>2, <2>1, <3>2
    <3>4. QED BY <3>1, <3>3 DEF ChannelFresh
  <2>4. ASSUME NEW m \in Attempts, m > r.attempts
        PROVE  r.page[m] = "none"
    <3>1. m # n /\ st.page[m] = "none"
      BY <1>1, <1>2, <2>4, OwnAttempt, ClientFields DEF ClientInv, Fresh, Attempts
    <3>2. QED BY <1>2, <2>1, <3>1
  <2>5. QED BY <2>2, <2>3, <2>4 DEF Fresh
<1>9. \A m \in Attempts : way2[m] \subseteq way[m]
  OBVIOUS
<1>10. Ordered(r, way2)
  <2>1. \A q \in Range(st.buffer) : q.sub \in Attempts
    BY ClientFields, PushFields
  <2>2. QED BY <1>2, <1>9, <2>1 DEF ClientInv, Ordered
<1>11. Issued(r, way2)
  BY <1>2, <1>5 DEF ClientInv, Issued
<1>12. Confirmed(D, r, way2)
  <2>1. ASSUME NEW d \in D, r.ch[d].sid # 0
        PROVE  /\ \A q \in Range(r.buffer) : q.sub # r.ch[d].sid
               /\ r.ch[d].next # 0 =>
                    \A q \in way2[r.ch[d].sid] : r.ch[d].next <= q.seq
    <3>1. CASE d # c
      <4>1. r.ch[d] = st.ch[d] /\ st.ch[d].sid \in Attempts
        BY <1>2, <2>1, <3>1, OwnAttempt DEF ClientInv
      <4>2. QED BY <1>2, <1>9, <2>1, <4>1 DEF ClientInv, Confirmed
    <3>2. CASE d = c
      <4>1. \A q \in Range(r.buffer) : q.sub # n
        BY <1>1, <1>2 DEF ClientInv, Confirmed
      <4>2. ASSUME NEW q \in way2[n]
            PROVE  1 <= q.seq
        <5>1. q \in Coming(st, way, n) /\ q # p
          BY <1>1 DEF Coming
        <5>2. q \in Pushes /\ q.seq # p.seq
          BY <1>1, <1>3, <5>1, OneOfANumber DEF ClientInv, Issued
        <5>3. QED BY <1>3, <5>2, PushFields
      <4>3. QED BY <1>2, <1>3, <3>2, <4>1, <4>2
    <3>3. QED BY <3>1, <3>2
  <2>2. QED BY <2>1 DEF Confirmed
<1>13. ASSUME NEW i \in Rows, n \in live, Complete(r, way2, c)
       PROVE  RowRight(r, way2, c, i)
  <2>1. Complete(st, way, c)
    <3>1. ASSUME NEW s \in 0..(sent[n] - 1)
          PROVE  \E q \in Coming(st, way, n) : q.seq = s
      <4>1. CASE s = 0
        BY <1>3, <4>1
      <4>2. CASE s # 0
        <5>1. s \in 1..(sent[n] - 1)
          BY <4>2
        <5>2. QED BY <1>1, <1>2, <1>3, <1>5, <1>13, <5>1 DEF Complete
      <4>3. QED BY <4>1, <4>2
    <3>2. QED BY <1>4, <3>1 DEF Complete
  <2>2. RowRight(st, way, c, i)
    BY <1>13, <2>1 DEF ClientInv, Follows, ChannelFollows
  <2>3. Touching(r, way2, n, i) = Touching(st, way, n, i)
    <3>1. Coming(r, way2, n) = Coming(st, way, n) \ {p}
      <4>1. \A q \in Range(st.buffer) : q.sub # n
        BY <1>1 DEF ClientInv, Confirmed
      <4>2. QED BY <1>1, <1>2, <4>1 DEF Coming
    <3>2. QED BY <3>1 DEF Touching
  <2>4. CASE LastDeltaRight(st, way, c, i)
    BY <1>2, <2>3, <2>4 DEF RowRight, LastDeltaRight
  <2>5. CASE Touching(st, way, n, i) = {} /\ SnapshotRight(st, way, c, i)
    <3>1. /\ DOMAIN p.rows = cut[n]
          /\ IF i \in DOMAIN p.rows THEN p.rows[i] = store[c][i]
             ELSE p.more \/ store[c][i] = 0
      BY <1>3, <2>5 DEF SnapshotRight
    <3>2. r.ch[c].rows[i] = IF i \in DOMAIN p.rows THEN p.rows[i] ELSE 0
      BY <1>2 DEF Over, NoRows
    <3>3. r.page[n] = IF p.more THEN "asked" ELSE "none"
      BY <1>1, <1>2 DEF ClientStates
    <3>4. ReplicaRight(r, c, i)
      BY <1>2, <3>1, <3>2, <3>3 DEF ReplicaRight, Missing
    <3>5. QED BY <1>2, <1>3, <2>3, <2>5, <3>4 DEF RowRight
  <2>6. QED BY <1>4, <2>2, <2>4, <2>5 DEF RowRight
<1>14. Follows(D, r, way2)
  <2>1. ASSUME NEW d \in D \ {c}, r.ch[d].reg \in live, Complete(r, way2, d),
               NEW i \in Rows
        PROVE  RowRight(r, way2, d, i)
    <3>1. r.ch[d] = st.ch[d] /\ st.ch[d].reg \in Attempts /\ st.ch[d].reg # n
      BY <1>1, <1>2, OwnAttempt DEF ClientInv
    <3>2. Coming(r, way2, st.ch[d].reg) = Coming(st, way, st.ch[d].reg)
      BY <1>1, <1>2, <3>1 DEF Coming
    <3>3. r.page[st.ch[d].reg] = st.page[st.ch[d].reg]
      BY <1>2, <3>1 DEF ClientStates
    <3>4. Complete(st, way, d) /\ st.ch[d].reg \in live
      BY <2>1, <3>1, <3>2 DEF Complete
    <3>5. RowRight(st, way, d, i)
      BY <3>4 DEF ClientInv, Follows, ChannelFollows
    <3>6. QED BY <3>1, <3>2, <3>3, <3>5
              DEF RowRight, LastDeltaRight, SnapshotRight, ReplicaRight,
                  Missing, Touching
  <2>2. QED BY <1>2, <1>13, <2>1 DEF Follows, ChannelFollows
<1>15. QED BY <1>6, <1>7, <1>8, <1>10, <1>11, <1>12, <1>14 DEF ClientInv

\* Applying the delta a confirmed subscription is at, the first push that comes
\* for it, keeps the invariant.
LEMMA DeltaKeeps ==
  ASSUME NEW st \in ClientStates, NEW D \in SUBSET Channels,
         NEW way, NEW way2, ClientInv(D, st, way),
         NEW c \in D, NEW p \in Pushes, st.ch[c].sid = p.sub,
         p.kind # "snapshot", InSequence(st, c, p),
         \A n \in Attempts : way2[n] = IF n = p.sub THEN way[n] \ {p} ELSE way[n],
         p \in way[p.sub],
         NEW r, DeltaApplied(st, c, p, r)
  PROVE  ClientInv(D, r, way2)
<1> DEFINE n == st.ch[c].reg
<1>1. /\ n \in Attempts /\ n # 0 /\ n = p.sub /\ st.ch[c].sid = n
      /\ st.of[n] = c /\ st.req[n] = "done"
      /\ \A d \in Channels : st.ch[d].reg = n => d = c
  BY OwnAttempt, PushFields DEF ClientInv, Attempts
<1>2. /\ r \in ClientStates /\ r.buffer = st.buffer /\ r.req = st.req
      /\ r.of = st.of /\ r.attempts = st.attempts /\ r.released = st.released
      /\ r.shown = [d \in Channels |-> r.ch[d].rows]
      /\ r.page = st.page
      /\ r.ch[c].reg = n /\ r.ch[c].sid = n
      /\ r.ch[c].retry = st.ch[c].retry /\ r.ch[c].awaiting = st.ch[c].awaiting
      /\ r.ch[c].next = p.seq + 1 /\ r.ch[c].rows = Over(p.rows, st.ch[c].rows)
      /\ r.ch[c].gone = st.ch[c].gone \cup {i \in DOMAIN p.rows : p.rows[i] = 0}
      /\ \A d \in Channels \ {c} : r.ch[d] = st.ch[d]
  BY <1>1 DEF DeltaApplied
<1>3. /\ p \in Coming(st, way, n) /\ p.seq \in Nat /\ p.kind = "delta"
      /\ st.ch[c].next = p.seq /\ st.ch[c].next # 0
      /\ n \in live => p.seq < sent[n]
  BY <1>1, PushFields DEF ClientInv, Issued, Coming, InSequence
<1>4. r.ch[c].next # 0
  BY <1>2, <1>3
<1>5. \A m \in Attempts : Coming(r, way2, m) \subseteq Coming(st, way, m)
  BY <1>2 DEF Coming
<1>6. Coming(r, way2, n) = Coming(st, way, n) \ {p}
  <2>1. \A q \in Range(st.buffer) : q.sub # n
    BY <1>1 DEF ClientInv, Confirmed
  <2>2. QED BY <1>1, <1>2, <2>1 DEF Coming
<1>7. ASSUME NEW q \in Coming(r, way2, n)
       PROVE  q \in Pushes /\ q.seq \in Nat /\ p.seq + 1 <= q.seq
  <2>1. q \in Coming(st, way, n) /\ q # p
    BY <1>6
  <2>2. q \in Pushes /\ q.seq # p.seq
    BY <1>1, <1>3, <2>1, OneOfANumber DEF ClientInv, Issued
  <2>3. st.ch[c].next <= q.seq
    BY <2>1, NewToIt DEF ClientInv
  <2>4. QED BY <1>3, <2>2, <2>3, PushFields
<1>8. Registered(D, r)
  <2>1. ASSUME NEW d \in Channels
        PROVE  ChannelRegistered(D, r, d)
    <3>1. ChannelRegistered(D, st, d)
      BY DEF ClientInv, Registered
    <3>2. CASE d = c
      BY <1>1, <1>2, <3>1, <3>2 DEF ChannelRegistered
    <3>3. CASE d # c
      BY <1>2, <3>1, <3>3 DEF ChannelRegistered
    <3>4. QED BY <3>2, <3>3
  <2>2. QED BY <1>2, <2>1 DEF ClientInv, Registered
<1>9. Alive(r)
  <2>1. \A d \in Channels : r.ch[d].sid = st.ch[d].sid
    BY <1>1, <1>2
  <2>2. \A m \in Attempts : st.of[m] \in Channels
    BY ClientFields
  <2>3. QED BY <1>2, <2>1, <2>2 DEF ClientInv, Alive
<1>10. Fresh(D, r)
  <2>1. ChannelFresh(r, c)
    <3>1. n \in live => p.seq + 1 <= sent[n]
      BY <1>1, <1>3 DEF ClientInv, Alive
    <3>2. ~r.ch[c].awaiting /\ r.shown[c] = r.ch[c].rows
      BY <1>2, <1>3, ClientFields DEF ClientInv, Fresh, ChannelFresh
    <3>3. QED BY <1>1, <1>2, <1>4, <3>1, <3>2 DEF ChannelFresh
  <2>2. ASSUME NEW d \in D \ {c}
        PROVE  ChannelFresh(r, d)
    <3>1. ChannelFresh(st, d) /\ r.ch[d] = st.ch[d]
      BY <1>2 DEF ClientInv, Fresh
    <3>2. r.page = st.page /\ r.shown[d] = r.ch[d].rows
      BY <1>2
    <3>3. QED BY <3>1, <3>2 DEF ChannelFresh
  <2>3. QED BY <1>2, <2>1, <2>2 DEF ClientInv, Fresh
<1>11. \A m \in Attempts : way2[m] \subseteq way[m]
  OBVIOUS
<1>12. Ordered(r, way2)
  <2>1. \A q \in Range(st.buffer) : q.sub \in Attempts
    BY ClientFields, PushFields
  <2>2. QED BY <1>2, <1>11, <2>1 DEF ClientInv, Ordered
<1>13. Issued(r, way2)
  BY <1>2, <1>5 DEF ClientInv, Issued
<1>14. Confirmed(D, r, way2)
  <2>1. ASSUME NEW d \in D, r.ch[d].sid # 0
        PROVE  /\ \A q \in Range(r.buffer) : q.sub # r.ch[d].sid
               /\ r.ch[d].next # 0 =>
                    \A q \in way2[r.ch[d].sid] : r.ch[d].next <= q.seq
    <3>1. CASE d # c
      <4>1. r.ch[d] = st.ch[d] /\ st.ch[d].sid \in Attempts
        BY <1>2, <2>1, <3>1, OwnAttempt DEF ClientInv
      <4>2. QED BY <1>2, <1>11, <2>1, <4>1 DEF ClientInv, Confirmed
    <3>2. CASE d = c
      <4>1. \A q \in Range(r.buffer) : q.sub # n
        BY <1>1, <1>2 DEF ClientInv, Confirmed
      <4>2. \A q \in way2[n] : r.ch[c].next <= q.seq
        BY <1>2, <1>7 DEF Coming
      <4>3. QED BY <1>2, <3>2, <4>1, <4>2
    <3>3. QED BY <3>1, <3>2
  <2>2. QED BY <2>1 DEF Confirmed
<1>15. ASSUME NEW i \in Rows, n \in live, Complete(r, way2, c)
       PROVE  RowRight(r, way2, c, i)
  <2>1. Complete(st, way, c)
    <3>1. ASSUME NEW s \in p.seq..(sent[n] - 1)
          PROVE  \E q \in Coming(st, way, n) : q.seq = s
      <4>1. CASE s = p.seq
        BY <1>3, <4>1
      <4>2. CASE s # p.seq
        <5>1. sent[n] \in Nat
          BY <1>1 DEF ClientInv, Alive
        <5>2. s \in (p.seq + 1)..(sent[n] - 1)
          BY <1>3, <4>2, <5>1
        <5>3. QED BY <1>1, <1>2, <1>5, <1>15, <5>2 DEF Complete
      <4>3. QED BY <4>1, <4>2
    <3>2. QED BY <1>3, <3>1 DEF Complete
  <2>2. RowRight(st, way, c, i)
    BY <1>15, <2>1 DEF ClientInv, Follows, ChannelFollows
  <2>3. Touching(r, way2, n, i) = Touching(st, way, n, i) \ {p}
    BY <1>6 DEF Touching
  <2>4. ASSUME i \in DOMAIN p.rows, p.rows[i] = store[c][i],
               Touching(r, way2, n, i) = {}
        PROVE  RowRight(r, way2, c, i)
    <3>1. r.ch[c].rows[i] = p.rows[i] /\ r.page[n] \in Pages
      BY <1>1, <1>2, <2>4, ClientFields DEF Over
    <3>2. ~Missing(r, c, i)
      BY <1>2, <2>4, <3>1 DEF Missing
    <3>3. ReplicaRight(r, c, i)
      BY <1>2, <2>4, <3>1, <3>2 DEF ReplicaRight, Pages
    <3>4. QED BY <1>2, <1>4, <2>4, <3>3 DEF RowRight
  <2>5. CASE LastDeltaRight(st, way, c, i)
    <3>1. PICK q \in Touching(st, way, n, i) :
            /\ q.rows[i] = store[c][i]
            /\ \A x \in Touching(st, way, n, i) : x.seq <= q.seq
      BY <2>5 DEF LastDeltaRight
    <3>2. CASE q = p
      <4>1. ASSUME NEW x \in Touching(r, way2, n, i)
            PROVE  FALSE
        <5>1. x \in Touching(st, way, n, i) /\ x \in Coming(r, way2, n)
          BY <2>3 DEF Touching
        <5>2. x.seq <= p.seq /\ x.seq \in Nat /\ p.seq + 1 <= x.seq
          BY <1>7, <3>1, <3>2, <5>1
        <5>3. QED BY <1>3, <5>2
      <4>2. QED BY <2>4, <3>1, <3>2, <4>1 DEF Touching
    <3>3. CASE q # p
      BY <1>2, <2>3, <3>1, <3>3 DEF RowRight, LastDeltaRight
    <3>4. QED BY <3>2, <3>3
  <2>6. CASE Touching(st, way, n, i) = {} /\ ReplicaRight(st, c, i)
    <3>1. i \notin DOMAIN p.rows
      BY <1>3, <2>6 DEF Touching
    <3>2. /\ r.ch[c].rows[i] = st.ch[c].rows[i]
          /\ i \in r.ch[c].gone <=> i \in st.ch[c].gone
      BY <1>2, <3>1 DEF Over
    <3>3. ReplicaRight(r, c, i)
      BY <1>2, <2>6, <3>2 DEF ReplicaRight, Missing
    <3>4. QED BY <1>2, <1>4, <2>3, <2>6, <3>3 DEF RowRight
  <2>7. QED BY <1>3, <2>2, <2>5, <2>6 DEF RowRight
<1>16. Follows(D, r, way2)
  <2>1. ASSUME NEW d \in D \ {c}, r.ch[d].reg \in live, Complete(r, way2, d),
               NEW i \in Rows
        PROVE  RowRight(r, way2, d, i)
    <3>1. r.ch[d] = st.ch[d] /\ st.ch[d].reg \in Attempts /\ st.ch[d].reg # n
      BY <1>1, <1>2, OwnAttempt DEF ClientInv
    <3>2. Coming(r, way2, st.ch[d].reg) = Coming(st, way, st.ch[d].reg)
      BY <1>1, <1>2, <3>1 DEF Coming
    <3>3. r.page = st.page
      BY <1>2
    <3>4. Complete(st, way, d) /\ st.ch[d].reg \in live
      BY <2>1, <3>1, <3>2 DEF Complete
    <3>5. RowRight(st, way, d, i)
      BY <3>4 DEF ClientInv, Follows, ChannelFollows
    <3>6. QED BY <3>1, <3>2, <3>3, <3>5
              DEF RowRight, LastDeltaRight, SnapshotRight, ReplicaRight,
                  Missing, Touching
  <2>2. QED BY <1>2, <1>15, <2>1 DEF Follows, ChannelFollows
<1>17. QED BY <1>8, <1>9, <1>10, <1>12, <1>13, <1>14, <1>16 DEF ClientInv

\* What processing a push comes to.
Processed(st, p, r) ==
  \/ /\ \A c \in desired : st.ch[c].sid # p.sub
     /\ IF Pending(st) THEN r = BufferPush(st, p) ELSE r = st
  \/ \E c \in desired :
       /\ st.ch[c].sid = p.sub
       /\ \/ p.kind = "snapshot" /\ SnapshotApplied(st, c, p, r)
          \/ p.kind # "snapshot" /\ st.ch[c].awaiting /\ r = st
          \/ /\ p.kind # "snapshot" /\ InSequence(st, c, p)
             /\ DeltaApplied(st, c, p, r)
          \/ /\ p.kind # "snapshot" /\ ~st.ch[c].awaiting
             /\ ~InSequence(st, c, p) /\ ResnapshottedAs(st, c, r)

\* The cases of processPush().
LEMMA Processes ==
  ASSUME NEW st \in ClientStates, NEW p \in Pushes, desired \subseteq Channels
  PROVE  Processed(st, p, ProcessPush(st, p))
<1> DEFINE owners == {c \in desired : st.ch[c].sid = p.sub}
           c == CHOOSE o \in owners : TRUE
           r == ProcessPush(st, p)
<1>1. r = IF owners = {} THEN IF Pending(st) THEN BufferPush(st, p) ELSE st
          ELSE IF p.kind = "snapshot" THEN ApplySnapshot(st, c, p)
          ELSE IF st.ch[c].awaiting THEN st
          ELSE IF InSequence(st, c, p) THEN ApplyDelta(st, c, p)
          ELSE Resnapshot(st, c)
  BY DEF ProcessPush
<1> HIDE DEF r
<1>2. CASE owners = {}
  BY <1>1, <1>2 DEF Processed, r
<1>3. CASE owners # {}
  <2>1. c \in desired /\ c \in Channels /\ st.ch[c].sid = p.sub
    BY <1>3
  <2> HIDE DEF c
  <2>2. CASE p.kind = "snapshot"
    <3>1. SnapshotApplied(st, c, p, r)
      BY <1>1, <1>3, <2>1, <2>2, AppliesSnapshot
    <3>2. QED BY <2>1, <2>2, <3>1 DEF Processed, r
  <2>3. CASE p.kind # "snapshot" /\ st.ch[c].awaiting
    BY <1>1, <1>3, <2>1, <2>3 DEF Processed, r
  <2>4. CASE p.kind # "snapshot" /\ ~st.ch[c].awaiting /\ InSequence(st, c, p)
    <3>1. DeltaApplied(st, c, p, r)
      BY <1>1, <1>3, <2>1, <2>4, AppliesDelta
    <3>2. QED BY <2>1, <2>4, <3>1 DEF Processed, r
  <2>5. CASE p.kind # "snapshot" /\ ~st.ch[c].awaiting /\ ~InSequence(st, c, p)
    <3>1. ResnapshottedAs(st, c, r)
      BY <1>1, <1>3, <2>1, <2>5, Resnapshots
    <3>2. QED BY <2>1, <2>5, <3>1 DEF Processed, r
  <2>6. QED BY <2>2, <2>3, <2>4, <2>5
<1>4. QED BY <1>2, <1>3

\* Processing a push gives a client state, and takes no attempt back.
LEMMA ProcessTyped ==
  ASSUME NEW st \in ClientStates, NEW p \in Pushes, desired \subseteq Channels
  PROVE  /\ ProcessPush(st, p) \in ClientStates
         /\ st.attempts <= ProcessPush(st, p).attempts
<1> DEFINE r == ProcessPush(st, p)
<1>1. Processed(st, p, r)
  BY Processes
<1>2. st.attempts \in Nat
  BY ClientFields
<1>3. /\ BufferPush(st, p) \in ClientStates
      /\ BufferPush(st, p).attempts = st.attempts
  BY BufferPushes
<1> HIDE DEF r
<1>4. \A c : SnapshotApplied(st, c, p, r) => r \in ClientStates /\ r.attempts = st.attempts
  BY DEF SnapshotApplied
<1>5. \A c : DeltaApplied(st, c, p, r) => r \in ClientStates /\ r.attempts = st.attempts
  BY DEF DeltaApplied
<1>6. \A c : ResnapshottedAs(st, c, r) => r \in ClientStates /\ st.attempts <= r.attempts
  BY DEF ResnapshottedAs
<1>7. r \in ClientStates /\ st.attempts <= r.attempts
  BY <1>1, <1>2, <1>3, <1>4, <1>5, <1>6 DEF Processed
<1>8. QED BY <1>7 DEF r

\* Without its oldest push a buffer has no others, and its order.
LEMMA WithoutTheOldest ==
  ASSUME NEW b \in Seq(Pushes), b # <<>>
  PROVE  /\ Range(Tail(b)) \subseteq Range(b)
         /\ BufferOrdered(b) => BufferOrdered(Tail(b))
<1>1. /\ DOMAIN Tail(b) = 1..(Len(b) - 1) /\ DOMAIN b = 1..Len(b)
      /\ Len(b) \in Nat
      /\ \A k \in 1..(Len(b) - 1) : Tail(b)[k] = b[k + 1]
  <2>1. Tail(b) \in Seq(Pushes) /\ Len(Tail(b)) = Len(b) - 1
        /\ \A k \in 1..Len(Tail(b)) : Tail(b)[k] = b[k + 1]
    BY HeadTailProperties
  <2>2. QED BY <2>1, LenProperties
<1>2. \A k \in 1..(Len(b) - 1) : k + 1 \in 1..Len(b)
  BY <1>1
<1>3. Range(Tail(b)) \subseteq Range(b)
  BY <1>1, <1>2 DEF Range
<1>4. ASSUME BufferOrdered(b), NEW j \in DOMAIN Tail(b), NEW k \in DOMAIN Tail(b),
             j < k, Tail(b)[j].sub = Tail(b)[k].sub
      PROVE  Tail(b)[j].seq < Tail(b)[k].seq
  <2>1. /\ j + 1 \in DOMAIN b /\ k + 1 \in DOMAIN b /\ j + 1 < k + 1
        /\ Tail(b)[j] = b[j + 1] /\ Tail(b)[k] = b[k + 1]
    BY <1>1, <1>2, <1>4
  <2>2. QED BY <1>4, <2>1 DEF BufferOrdered
<1>5. QED BY <1>3, <1>4 DEF BufferOrdered

\* A push that is held instead of delivered keeps the invariant, even when it
\* pushes the oldest one out.
LEMMA BufferKeeps ==
  ASSUME NEW st \in ClientStates, NEW p \in Pushes, NEW D \in SUBSET Channels,
         NEW way, NEW way2, ClientInv(D, st, way),
         \A n \in Attempts : way2[n] = IF n = p.sub THEN way[n] \ {p} ELSE way[n],
         p \in way[p.sub], \A q \in way2[p.sub] : p.seq < q.seq,
         \A c \in D : st.ch[c].sid # p.sub
  PROVE  ClientInv(D, BufferPush(st, p), way2)
<1> DEFINE b == Append(st.buffer, p)
           r == BufferPush(st, p)
           m == Len(st.buffer)
<1>1. /\ st.buffer \in Seq(Pushes) /\ m \in Nat
      /\ DOMAIN st.buffer = 1..m /\ p.sub \in Attempts
      /\ \A k \in 1..m : st.buffer[k] \in Range(st.buffer)
  BY ClientFields, PushFields
<1>2. /\ b \in Seq(Pushes) /\ Len(b) = m + 1 /\ DOMAIN b = 1..(m + 1)
      /\ \A k \in 1..m : b[k] = st.buffer[k]
      /\ b[m + 1] = p /\ b # <<>>
  BY <1>1, AppendProperties, LenProperties
<1>3. Range(b) \subseteq Range(st.buffer) \cup {p}
  <2>1. ASSUME NEW q \in Range(b)
        PROVE  q \in Range(st.buffer) \cup {p}
    <3>1. PICK k \in 1..(m + 1) : b[k] = q
      BY <1>2 DEF Range
    <3>2. k \in 1..m \/ k = m + 1
      BY <1>1
    <3>3. QED BY <1>1, <1>2, <3>1, <3>2
  <2>2. QED BY <2>1
<1>4. BufferOrdered(b)
  <2>1. ASSUME NEW j \in DOMAIN b, NEW k \in DOMAIN b, j < k, b[j].sub = b[k].sub
        PROVE  b[j].seq < b[k].seq
    <3>1. j \in 1..m /\ b[j] = st.buffer[j]
      BY <1>1, <1>2, <2>1
    <3>2. CASE k = m + 1
      <4>1. b[k] = p /\ st.buffer[j] \in Range(st.buffer)
        BY <1>1, <1>2, <3>1, <3>2
      <4>2. QED BY <2>1, <3>1, <4>1 DEF ClientInv, Ordered
    <3>3. CASE k # m + 1
      <4>1. k \in 1..m /\ b[k] = st.buffer[k]
        BY <1>1, <1>2, <3>3
      <4>2. QED BY <1>1, <2>1, <3>1, <4>1 DEF ClientInv, Ordered, BufferOrdered
    <3>4. QED BY <3>2, <3>3
  <2>2. QED BY <2>1 DEF BufferOrdered
<1>5. /\ r \in ClientStates /\ SameBut(st, r)
      /\ r.buffer = IF Len(b) > MaxBuffered THEN Tail(b) ELSE b
  BY BufferPushes DEF SameBut
<1> HIDE DEF b, r
<1>6. Range(r.buffer) \subseteq Range(st.buffer) \cup {p} /\ BufferOrdered(r.buffer)
  BY <1>2, <1>3, <1>4, <1>5, WithoutTheOldest
<1>7. \A n \in Attempts : Coming(r, way2, n) \subseteq Coming(st, way, n)
  BY <1>6 DEF Coming
<1>8. Ordered(r, way2)
  <2>1. ASSUME NEW q \in Range(r.buffer), NEW x \in way2[q.sub]
        PROVE  q.seq < x.seq
    <3>1. CASE q = p
      BY <2>1, <3>1
    <3>2. CASE q \in Range(st.buffer)
      <4>1. q.sub \in Attempts
        BY <3>2, ClientFields, PushFields
      <4>2. x \in way[q.sub]
        BY <2>1, <4>1
      <4>3. QED BY <3>2, <4>2 DEF ClientInv, Ordered
    <3>3. QED BY <1>6, <3>1, <3>2
  <2>2. \A n \in Attempts : way2[n] \subseteq way[n]
    OBVIOUS
  <2>3. QED BY <1>6, <2>1, <2>2 DEF ClientInv, Ordered
<1>9. Confirmed(D, r, way2)
  <2>1. \A c \in D : st.ch[c].sid # 0 => st.ch[c].sid \in Attempts
    BY OwnAttempt DEF ClientInv
  <2>2. \A c \in D : r.ch[c] = st.ch[c]
    BY <1>5 DEF SameBut
  <2>3. ASSUME NEW c \in D, st.ch[c].sid # 0
        PROVE  \A q \in Range(r.buffer) : q.sub # st.ch[c].sid
    BY <1>6, <2>3 DEF ClientInv, Confirmed
  <2>4. QED BY <2>1, <2>2, <2>3 DEF ClientInv, Confirmed
<1>10. ClientInv(D, r, way2)
  BY <1>5, <1>7, <1>8, <1>9, LosesPushes
<1>11. QED BY <1>10 DEF r

\* A gap: the channel starts over.
LEMMA ResnapshotSupersedes ==
  ASSUME NEW st \in ClientStates, NEW D \in SUBSET Channels, NEW way,
         ClientInv(D, st, way), NEW c \in D, NEW r, ResnapshottedAs(st, c, r),
         r.attempts <= MaxAttempts
  PROVE  r \in ClientStates /\ Supersedes(D, st, {c}, D, r)
<1>1. r \in ClientStates
  BY DEF ResnapshottedAs
<1>2. ASSUME NEW d \in D \ {c}
      PROVE  /\ r.ch[d] = st.ch[d]
             /\ r.ch[d].next # 0 => r.shown[d] = r.ch[d].rows
             /\ r.page[st.ch[d].reg] = st.page[st.ch[d].reg]
  <2>1. r.ch[d] = st.ch[d] /\ ChannelFresh(st, d)
    BY DEF ResnapshottedAs, ClientInv, Fresh
  <2>2. r.ch[d].next # 0 => r.shown[d] = r.ch[d].rows
    <3>1. Dynamic \in BOOLEAN
      BY DeltaAssumption DEF DeltaAssumption
    <3>2. CASE Dynamic
      <4>1. r.shown = [e \in Channels |-> r.ch[e].rows]
        BY <3>2 DEF ResnapshottedAs
      <4>2. QED BY <4>1
    <3>3. CASE ~Dynamic
      <4>1. r.shown = st.shown
        BY <3>3 DEF ResnapshottedAs
      <4>2. QED BY <2>1, <4>1 DEF ChannelFresh
    <3>4. QED BY <3>1, <3>2, <3>3
  <2>3. st.ch[d].reg \in Attempts /\ st.ch[d].reg # st.ch[c].sid
    BY OwnAttempt DEF ClientInv
  <2>4. QED BY <2>1, <2>2, <2>3 DEF ResnapshottedAs
<1>3. \A d \in Channels \ D : r.ch[d].reg = 0 /\ r.ch[d].sid = 0 /\ ~r.ch[d].retry
  <2>1. ASSUME NEW d \in Channels \ D
        PROVE  st.ch[d].reg = 0 /\ st.ch[d].sid = 0 /\ ~st.ch[d].retry
    BY DEF ClientInv, Registered, ChannelRegistered
  <2>2. QED BY <2>1 DEF ResnapshottedAs
<1>4. \A d \in D : st.ch[d].sid # 0 => d \in D \ {c} \/ st.ch[d].sid \in r.released
  <2>1. \A d \in D : st.ch[d].sid # 0 => st.ch[d].sid \in Attempts
    BY OwnAttempt DEF ClientInv
  <2>2. QED BY <2>1 DEF ResnapshottedAs
<1>5. /\ {c} \subseteq D /\ st.attempts <= r.attempts
      /\ r.ch[c].reg \in NewAttempts(st, r)
      /\ r.ch[c].reg \in Attempts => r.of[r.ch[c].reg] = c
      /\ r.ch[c].sid = 0 /\ ~r.ch[c].retry /\ r.ch[c].next = 0
      /\ \A n \in Attempts :
           IF n \in NewAttempts(st, r)
           THEN r.req[n] = "asked"
           ELSE r.req[n] = st.req[n] /\ r.of[n] = st.of[n]
      /\ r.buffer = st.buffer
  BY DEF ResnapshottedAs
<1>6. \A n \in Attempts : r.page[n] \in {st.page[n], "none"}
  BY DEF ResnapshottedAs
<1>7. st.released \subseteq r.released
  BY ClientFields DEF ResnapshottedAs
<1>8. NothingNewShown(st, r)
  <2>1. ASSUME NEW d \in Channels
        PROVE  r.ch[d].rows \in {st.ch[d].rows, NoRows}
    BY DEF ResnapshottedAs
  <2>2. r.shown = st.shown \/ r.shown = [d \in Channels |-> r.ch[d].rows]
    BY DeltaAssumption DEF ResnapshottedAs, DeltaAssumption
  <2>3. \A d \in Channels : r.shown[d] \in {st.shown[d], r.ch[d].rows}
    BY <2>2
  <2>4. QED BY <2>1, <2>3 DEF NothingNewShown
<1>9. Supersedes(D, st, {c}, D, r)
  <2>1. \A d \in {c} :
          /\ r.ch[d].reg \in NewAttempts(st, r)
          /\ r.ch[d].reg \in Attempts => r.of[r.ch[d].reg] = d
          /\ r.ch[d].sid = 0 /\ ~r.ch[d].retry /\ r.ch[d].next = 0
    BY <1>5
  <2>2. r.buffer = st.buffer \/ (r.buffer = <<>> /\ D = {c})
    BY <1>5
  <2>3. {c} \subseteq D /\ D \subseteq D \cup {c}
    OBVIOUS
  <2>4. QED BY <1>2, <1>3, <1>4, <1>5, <1>6, <1>7, <1>8, <2>1, <2>2, <2>3
            DEF Supersedes
<1>10. QED BY <1>1, <1>9

\* It keeps the invariant.
LEMMA ResnapshotKeeps ==
  ASSUME NEW st \in ClientStates, NEW D \in SUBSET Channels, NEW way,
         ClientInv(D, st, way), NEW c \in D, NEW r, ResnapshottedAs(st, c, r),
         r.attempts <= MaxAttempts
  PROVE  ClientInv(D, r, way)
<1>1. {c} \in SUBSET Channels
  OBVIOUS
<1>2. r \in ClientStates /\ Supersedes(D, st, {c}, D, r)
  BY ResnapshotSupersedes
<1>3. QED BY <1>1, <1>2, SupersedesKeeps

\* Processing the first push that comes for a subscription keeps the invariant.
LEMMA ProcessKeeps ==
  ASSUME desired \subseteq Channels,
         NEW st \in ClientStates, NEW p \in Pushes,
         NEW way, NEW way2, ClientInv(desired, st, way),
         \A n \in Attempts : way2[n] = IF n = p.sub THEN way[n] \ {p} ELSE way[n],
         p \in way[p.sub], \A q \in way2[p.sub] : p.seq < q.seq,
         ProcessPush(st, p).attempts <= MaxAttempts
  PROVE  ClientInv(desired, ProcessPush(st, p), way2)
<1> DEFINE r == ProcessPush(st, p)
<1>1. Processed(st, p, r) /\ r.attempts <= MaxAttempts
  BY Processes
<1> HIDE DEF r
<1>2. ClientInv(desired, st, way2)
  <2>1. \A n \in Attempts : way2[n] \subseteq way[n]
    OBVIOUS
  <2>2. QED BY <2>1, LosesOnTheWay
<1>3. CASE \A c \in desired : st.ch[c].sid # p.sub
  <2>1. r = BufferPush(st, p) \/ r = st
    BY <1>1, <1>3 DEF Processed
  <2>2. CASE r = st
    BY <1>2, <2>2 DEF r
  <2>3. CASE r = BufferPush(st, p)
    <3>1. ClientInv(desired, BufferPush(st, p), way2)
      BY <1>3, BufferKeeps
    <3>2. QED BY <2>3, <3>1 DEF r
  <2>4. QED BY <2>1, <2>2, <2>3
<1>4. ASSUME NEW c \in desired, st.ch[c].sid = p.sub
      PROVE  /\ p.kind = "snapshot" /\ SnapshotApplied(st, c, p, r) =>
                  ClientInv(desired, r, way2)
             /\ p.kind # "snapshot" /\ InSequence(st, c, p) /\ DeltaApplied(st, c, p, r) =>
                  ClientInv(desired, r, way2)
             /\ ResnapshottedAs(st, c, r) => ClientInv(desired, r, way2)
  <2>1. ASSUME p.kind = "snapshot", SnapshotApplied(st, c, p, r)
        PROVE  ClientInv(desired, r, way2)
    BY <1>4, <2>1, SnapshotKeeps
  <2>2. ASSUME p.kind # "snapshot", InSequence(st, c, p), DeltaApplied(st, c, p, r)
        PROVE  ClientInv(desired, r, way2)
    BY <1>4, <2>2, DeltaKeeps
  <2>3. ASSUME ResnapshottedAs(st, c, r)
        PROVE  ClientInv(desired, r, way2)
    BY <1>1, <1>2, <2>3, ResnapshotKeeps
  <2>4. QED BY <2>1, <2>2, <2>3
<1>5. ClientInv(desired, r, way2)
  <2>1. r = st => ClientInv(desired, r, way2)
    BY <1>2
  <2> HIDE <1>2
  <2>2. QED BY <1>1, <1>3, <1>4, <2>1 DEF Processed, r
<1>6. QED BY <1>5 DEF r

\* The pushes that still come when k of the pushes held for subscription n have
\* been replayed.
WayAfter(n, matched, k) ==
  [m \in Attempts |->
     IF m = n THEN {matched[j] : j \in (k + 1)..Len(matched)} \cup Range(wire[n])
     ELSE Range(wire[m])]

\* The held pushes of n are in order, and before those on their way.
HeldFor(n, matched) ==
  /\ matched \in Seq(Pushes)
  /\ \A j \in 1..Len(matched) : matched[j].sub = n
  /\ \A j, k \in 1..Len(matched) : j < k => matched[j].seq < matched[k].seq
  /\ \A j \in 1..Len(matched) : \A q \in Range(wire[n]) : matched[j].seq < q.seq

\* Replaying the held pushes of a subscription keeps the invariant, within the
\* bound on attempts.
LEMMA ReplayKeepsInv ==
  ASSUME desired \subseteq Channels, NEW n \in Attempts, NEW matched,
         HeldFor(n, matched), NEW st \in ClientStates,
         ClientInv(desired, st, WayAfter(n, matched, 0))
  PROVE  LET r == Replayed(st, matched) IN
         /\ r \in ClientStates
         /\ r.attempts <= MaxAttempts => ClientInv(desired, r, Way)
<1> DEFINE m == Len(matched)
           S == [k \in 0..m |->
                   {s \in ClientStates :
                      s.attempts <= MaxAttempts =>
                        ClientInv(desired, s, WayAfter(n, matched, k))}]
<1>1. /\ m \in Nat /\ \A j \in 1..m : /\ matched[j] \in Pushes
                                      /\ matched[j].sub = n
                                      /\ matched[j].seq \in Nat
  BY LenProperties, ElementOfSeq, PushFields DEF HeldFor
<1>2. st \in S[0]
  BY <1>1
<1>3. ASSUME NEW k \in 1..m, NEW s \in S[k - 1]
      PROVE  ProcessPush(s, matched[k]) \in S[k]
  <2> DEFINE p == matched[k]
             r == ProcessPush(s, p)
             way == WayAfter(n, matched, k - 1)
             way2 == WayAfter(n, matched, k)
  <2>1. /\ p \in Pushes /\ p.sub = n /\ p.seq \in Nat
        /\ k - 1 \in 0..m /\ k \in 0..m
    BY <1>1
  <2>2. s \in ClientStates /\ (s.attempts <= MaxAttempts => ClientInv(desired, s, way))
    BY <2>1
  <2>3. r \in ClientStates /\ s.attempts <= r.attempts
    BY <2>1, <2>2, ProcessTyped
  <2>4. \A q \in way2[n] : p.seq < q.seq
    BY <1>1 DEF WayAfter, HeldFor
  <2>5. p \in way[n]
    BY <1>1, <2>1 DEF WayAfter
  <2>6. way2[n] = way[n] \ {p}
    <3>1. k..m = {k} \cup (k + 1)..m /\ (k - 1) + 1 = k
      BY <1>1
    <3>2. way[n] = {p} \cup way2[n]
      BY <3>1 DEF WayAfter
    <3>3. p \notin way2[n]
      BY <2>1, <2>4
    <3>4. QED BY <3>2, <3>3
  <2>7. \A x \in Attempts : way2[x] = IF x = n THEN way[x] \ {p} ELSE way[x]
    BY <2>6 DEF WayAfter
  <2> HIDE DEF p, way, way2
  <2>8. ASSUME r.attempts <= MaxAttempts
        PROVE  ClientInv(desired, r, way2)
    <3>1. s.attempts <= MaxAttempts
      BY <2>2, <2>3, <2>8, ClientFields, DeltaAssumption DEF DeltaAssumption
    <3>2. ClientInv(desired, s, way)
      BY <2>2, <3>1
    <3>3. QED BY <2>1, <2>2, <2>4, <2>5, <2>7, <2>8, <3>2, ProcessKeeps
  <2>9. QED BY <2>1, <2>3, <2>8 DEF p, way2
<1> HIDE DEF S
<1>4. Replayed(st, matched) \in S[m]
  BY <1>1, <1>2, <1>3, ReplayKeeps
<1>5. WayAfter(n, matched, m) = Way
  <2>1. (m + 1)..Len(matched) = {}
    BY <1>1
  <2>2. {matched[j] : j \in (m + 1)..Len(matched)} = {}
    BY <2>1
  <2>3. QED BY <2>2 DEF WayAfter, Way
<1>6. QED BY <1>1, <1>4, <1>5 DEF S

\* Setting aside the pushes held for a subscription that is being confirmed, and
\* confirming it, keeps the invariant.
LEMMA SetsAside ==
  ASSUME Client \in ClientStates, desired \subseteq Channels,
         ClientInv(desired, Client, Way), NEW n \in Attempts,
         req[n] = "acked", Current(n)
  PROVE  LET st == [Client EXCEPT !.req[n] = "done", !.ch[of[n]].sid = n]
             matched == PushesOf(buffer, {n})
             u == [st EXCEPT !.buffer = PushesOf(buffer, Attempts \ {n})]
         IN  /\ u \in ClientStates /\ st.buffer = buffer
             /\ HeldFor(n, matched)
             /\ ClientInv(desired, u, WayAfter(n, matched, 0))
             /\ \A j \in 1..Len(matched) : matched[j] \in Range(buffer)
             /\ u.shown = shown /\ u.page = page /\ u.attempts = attempts
             /\ u.req[n] = "done"
             /\ u.ch[of[n]].sid = n /\ u.ch[of[n]].next = ch[of[n]].next
             /\ ch[of[n]].sid = 0
             /\ \A d \in Channels \ {of[n]} : u.ch[d] = ch[d]
             /\ u.ch[of[n]].reg = n /\ SameChannel(u.ch[of[n]], ch[of[n]])
             /\ \A m \in Attempts \ {n} : u.req[m] = req[m]
             /\ \A m \in Attempts :
                  Coming(u, WayAfter(n, matched, 0), m) = Coming(Client, Way, m)
<1> DEFINE c == of[n]
           matched == PushesOf(buffer, {n})
           others == PushesOf(buffer, Attempts \ {n})
           way == WayAfter(n, matched, 0)
           a == [Client EXCEPT !.buffer = others]
           st == [Client EXCEPT !.req[n] = "done", !.ch[of[n]].sid = n]
           u == [st EXCEPT !.buffer = others]
           req2 == [req EXCEPT ![n] = "done"]
           ch2 == [ch EXCEPT ![c] = [ch[c] EXCEPT !.sid = n]]
<1>1. /\ ch \in [Channels -> ChannelStates] /\ buffer \in Buffers
      /\ shown \in [Channels -> [Rows -> Values]] /\ attempts \in Nat
      /\ req \in [Attempts -> Statuses] /\ of \in [Attempts -> Channels]
      /\ page \in [Attempts -> Pages] /\ released \in SUBSET Attempts
  BY DEF Client, ClientStates
<1>2. c \in desired /\ c \in Channels /\ ch[c].reg = n /\ ch[c] \in ChannelStates
  BY <1>1 DEF Current
<1>3. buffer \in Seq(Pushes) /\ Len(buffer) <= MaxBuffered /\ Len(buffer) \in Nat
      /\ DOMAIN buffer = 1..Len(buffer)
  BY <1>1, LenProperties DEF Buffers
<1>4. ChosenFrom(Pushes, buffer, {n}, matched) /\ ChosenFrom(Pushes, buffer, Attempts \ {n}, others)
  BY <1>3, ChosenPushes
<1> HIDE DEF matched, others
<1>5. BufferOrdered(buffer)
  BY DEF ClientInv, Ordered, Client
<1>6. HeldFor(n, matched)
  <2>1. matched \in Seq(Pushes) /\ DOMAIN matched = 1..Len(matched)
    BY <1>4, LenProperties DEF ChosenFrom
  <2>2. \A j \in 1..Len(matched) : matched[j] \in Range(buffer) /\ matched[j].sub = n
    <3>1. \A j \in 1..Len(matched) : matched[j] \in Range(matched)
      BY <2>1 DEF Range
    <3>2. QED BY <1>4, <3>1 DEF ChosenFrom
  <2>3. ASSUME NEW j \in 1..Len(matched), NEW k \in 1..Len(matched), j < k
        PROVE  matched[j].seq < matched[k].seq
    <3>1. PICK x \in DOMAIN buffer, y \in DOMAIN buffer :
            x < y /\ matched[j] = buffer[x] /\ matched[k] = buffer[y]
      <4>1. j \in DOMAIN matched /\ k \in DOMAIN matched
        BY <2>1
      <4>2. QED BY <1>4, <2>3, <4>1 DEF ChosenFrom
    <3>2. buffer[x].sub = buffer[y].sub
      BY <2>2, <3>1
    <3>3. QED BY <1>5, <3>1, <3>2 DEF BufferOrdered
  <2>4. \A j \in 1..Len(matched) : \A q \in Range(wire[n]) : matched[j].seq < q.seq
    BY <2>2 DEF ClientInv, Ordered, Client, Way
  <2>5. QED BY <2>1, <2>2, <2>3, <2>4 DEF HeldFor
<1>7. /\ others \in Buffers /\ BufferOrdered(others)
      /\ Range(others) = {p \in Range(buffer) : p.sub \in Attempts \ {n}}
  <2>1. others \in Seq(Pushes) /\ Len(others) <= Len(buffer) /\ Len(others) \in Nat
    BY <1>4, LenProperties DEF ChosenFrom
  <2>2. others \in Buffers
    BY <1>3, <2>1, DeltaAssumption DEF DeltaAssumption, Buffers
  <2>3. BufferOrdered(others)
    <3>1. ASSUME NEW j \in DOMAIN others, NEW k \in DOMAIN others, j < k,
                 others[j].sub = others[k].sub
          PROVE  others[j].seq < others[k].seq
      <4>1. PICK x \in DOMAIN buffer, y \in DOMAIN buffer :
              x < y /\ others[j] = buffer[x] /\ others[k] = buffer[y]
        BY <1>4, <3>1 DEF ChosenFrom
      <4>2. QED BY <1>5, <3>1, <4>1 DEF BufferOrdered
    <3>2. QED BY <3>1 DEF BufferOrdered
  <2>4. QED BY <1>4, <2>2, <2>3 DEF ChosenFrom
<1>8. /\ way[n] = {p \in Range(buffer) : p.sub = n} \cup Range(wire[n])
      /\ \A m \in Attempts : m # n => way[m] = Range(wire[m])
  <2>1. Range(matched) = {p \in Range(buffer) : p.sub = n}
    BY <1>4 DEF ChosenFrom
  <2>2. Range(matched) = {matched[j] : j \in 1..Len(matched)}
    BY <1>4, LenProperties DEF ChosenFrom, Range
  <2>3. 0 + 1 = 1
    OBVIOUS
  <2>4. QED BY <2>1, <2>2, <2>3 DEF WayAfter
<1>9. /\ a \in ClientStates /\ SameBut(Client, a) /\ a.buffer = others
  BY <1>1, <1>7 DEF Client, ClientStates, SameBut
<1> HIDE DEF a, way
<1>10. \A m \in Attempts : Coming(a, way, m) \subseteq Coming(Client, Way, m)
  <2>1. Client.buffer = buffer /\ \A m \in Attempts : Way[m] = Range(wire[m])
    BY DEF Client, Way
  <2>2. QED BY <1>7, <1>8, <1>9, <2>1 DEF Coming
<1>11. Ordered(a, way)
  <2>1. ASSUME NEW m \in Attempts, NEW p \in way[m], NEW q \in way[m]
        PROVE  p.sub = m /\ (p.seq = q.seq => p = q)
    <3>1. p \in Coming(Client, Way, m) /\ q \in Coming(Client, Way, m)
      BY <1>10 DEF Coming
    <3>2. p.seq = q.seq => p = q
      BY <3>1, OneOfANumber DEF ClientInv
    <3>3. p.sub = m
      BY <3>1 DEF Coming, ClientInv, Ordered
    <3>4. QED BY <3>2, <3>3
  <2>2. \A p \in Range(others) : \A q \in way[p.sub] : p.seq < q.seq
    BY <1>7, <1>8 DEF ClientInv, Ordered, Client, Way
  <2>3. QED BY <1>7, <1>9, <2>1, <2>2 DEF Ordered
<1>12. Confirmed(desired, a, way)
  <2>1. ASSUME NEW d \in desired, ch[d].sid # 0
        PROVE  ch[d].sid \in Attempts /\ ch[d].sid # n
    <3>1. /\ Client.ch[d].sid = Client.ch[d].reg /\ Client.ch[d].reg \in Attempts
          /\ Client.req[Client.ch[d].reg] = "done"
      BY <2>1, OwnAttempt DEF ClientInv, Client
    <3>2. QED BY <3>1 DEF Client
  <2>2. Client.ch = ch /\ a.ch = ch /\ Client.buffer = buffer
    BY <1>9 DEF SameBut, Client
  <2>3. \A m \in Attempts : Way[m] = Range(wire[m])
    BY DEF Way
  <2>4. QED BY <1>7, <1>8, <1>9, <2>1, <2>2, <2>3 DEF ClientInv, Confirmed
<1>13. ClientInv(desired, a, way)
  BY <1>9, <1>10, <1>11, <1>12, LosesPushes
<1>14. /\ ch2 \in [Channels -> ChannelStates] /\ req2 \in [Attempts -> Statuses]
       /\ \A d \in Channels \ {c} : ch2[d] = ch[d]
       /\ ch2[c].sid = n /\ ch2[c].retry = ch[c].retry
       /\ SameChannel(ch2[c], ch[c])
  <2>1. n \in 0..MaxAttempts
    BY DeltaAssumption DEF Attempts, DeltaAssumption
  <2> DEFINE x == [ch[c] EXCEPT !.sid = n]
  <2>2. /\ x \in ChannelStates /\ x.sid = n /\ x.retry = ch[c].retry
        /\ SameChannel(x, ch[c])
    BY <1>2, <2>1 DEF ChannelStates, SameChannel
  <2> HIDE DEF x
  <2>3. ch2 = [ch EXCEPT ![c] = x]
    BY DEF x
  <2>4. req2 \in [Attempts -> Statuses]
    BY <1>1 DEF Statuses
  <2> HIDE DEF ch2
  <2>5. QED BY <1>1, <1>2, <2>2, <2>3, <2>4
<1>15. /\ u \in ClientStates /\ u.ch = ch2 /\ u.req = req2 /\ u.buffer = others
       /\ u.shown = shown /\ u.attempts = attempts /\ u.of = of /\ u.page = page
       /\ u.released = released /\ st.buffer = buffer
  <2>1. st = [Client EXCEPT !.req = req2, !.ch = ch2]
    BY DEF Client
  <2> HIDE DEF ch2, req2, st
  <2>2. QED BY <1>1, <1>7, <1>14, <2>1 DEF Client, ClientStates
<1>16. /\ a.ch = ch /\ a.req = req /\ a.shown = shown /\ a.attempts = attempts
       /\ a.of = of /\ a.page = page /\ a.released = released
  BY <1>9 DEF SameBut, Client
<1>17. ch[c].sid = 0 /\ ~ch[c].retry
  <2>1. ChannelRegistered(desired, Client, c)
    BY <1>2 DEF ClientInv, Registered
  <2>2. QED BY <1>2, <2>1 DEF ChannelRegistered, Client
<1> HIDE DEF u, ch2
<1>18. Settles(a, {n}, u)
  <2>1. \A d \in Channels : SameChannel(u.ch[d], a.ch[d])
    BY <1>14, <1>15, <1>16 DEF SameChannel
  <2>2. /\ \A m \in Attempts \ {n} : u.req[m] = a.req[m]
        /\ u.req[n] = "done"
    BY <1>1, <1>15, <1>16
  <2>3. ASSUME NEW d \in Channels
        PROVE  \/ u.ch[d].sid = a.ch[d].sid /\ u.ch[d].retry = a.ch[d].retry
               \/ /\ a.ch[d].sid = 0 /\ a.ch[d].reg \in {n}
                  /\ u.ch[d].sid \in {0, a.ch[d].reg}
                  /\ u.ch[d].sid # 0 => ~u.ch[d].retry /\ u.req[a.ch[d].reg] = "done"
    <3>1. CASE d = c
      BY <1>2, <1>14, <1>15, <1>16, <1>17, <2>2, <3>1
    <3>2. CASE d # c
      BY <1>14, <1>15, <1>16, <3>2
    <3>3. QED BY <3>1, <3>2
  <2>4. u.ch[a.of[n]].sid = n
    BY <1>14, <1>15, <1>16
  <2>5. QED BY <1>9, <1>15, <1>16, <2>1, <2>2, <2>3, <2>4 DEF Settles
<1>19. a.req[n] \in {"acked", "failed"} /\ \A p \in Range(a.buffer) : p.sub # n
  BY <1>7, <1>9, <1>16
<1>20. ClientInv(desired, u, way)
  BY <1>9, <1>13, <1>15, <1>18, <1>19, SettlesKeeps
<1>21. \A j \in 1..Len(matched) : matched[j] \in Range(buffer)
  <2>1. DOMAIN matched = 1..Len(matched)
    BY <1>4, LenProperties DEF ChosenFrom
  <2>2. \A j \in 1..Len(matched) : matched[j] \in Range(matched)
    BY <2>1 DEF Range
  <2>3. QED BY <1>4, <2>2 DEF ChosenFrom
<1>22. /\ u.shown = shown /\ u.page = page /\ u.attempts = attempts
       /\ u.req[n] = "done" /\ u.ch[c].sid = n /\ u.ch[c].next = ch[c].next
       /\ \A d \in Channels \ {c} : u.ch[d] = ch[d]
       /\ u.ch[c].reg = n /\ SameChannel(u.ch[c], ch[c])
       /\ \A m \in Attempts \ {n} : u.req[m] = req[m]
  BY <1>1, <1>2, <1>14, <1>15 DEF SameChannel
<1>23. \A m \in Attempts : Coming(u, way, m) = Coming(Client, Way, m)
  <2>1. Client.buffer = buffer /\ \A m \in Attempts : Way[m] = Range(wire[m])
    BY DEF Client, Way
  <2>2. QED BY <1>7, <1>8, <1>15, <2>1 DEF Coming
<1>24. QED BY <1>6, <1>15, <1>17, <1>20, <1>21, <1>22, <1>23
           DEF u, way, matched, others

\* Confirming a subscription and replaying what was held for it keeps the
\* invariant, within the bound on attempts.
LEMMA DrainKeeps ==
  ASSUME Client \in ClientStates, desired \subseteq Channels,
         ClientInv(desired, Client, Way), NEW n \in Attempts,
         req[n] = "acked", Current(n)
  PROVE  LET r == Drain([Client EXCEPT !.req[n] = "done", !.ch[of[n]].sid = n], n)
         IN  /\ r \in ClientStates
             /\ r.attempts <= MaxAttempts => ClientInv(desired, r, Way)
<1> DEFINE st == [Client EXCEPT !.req[n] = "done", !.ch[of[n]].sid = n]
           matched == PushesOf(buffer, {n})
           u == [st EXCEPT !.buffer = PushesOf(buffer, Attempts \ {n})]
           d == Replayed(u, matched)
           e == [d EXCEPT !.buffer = <<>>]
           r == Drain(st, n)
<1>1. /\ u \in ClientStates /\ st.buffer = buffer /\ HeldFor(n, matched)
      /\ ClientInv(desired, u, WayAfter(n, matched, 0))
  BY SetsAside
<1> HIDE DEF st
<1>2. r = IF Pending(d) THEN d ELSE e
  BY <1>1 DEF Drain
<1> HIDE DEF matched, u
<1>3. d \in ClientStates /\ (d.attempts <= MaxAttempts => ClientInv(desired, d, Way))
  BY <1>1, ReplayKeepsInv
<1> HIDE DEF d, r
<1>4. e \in ClientStates /\ SameBut(d, e) /\ e.buffer = <<>>
  <2>1. <<>> \in Buffers
    BY DeltaAssumption DEF DeltaAssumption, Buffers
  <2>2. QED BY <1>3, <2>1 DEF ClientStates, SameBut
<1> HIDE DEF e
<1>5. ASSUME e.attempts <= MaxAttempts
      PROVE  ClientInv(desired, e, Way)
  <2>1. ClientInv(desired, d, Way)
    BY <1>3, <1>4, <1>5 DEF SameBut
  <2>2. Range(e.buffer) = {} /\ BufferOrdered(e.buffer)
    BY <1>4 DEF Range, BufferOrdered
  <2>3. Ordered(e, Way) /\ Confirmed(desired, e, Way)
    BY <1>4, <2>1, <2>2 DEF ClientInv, Ordered, Confirmed, SameBut
  <2>4. \A m \in Attempts : Coming(e, Way, m) \subseteq Coming(d, Way, m)
    BY <2>2 DEF Coming
  <2>5. QED BY <1>3, <1>4, <2>1, <2>3, <2>4, LosesPushes
<1>6. r \in ClientStates /\ (r.attempts <= MaxAttempts => ClientInv(desired, r, Way))
  BY <1>2, <1>3, <1>4, <1>5
<1>7. QED BY <1>6 DEF r, st

\* A turn of the client lands in the state it computed.
LEMMA Lands ==
  ASSUME NEW st \in ClientStates, Becomes(st)
  PROVE  Client' = st
<1>1. Client' = [ch |-> st.ch, buffer |-> st.buffer, shown |-> st.shown,
                 attempts |-> st.attempts, req |-> st.req, of |-> st.of,
                 page |-> st.page, released |-> st.released]
  BY DEF Client, Becomes
<1>2. QED BY <1>1 DEF ClientStates

\* A turn that leaves the daemon's part alone keeps the invariant it computed.
LEMMA LandsRight ==
  ASSUME NEW st \in ClientStates, Becomes(st), NEW D \in SUBSET Channels, NEW way,
         ClientInv(D, st, way), desired' = D, Way' = way,
         UNCHANGED <<store, changes, live, sent, cut>>,
         connected' = connected \/ live = {},
         \A n \in Attempts : st.page[n] = "read" => pageRows'[n] = pageRows[n]
  PROVE  Client' \in ClientStates /\ (ClientInv(desired, Client, Way))'
<1>1. Client' = st
  BY Lands
<1>2. Registered(D, st)
  BY DEF ClientInv
<1>3. (Registered(desired, Client))'
  BY <1>1, <1>2 DEF Registered, ChannelRegistered
<1>4. (Alive(Client))'
  BY <1>1 DEF ClientInv, Alive
<1>5. (Fresh(desired, Client))'
  BY <1>1 DEF ClientInv, Fresh, ChannelFresh
<1>6. (Ordered(Client, Way))'
  BY <1>1 DEF ClientInv, Ordered
<1>7. (Issued(Client, Way))'
  BY <1>1 DEF ClientInv, Issued, Coming
<1>8. (Confirmed(desired, Client, Way))'
  BY <1>1 DEF ClientInv, Confirmed
<1>9. ASSUME NEW c \in D, st.ch[c].reg \in live', (Complete(Client, Way, c))',
             NEW i \in Rows
      PROVE  (RowRight(Client, Way, c, i))'
  <2>1. Complete(st, way, c) /\ st.ch[c].reg \in live
    BY <1>1, <1>9 DEF Complete, Coming
  <2>2. RowRight(st, way, c, i)
    BY <2>1 DEF ClientInv, Follows, ChannelFollows
  <2>3. CASE LastDeltaRight(st, way, c, i)
    <3>1. (LastDeltaRight(Client, Way, c, i))'
      BY <1>1, <2>3 DEF LastDeltaRight, Touching, Coming
    <3>2. QED BY <3>1 DEF RowRight
  <2>4. CASE /\ Touching(st, way, st.ch[c].reg, i) = {} /\ st.ch[c].next = 0
             /\ SnapshotRight(st, way, c, i)
    <3>1. (SnapshotRight(Client, Way, c, i))'
      BY <1>1, <2>4 DEF SnapshotRight, Coming
    <3>2. QED BY <1>1, <2>4, <3>1 DEF RowRight, Touching, Coming
  <2>5. CASE /\ Touching(st, way, st.ch[c].reg, i) = {} /\ st.ch[c].next # 0
             /\ ReplicaRight(st, c, i)
    <3>1. st.ch[c].reg \in Attempts
      BY <1>2, OwnAttempt DEF Registered
    <3>2. (ReplicaRight(Client, c, i))'
      BY <1>1, <2>5, <3>1 DEF ReplicaRight, Missing
    <3>3. QED BY <1>1, <2>5, <3>2 DEF RowRight, Touching, Coming
  <2>6. QED BY <2>2, <2>3, <2>4, <2>5 DEF RowRight
<1>10. (Follows(desired, Client, Way))'
  BY <1>1, <1>9 DEF Follows, ChannelFollows
<1>11. QED BY <1>1, <1>3, <1>4, <1>5, <1>6, <1>7, <1>8, <1>10 DEF ClientInv

\* A turn of the client that leaves the daemon and the wire alone keeps the
\* invariant, if the state it computed has it.
LEMMA TurnKeeps ==
  ASSUME IInv, NEW st \in ClientStates, Becomes(st), desired' \subseteq Channels,
         ClientInv(desired', st, Way),
         UNCHANGED <<store, changes, live, sent, wire, cut>>,
         pageRows' \in [Attempts -> PartialRows],
         \A n \in Attempts : st.page[n] = "read" => pageRows'[n] = pageRows[n],
         connected' = connected \/ (connected' \in BOOLEAN /\ live = {}),
         disposed' \in BOOLEAN, Closed', faults' \in 0..MaxFaults
  PROVE  IInv'
<1>1. Way' = Way
  BY DEF Way
<1>2. Client' \in ClientStates /\ (ClientInv(desired, Client, Way))'
  BY <1>1, LandsRight
<1>3. released' \subseteq Attempts
  BY <1>2 DEF Client, ClientStates
<1>4. DaemonTyped'
  BY <1>3 DEF IInv, DaemonTyped
<1>5. WireOrdered'
  BY DEF IInv, WireOrdered
<1>6. ClientStates' = ClientStates
  OBVIOUS
<1>7. QED BY <1>2, <1>4, <1>5, <1>6 DEF IInv

\* The usual case: only the client's own variables change.
LEMMA OwnTurnKeeps ==
  ASSUME IInv, NEW st \in ClientStates, Becomes(st), ClientInv(desired, st, Way),
         UNCHANGED <<desired, disposed, connected, daemonVars>>,
         faults' \in 0..MaxFaults
  PROVE  IInv'
<1>1. /\ desired' = desired /\ desired \subseteq Channels
      /\ UNCHANGED <<store, changes, live, sent, wire, cut, pageRows>>
      /\ pageRows' \in [Attempts -> PartialRows]
      /\ connected' = connected /\ disposed' \in BOOLEAN
  BY DEF IInv, DaemonTyped, daemonVars
<1>2. Closed'
  BY DEF IInv, Closed
<1>3. QED BY <1>1, <1>2, TurnKeeps

\* What the invariant says of the variables.
LEMMA Typed ==
  ASSUME IInv
  PROVE  /\ ch \in [Channels -> ChannelStates] /\ buffer \in Buffers
         /\ shown \in [Channels -> [Rows -> Values]]
         /\ attempts \in Nat /\ attempts <= MaxAttempts
         /\ req \in [Attempts -> Statuses] /\ of \in [Attempts -> Channels]
         /\ page \in [Attempts -> Pages] /\ released \in SUBSET Attempts
         /\ desired \in SUBSET Channels /\ Client \in ClientStates
         /\ ClientInv(desired, Client, Way) /\ faults \in 0..MaxFaults
         /\ Client.ch = ch /\ Client.buffer = buffer /\ Client.shown = shown
         /\ Client.attempts = attempts /\ Client.req = req /\ Client.of = of
         /\ Client.page = page /\ Client.released = released
<1>1. Client \in ClientStates /\ desired \in SUBSET Channels
      /\ ClientInv(desired, Client, Way) /\ faults \in 0..MaxFaults
  BY DEF IInv, DaemonTyped
<1>2. /\ Client.ch = ch /\ Client.buffer = buffer /\ Client.shown = shown
      /\ Client.attempts = attempts /\ Client.req = req /\ Client.of = of
      /\ Client.page = page /\ Client.released = released
  BY DEF Client
<1>3. attempts <= MaxAttempts
  BY <1>1, <1>2 DEF ClientInv, Registered
<1>4. QED BY <1>1, <1>2, <1>3 DEF ClientStates

\* A superseded reply.
LEMMA StaleReplyKeeps ==
  ASSUME IInv, NEW n \in Attempts, req[n] = "acked", ~Current(n), StaleReply(n),
         UNCHANGED <<desired, disposed, connected, daemonVars, faults>>
  PROVE  IInv'
<1> DEFINE r == [Client EXCEPT !.req[n] = "done", !.released = @ \cup {n}]
           req2 == [req EXCEPT ![n] = "done"]
<1>1. req2 \in [Attempts -> Statuses]
  BY Typed DEF Statuses
<1>2. r = [Client EXCEPT !.req = req2, !.released = released \cup {n}]
  BY DEF Client
<1>3. Becomes(r)
  BY DEF StaleReply
<1> HIDE DEF r
<1>4. /\ r \in ClientStates /\ r.req = req2 /\ r.released = released \cup {n}
      /\ r.ch = ch /\ r.buffer = buffer /\ r.shown = shown
      /\ r.attempts = attempts /\ r.of = of /\ r.page = page
  <2>1. released \cup {n} \in SUBSET Attempts
    BY Typed
  <2>2. QED BY <1>1, <1>2, <2>1, Typed DEF ClientStates
<1>5. Settles(Client, {n}, r)
  <2>1. \A c \in Channels : SameChannel(r.ch[c], Client.ch[c])
    BY <1>4, Typed DEF SameChannel
  <2>2. r.req[n] = "done" /\ \A m \in Attempts \ {n} : r.req[m] = Client.req[m]
    BY <1>4, Typed
  <2>3. QED BY <1>4, <2>1, <2>2, Typed DEF Settles
<1>6. \A c \in desired : r.ch[c].sid # n
  <2>1. ASSUME NEW c \in desired, Client.ch[c].sid = n
        PROVE  FALSE
    <3>1. n # 0
      BY DeltaAssumption DEF Attempts, DeltaAssumption
    <3>2. /\ Client.req[Client.ch[c].reg] = "done"
          /\ Client.ch[c].reg = n
      BY <2>1, <3>1, OwnAttempt, Typed DEF ClientInv
    <3>3. QED BY <3>2, Typed
  <2>2. QED BY <1>4, <2>1, Typed
<1>7. ClientInv(desired, r, Way)
  <2>1. {n} \in SUBSET Attempts /\ \A m \in {n} : Client.req[m] \in {"acked", "failed"}
    BY Typed
  <2>2. \A c \in desired : r.ch[c].sid \notin {n}
    BY <1>6
  <2>3. QED BY <1>4, <1>5, <2>1, <2>2, SettlesKeeps, Typed
<1>8. QED BY <1>3, <1>4, <1>7, OwnTurnKeeps, Typed

\* A reply.
LEMMA DeliverReplyKeeps ==
  ASSUME IInv, NEW n \in Attempts, DeliverReply(n)
  PROVE  IInv'
<1> DEFINE r == Drain([Client EXCEPT !.req[n] = "done", !.ch[of[n]].sid = n], n)
<1>1. CASE ~Current(n) /\ StaleReply(n)
  BY <1>1, StaleReplyKeeps DEF DeliverReply
<1>2. CASE Current(n) /\ Becomes(r)
  <2>1. r \in ClientStates /\ (r.attempts <= MaxAttempts => ClientInv(desired, r, Way))
    BY <1>2, DrainKeeps, Typed DEF DeliverReply
  <2> HIDE DEF r
  <2>2. ClientInv(desired, r, Way)
    BY <1>2, <2>1 DEF Becomes
  <2>3. QED BY <1>2, <2>1, <2>2, OwnTurnKeeps, Typed DEF DeliverReply
<1>3. QED BY <1>1, <1>2 DEF DeliverReply

\* A failed request: the attempt, if it is still the channel's, arms a retry.
LEMMA FailureKeeps ==
  ASSUME IInv, NEW n \in Attempts, NEW v \in {"timedout", "done"},
         req[n] \in {"acked", "failed"}, v = "done" => n \notin live,
         Becomes([Client EXCEPT
           !.req[n] = v,
           !.ch = [c \in Channels |->
                     IF c = of[n] /\ Current(n) THEN [@[c] EXCEPT !.retry = TRUE]
                     ELSE @[c]]]),
         UNCHANGED <<desired, disposed, connected, daemonVars>>,
         faults' \in 0..MaxFaults
  PROVE  IInv'
<1> DEFINE ch2 == [c \in Channels |->
                     IF c = of[n] /\ Current(n) THEN [ch[c] EXCEPT !.retry = TRUE]
                     ELSE ch[c]]
           req2 == [req EXCEPT ![n] = v]
           r == [Client EXCEPT !.req = req2, !.ch = ch2]
<1>1. Becomes(r)
  BY DEF Client
<1>2. req2 \in [Attempts -> Statuses]
  BY Typed DEF Statuses
<1>3. ASSUME NEW c \in Channels
      PROVE  /\ ch2[c] \in ChannelStates /\ SameChannel(ch2[c], ch[c])
             /\ ch2[c].sid = ch[c].sid
             /\ ch2[c].retry = ch[c].retry \/ (c = of[n] /\ Current(n))
  <2>1. ch[c] \in ChannelStates
    BY Typed
  <2>2. ch2[c] = IF c = of[n] /\ Current(n) THEN [ch[c] EXCEPT !.retry = TRUE]
                 ELSE ch[c]
    OBVIOUS
  <2> HIDE DEF ch2
  <2>3. CASE c = of[n] /\ Current(n)
    <3>1. [ch[c] EXCEPT !.retry = TRUE] \in ChannelStates
      BY <2>1 DEF ChannelStates
    <3>2. SameChannel(ch2[c], ch[c]) /\ ch2[c].sid = ch[c].sid
      BY <2>1, <2>2, <2>3 DEF ChannelStates, SameChannel
    <3>3. QED BY <2>2, <2>3, <3>1, <3>2
  <2>4. CASE ~(c = of[n] /\ Current(n))
    BY <2>1, <2>2, <2>4 DEF SameChannel
  <2>5. QED BY <2>3, <2>4
<1>4. ch2 \in [Channels -> ChannelStates]
  BY <1>3
<1> HIDE DEF ch2
<1>5. /\ r \in ClientStates /\ r.req = req2 /\ r.ch = ch2
      /\ r.released = released /\ r.buffer = buffer /\ r.shown = shown
      /\ r.attempts = attempts /\ r.of = of /\ r.page = page
  BY <1>2, <1>4, Typed DEF ClientStates
<1> HIDE DEF r
<1>6. \A c \in desired : ch[c].sid # n
  <2>1. ASSUME NEW c \in desired, Client.ch[c].sid = n
        PROVE  FALSE
    <3>1. n # 0
      BY DeltaAssumption DEF Attempts, DeltaAssumption
    <3>2. /\ Client.req[Client.ch[c].reg] = "done"
          /\ Client.ch[c].reg = n
      BY <2>1, <3>1, OwnAttempt, Typed DEF ClientInv
    <3>3. QED BY <3>2, Typed
  <2>2. QED BY <2>1, Typed
<1>7. Settles(Client, {n}, r)
  <2>1. \A c \in Channels : SameChannel(r.ch[c], Client.ch[c])
    BY <1>3, <1>5, Typed
  <2>2. r.req[n] = v /\ \A m \in Attempts \ {n} : r.req[m] = Client.req[m]
    BY <1>5, Typed
  <2>3. ASSUME NEW c \in Channels
        PROVE  \/ /\ r.ch[c].sid = Client.ch[c].sid
                  /\ r.ch[c].retry = Client.ch[c].retry
               \/ /\ Client.ch[c].sid = 0 /\ Client.ch[c].reg \in {n}
                  /\ r.ch[c].sid \in {0, Client.ch[c].reg}
                  /\ r.ch[c].sid # 0 =>
                       ~r.ch[c].retry /\ r.req[Client.ch[c].reg] = "done"
    <3>1. r.ch[c].sid = Client.ch[c].sid
      BY <1>3, <1>5, Typed
    <3>2. CASE r.ch[c].retry = Client.ch[c].retry
      BY <3>1, <3>2
    <3>3. CASE r.ch[c].retry # Client.ch[c].retry
      <4>1. c = of[n] /\ Current(n)
        BY <1>3, <1>5, <3>3, Typed
      <4>2. c \in desired /\ Client.ch[c].reg = n
        BY <4>1, Typed DEF Current
      <4>3. Client.ch[c].sid \in {0, n} /\ Client.ch[c].sid # n
        BY <1>6, <4>2, OwnAttempt, Typed DEF ClientInv
      <4>4. QED BY <3>1, <4>2, <4>3
    <3>4. QED BY <3>2, <3>3
  <2>4. QED BY <1>5, <2>1, <2>2, <2>3, Typed DEF Settles
<1>8. \A c \in desired : r.ch[c].sid # n
  BY <1>3, <1>5, <1>6, Typed
<1>9. ClientInv(desired, r, Way)
  <2>1. {n} \in SUBSET Attempts /\ \A m \in {n} : Client.req[m] \in {"acked", "failed"}
    BY Typed
  <2>2. \A c \in desired : r.ch[c].sid \notin {n}
    BY <1>8
  <2>3. QED BY <1>5, <1>7, <2>1, <2>2, SettlesKeeps, Typed
<1>10. QED BY <1>1, <1>5, <1>9, OwnTurnKeeps, Typed

\* A refused request, or a reply without an id.
LEMMA DeliverFailureKeeps ==
  ASSUME IInv, NEW n \in Attempts, DeliverFailure(n)
  PROVE  IInv'
<1>1. n \notin live
  BY Typed DEF DeliverFailure, ClientInv, Alive
<1>2. QED BY <1>1, FailureKeeps, Typed DEF DeliverFailure, Failed

\* A request that timed out although it was granted.
LEMMA ReplyTimesOutKeeps ==
  ASSUME IInv, NEW n \in Attempts, ReplyTimesOut(n)
  PROVE  IInv'
<1>1. faults' \in 0..MaxFaults
  BY Typed, DeltaAssumption DEF ReplyTimesOut, DeltaAssumption
<1>2. QED BY <1>1, FailureKeeps, Typed DEF ReplyTimesOut

\* A retry registers the channel again.
LEMMA RetrySupersedes ==
  ASSUME IInv, NEW c \in Channels, RetryFires(c)
  PROVE  \E r \in ClientStates :
           Becomes(r) /\ Supersedes(desired, Client, {c}, desired, r)
<1> DEFINE r == Register(Client, {c})
<1>1. RegisteredAs(Client, {c}, r) /\ r \in ClientStates
  <2>1. {c} \in SUBSET Channels
    OBVIOUS
  <2>2. QED BY <2>1, Registers, Typed DEF RegisteredAs
<1>2. c \in desired /\ ch[c].retry /\ Becomes(r) /\ r.attempts <= MaxAttempts
  BY DEF RetryFires, Becomes
<1> HIDE DEF r
<1>3. ch[c].sid = 0 /\ ch[c].next = 0
  <2>1. ChannelRegistered(desired, Client, c) /\ ChannelFresh(Client, c)
    BY <1>2, Typed DEF ClientInv, Registered, Fresh
  <2>2. QED BY <1>2, <2>1, Typed DEF ChannelRegistered, ChannelFresh
<1>4. \A d \in {c} :
        /\ r.ch[d].reg \in NewAttempts(Client, r)
        /\ r.ch[d].reg \in Attempts => r.of[r.ch[d].reg] = d
        /\ r.ch[d].sid = 0 /\ ~r.ch[d].retry /\ r.ch[d].next = 0
  BY <1>1, <1>3, Typed DEF RegisteredAs, SameReplica
<1>5. ASSUME NEW d \in desired \ {c}
      PROVE  /\ r.ch[d] = Client.ch[d]
             /\ r.ch[d].next # 0 => r.shown[d] = r.ch[d].rows
             /\ r.page[Client.ch[d].reg] = Client.page[Client.ch[d].reg]
  <2>1. ChannelFresh(Client, d)
    BY Typed DEF ClientInv, Fresh
  <2>2. r.ch[d] = Client.ch[d] /\ r.shown = Client.shown /\ r.page = Client.page
    BY <1>1, Typed DEF RegisteredAs
  <2>3. QED BY <2>1, <2>2 DEF ChannelFresh
<1>6. \A d \in Channels \ desired :
        r.ch[d].reg = 0 /\ r.ch[d].sid = 0 /\ ~r.ch[d].retry
  <2>1. ASSUME NEW d \in Channels \ desired
        PROVE  ChannelRegistered(desired, Client, d) /\ r.ch[d] = Client.ch[d]
    BY <1>1, <1>2, Typed DEF ClientInv, Registered, RegisteredAs
  <2>2. QED BY <2>1 DEF ChannelRegistered
<1>7. \A d \in desired : Client.ch[d].sid # 0 /\ Client.ch[d].sid \in live =>
        d \in desired \ {c} \/ Client.ch[d].sid \in r.released
  BY <1>3, Typed
<1>8. {c} \subseteq desired /\ desired \subseteq desired \cup {c}
  BY <1>2
<1>9. NothingNewShown(Client, r)
  <2>1. ASSUME NEW d \in Channels
        PROVE  r.ch[d].rows = Client.ch[d].rows
    <3>1. CASE d = c
      BY <1>1, <3>1 DEF RegisteredAs, SameReplica
    <3>2. CASE d # c
      BY <1>1, <3>2 DEF RegisteredAs
    <3>3. QED BY <3>1, <3>2
  <2>2. r.shown = Client.shown
    BY <1>1 DEF RegisteredAs
  <2>3. QED BY <2>1, <2>2 DEF NothingNewShown
<1>10. Supersedes(desired, Client, {c}, desired, r)
  BY <1>1, <1>2, <1>4, <1>5, <1>6, <1>7, <1>8, <1>9 DEF Supersedes, RegisteredAs
<1>11. QED BY <1>1, <1>2, <1>10

\* It keeps the invariant.
LEMMA RetryFiresKeeps ==
  ASSUME IInv, NEW c \in Channels, RetryFires(c)
  PROVE  IInv'
<1>1. PICK r \in ClientStates :
        Becomes(r) /\ Supersedes(desired, Client, {c}, desired, r)
  BY RetrySupersedes
<1>2. ClientInv(desired, r, Way)
  <2>1. {c} \in SUBSET Channels
    OBVIOUS
  <2>2. QED BY <1>1, <2>1, SupersedesKeeps, Typed
<1>3. QED BY <1>1, <1>2, OwnTurnKeeps, Typed DEF RetryFires

\* Without its first push, a subscription's wire has all the others, which come
\* later.
LEMMA WithoutTheFirst ==
  ASSUME NEW w \in Seq(Pushes), w # <<>>,
         \A j, k \in DOMAIN w : j < k => w[j].seq < w[k].seq
  PROVE  /\ Head(w) \in Pushes /\ Head(w) \in Range(w)
         /\ Tail(w) \in Seq(Pushes)
         /\ Range(Tail(w)) = Range(w) \ {Head(w)}
         /\ \A q \in Range(Tail(w)) : Head(w).seq < q.seq
         /\ \A j, k \in DOMAIN Tail(w) : j < k => Tail(w)[j].seq < Tail(w)[k].seq
<1>1. /\ DOMAIN Tail(w) = 1..(Len(w) - 1) /\ DOMAIN w = 1..Len(w)
      /\ Len(w) \in Nat /\ Len(w) >= 1 /\ Tail(w) \in Seq(Pushes)
      /\ \A k \in 1..(Len(w) - 1) : Tail(w)[k] = w[k + 1]
      /\ Head(w) = w[1] /\ \A k \in 1..Len(w) : w[k] \in Pushes
  <2>1. Tail(w) \in Seq(Pushes) /\ Len(Tail(w)) = Len(w) - 1
        /\ \A k \in 1..Len(Tail(w)) : Tail(w)[k] = w[k + 1]
    BY HeadTailProperties
  <2>2. Len(w) \in Nat /\ Len(w) # 0
    BY LenProperties, EmptySeq
  <2>3. Head(w) = w[1]
    BY HeadTailProperties
  <2>4. QED BY <2>1, <2>2, <2>3, LenProperties, ElementOfSeq
<1>2. \A k \in 1..(Len(w) - 1) : k + 1 \in 1..Len(w) /\ 1 < k + 1
  BY <1>1
<1>3. 1 \in 1..Len(w) /\ Head(w) \in Range(w) /\ Head(w) \in Pushes
  BY <1>1 DEF Range
<1>4. \A q \in Range(Tail(w)) : q \in Range(w) /\ Head(w).seq < q.seq
  BY <1>1, <1>2, <1>3 DEF Range
<1>5. Head(w) \notin Range(Tail(w))
  BY <1>3, <1>4, PushFields
<1>6. ASSUME NEW q \in Range(w), q # Head(w)
      PROVE  q \in Range(Tail(w))
  <2>1. PICK k \in 1..Len(w) : w[k] = q
    BY <1>1 DEF Range
  <2>2. k # 1 /\ k - 1 \in 1..(Len(w) - 1) /\ (k - 1) + 1 = k
    BY <1>1, <1>6, <2>1
  <2>3. Tail(w)[k - 1] = q /\ k - 1 \in DOMAIN Tail(w)
    BY <1>1, <2>1, <2>2
  <2>4. QED BY <2>3 DEF Range
<1>7. Range(Tail(w)) = Range(w) \ {Head(w)}
  BY <1>4, <1>5, <1>6
<1>8. ASSUME NEW j \in DOMAIN Tail(w), NEW k \in DOMAIN Tail(w), j < k
      PROVE  Tail(w)[j].seq < Tail(w)[k].seq
  <2>1. j + 1 \in DOMAIN w /\ k + 1 \in DOMAIN w /\ j + 1 < k + 1
        /\ Tail(w)[j] = w[j + 1] /\ Tail(w)[k] = w[k + 1]
    BY <1>1, <1>2, <1>8
  <2>2. QED BY <2>1
<1>9. QED BY <1>1, <1>3, <1>4, <1>7, <1>8

\* A push.
LEMMA DeliverPushKeeps ==
  ASSUME IInv, NEW n \in Attempts, DeliverPush(n)
  PROVE  IInv'
<1> DEFINE p == Head(wire[n])
           way2 == [m \in Attempts |-> IF m = n THEN Range(Tail(wire[n]))
                                       ELSE Range(wire[m])]
           r == IF disposed THEN Client ELSE ProcessPush(Client, p)
<1>1. /\ wire[n] # <<>> /\ wire' = [wire EXCEPT ![n] = Tail(@)] /\ Becomes(r)
      /\ UNCHANGED <<desired, disposed, connected, store, changes, live, sent,
                     cut, pageRows, faults>>
      /\ r.attempts <= MaxAttempts
  BY DEF DeliverPush, Becomes
<1>2. /\ wire \in [Attempts -> Seq(Pushes)] /\ desired \subseteq Channels
      /\ \A m \in Attempts : \A j, k \in DOMAIN wire[m] :
           j < k => wire[m][j].seq < wire[m][k].seq
  BY DEF IInv, DaemonTyped, WireOrdered
<1>3. /\ p \in Pushes /\ p \in Range(wire[n]) /\ Tail(wire[n]) \in Seq(Pushes)
      /\ Range(Tail(wire[n])) = Range(wire[n]) \ {p}
      /\ \A q \in Range(Tail(wire[n])) : p.seq < q.seq
      /\ \A j, k \in DOMAIN Tail(wire[n]) :
           j < k => Tail(wire[n])[j].seq < Tail(wire[n])[k].seq
  BY <1>1, <1>2, WithoutTheFirst
<1> HIDE DEF p
<1>4. p.sub = n
  BY <1>3, Typed DEF ClientInv, Ordered, Way
<1>5. /\ \A m \in Attempts : way2[m] = IF m = p.sub THEN Way[m] \ {p} ELSE Way[m]
      /\ p \in Way[p.sub] /\ \A q \in way2[p.sub] : p.seq < q.seq
  BY <1>3, <1>4 DEF Way
<1>6. Way' = way2
  BY <1>1, <1>2 DEF Way
<1> HIDE DEF way2
<1>7. r \in ClientStates /\ ClientInv(desired, r, way2)
  <2>1. CASE disposed
    <3>1. \A m \in Attempts : way2[m] \subseteq Way[m]
      BY <1>5
    <3>2. ClientInv(desired, Client, way2)
      BY <3>1, LosesOnTheWay, Typed
    <3>3. QED BY <2>1, <3>2, Typed
  <2>2. CASE ~disposed
    <3>1. ProcessPush(Client, p).attempts <= MaxAttempts
      BY <1>1, <2>2
    <3>2. ClientInv(desired, ProcessPush(Client, p), way2)
      BY <1>2, <1>3, <1>5, <3>1, ProcessKeeps, Typed
    <3>3. ProcessPush(Client, p) \in ClientStates
      BY <1>2, <1>3, ProcessTyped, Typed
    <3>4. QED BY <2>2, <3>2, <3>3
  <2>3. QED BY <2>1, <2>2
<1> HIDE DEF r
<1>8. Client' \in ClientStates /\ (ClientInv(desired, Client, Way))'
  BY <1>1, <1>2, <1>6, <1>7, LandsRight
<1>9. released' \subseteq Attempts
  BY <1>8 DEF Client, ClientStates
<1>10. wire' \in [Attempts -> Seq(Pushes)]
  BY <1>1, <1>2, <1>3
<1>11. DaemonTyped'
  BY <1>1, <1>9, <1>10 DEF IInv, DaemonTyped
<1>12. WireOrdered'
  <2>1. ASSUME NEW m \in Attempts, NEW j \in DOMAIN wire'[m],
               NEW k \in DOMAIN wire'[m], j < k
        PROVE  wire'[m][j].seq < wire'[m][k].seq
    <3>1. CASE m = n
      <4>1. wire'[m] = Tail(wire[n])
        BY <1>1, <1>2, <3>1
      <4>2. QED BY <1>3, <2>1, <4>1
    <3>2. CASE m # n
      <4>1. wire'[m] = wire[m]
        BY <1>1, <1>2, <3>2
      <4>2. QED BY <1>2, <2>1, <4>1
    <3>3. QED BY <3>1, <3>2
  <2>2. QED BY <2>1 DEF WireOrdered
<1>13. Closed'
  BY <1>1 DEF IInv, Closed
<1>14. QED BY <1>8, <1>11, <1>12, <1>13 DEF IInv

\* The continuation of subscription n ends or is given up.
PageEnds(D, st, n, r) ==
  /\ r.attempts = st.attempts /\ r.req = st.req /\ r.of = st.of
  /\ r.released = st.released /\ r.buffer = st.buffer
  /\ st.page[n] # "none"
  /\ \A m \in Attempts \ {n} : r.page[m] = st.page[m]
  /\ \A c \in Channels :
       /\ r.ch[c].reg = st.ch[c].reg /\ r.ch[c].sid = st.ch[c].sid
       /\ r.ch[c].retry = st.ch[c].retry
       /\ r.ch[c].awaiting = st.ch[c].awaiting
       /\ r.ch[c].next = st.ch[c].next /\ r.ch[c].gone = st.ch[c].gone
       /\ st.ch[c].reg # n => r.ch[c].rows = st.ch[c].rows
  /\ \A c \in D : st.ch[c].next # 0 => r.shown[c] = r.ch[c].rows
  /\ \A c \in D : st.ch[c].reg = n =>
       \A i \in Rows : ReplicaRight(st, c, i) => ReplicaRight(r, c, i)

\* When its channel's rows stay right, that keeps the invariant.
LEMMA PageEndsKeeps ==
  ASSUME NEW st \in ClientStates, NEW r \in ClientStates, NEW n \in Attempts,
         NEW D \in SUBSET Channels, PageEnds(D, st, n, r), NEW way,
         ClientInv(D, st, way)
  PROVE  ClientInv(D, r, way)
<1>1. Registered(D, r)
  <2>1. \A c \in Channels : ChannelRegistered(D, r, c)
    BY DEF ClientInv, Registered, ChannelRegistered, PageEnds
  <2>2. QED BY <2>1 DEF ClientInv, Registered, PageEnds
<1>2. Alive(r)
  <2>1. \A m \in Attempts : st.of[m] \in Channels
    BY ClientFields
  <2>2. QED BY <2>1 DEF ClientInv, Alive, PageEnds
<1>3. Fresh(D, r)
  <2>1. ASSUME NEW c \in D
        PROVE  ChannelFresh(r, c)
    <3>1. ChannelFresh(st, c) /\ st.ch[c].reg \in Attempts
      BY OwnAttempt DEF ClientInv, Fresh
    <3>2. st.ch[c].next = 0 => st.ch[c].reg # n
      BY <3>1 DEF ChannelFresh, PageEnds
    <3>3. QED BY <3>1, <3>2 DEF ChannelFresh, PageEnds
  <2>2. ASSUME NEW m \in Attempts, m > r.attempts
        PROVE  r.page[m] = "none"
    <3>1. st.page[m] = "none"
      BY <2>2 DEF ClientInv, Fresh, PageEnds
    <3>2. QED BY <3>1 DEF PageEnds
  <2>3. QED BY <2>1, <2>2 DEF Fresh
<1>4. Ordered(r, way)
  BY DEF ClientInv, Ordered, PageEnds
<1>5. \A m \in Attempts : Coming(r, way, m) = Coming(st, way, m)
  BY DEF Coming, PageEnds
<1>6. Issued(r, way)
  BY <1>5 DEF ClientInv, Issued, PageEnds
<1>7. Confirmed(D, r, way)
  BY DEF ClientInv, Confirmed, PageEnds
<1>8. ASSUME NEW c \in D, r.ch[c].reg \in live, Complete(r, way, c), NEW i \in Rows
      PROVE  RowRight(r, way, c, i)
  <2>1. /\ st.ch[c].reg \in Attempts /\ r.ch[c].reg = st.ch[c].reg
        /\ r.ch[c].next = st.ch[c].next /\ r.ch[c].gone = st.ch[c].gone
    BY OwnAttempt DEF ClientInv, PageEnds
  <2>2. Coming(r, way, st.ch[c].reg) = Coming(st, way, st.ch[c].reg)
    BY <1>5, <2>1
  <2>3. Complete(st, way, c) /\ st.ch[c].reg \in live
    BY <1>8, <2>1, <2>2 DEF Complete
  <2>4. RowRight(st, way, c, i)
    BY <2>3 DEF ClientInv, Follows, ChannelFollows
  <2>5. ReplicaRight(st, c, i) => ReplicaRight(r, c, i)
    <3>1. CASE st.ch[c].reg = n
      BY <3>1 DEF PageEnds
    <3>2. CASE st.ch[c].reg # n
      <4>1. r.ch[c].rows = st.ch[c].rows /\ r.page[st.ch[c].reg] = st.page[st.ch[c].reg]
        BY <2>1, <3>2 DEF PageEnds
      <4>2. QED BY <2>1, <4>1 DEF ReplicaRight, Missing
    <3>3. QED BY <3>1, <3>2
  <2>6. QED BY <2>1, <2>2, <2>4, <2>5
            DEF RowRight, LastDeltaRight, SnapshotRight, Touching
<1>9. Follows(D, r, way)
  BY <1>8 DEF Follows, ChannelFollows
<1>10. QED BY <1>1, <1>2, <1>3, <1>4, <1>6, <1>7, <1>9 DEF ClientInv

\* A continuation under way is that of its channel's confirmed subscription, or
\* its attempt is no channel's any more.
LEMMA PageOfTheConfirmed ==
  ASSUME NEW st \in ClientStates, NEW n \in Attempts, NEW D \in SUBSET Channels,
         NEW way, ClientInv(D, st, way), st.page[n] # "none", NEW c \in D,
         st.ch[c].reg = n
  PROVE  /\ st.of[n] = c /\ st.ch[c].sid = n /\ st.ch[c].next # 0
         /\ ~st.ch[c].awaiting
<1>1. st.of[n] = c /\ st.ch[c].sid \in {0, n}
  BY OwnAttempt DEF ClientInv
<1>2. ChannelFresh(st, c)
  BY DEF ClientInv, Fresh
<1>3. QED BY <1>1, <1>2 DEF ChannelFresh

\* r is the client with the rest of snapshot n: it fills the gaps of the channel
\* it belongs to, if that still has it.
PageDelivered(n, r) ==
  /\ r \in ClientStates
  /\ r.page[n] = "none" /\ \A m \in Attempts \ {n} : r.page[m] = page[m]
  /\ r.buffer = buffer /\ r.attempts = attempts /\ r.req = req /\ r.of = of
  /\ r.released = released /\ r.shown = [d \in Channels |-> r.ch[d].rows]
  /\ \A d \in Channels :
       /\ r.ch[d].reg = ch[d].reg /\ r.ch[d].sid = ch[d].sid
       /\ r.ch[d].retry = ch[d].retry /\ r.ch[d].awaiting = ch[d].awaiting
       /\ r.ch[d].next = ch[d].next /\ r.ch[d].gone = ch[d].gone
       /\ d = of[n] /\ ch[d].sid = n =>
            \A i \in Rows : r.ch[d].rows[i] =
              IF i \in DOMAIN pageRows[n] /\ Missing(Client, d, i)
              THEN pageRows[n][i] ELSE ch[d].rows[i]
       /\ ~(d = of[n] /\ ch[d].sid = n) => r.ch[d].rows = ch[d].rows

\* The rest of a snapshot comes.
LEMMA PageDelivers ==
  ASSUME IInv, NEW n \in Attempts, DeliverPage(n)
  PROVE  \E r : Becomes(r) /\ PageDelivered(n, r)
<1> DEFINE c == of[n]
           filled == [i \in Rows |-> IF i \in DOMAIN pageRows[n] /\ Fills(c, i)
                                     THEN pageRows[n][i] ELSE ch[c].rows[i]]
           page2 == [page EXCEPT ![n] = "none"]
           x == [ch[c] EXCEPT !.rows = filled]
           ch2 == IF ch[c].sid = n THEN [ch EXCEPT ![c] = x] ELSE ch
           u == IF ch[c].sid = n THEN [Client EXCEPT !.page = page2, !.ch = ch2]
                ELSE [Client EXCEPT !.page = page2]
           r == Emit(u)
<1>1. /\ page[n] = "read" /\ pageRows' = [pageRows EXCEPT ![n] = NoPage]
      /\ UNCHANGED <<desired, disposed, connected, store, changes, live, sent,
                     wire, cut, faults>>
  BY DEF DeliverPage
<1>2. Becomes(r)
  <2>1. [Client EXCEPT !.page[n] = "none"] = [Client EXCEPT !.page = page2]
    BY DEF Client
  <2>2. CASE ch[c].sid = n
    <3>1. Becomes(Emit([[Client EXCEPT !.page[n] = "none"] EXCEPT !.ch[c].rows = filled]))
      BY <2>2 DEF DeliverPage
    <3>2. [[Client EXCEPT !.page = page2] EXCEPT !.ch[c].rows = filled] = u
      BY <2>2 DEF Client
    <3>3. QED BY <2>1, <3>1, <3>2
  <2>3. CASE ch[c].sid # n
    <3>1. Becomes(Emit([Client EXCEPT !.page[n] = "none"]))
      BY <2>3 DEF DeliverPage
    <3>2. [Client EXCEPT !.page = page2] = u
      BY <2>3
    <3>3. QED BY <2>1, <3>1, <3>2
  <2>4. QED BY <2>2, <2>3
<1>3. c \in Channels /\ ch[c] \in ChannelStates /\ ch[c].rows \in [Rows -> Values]
  BY Typed DEF ChannelStates
<1>4. filled \in [Rows -> Values]
  <2>1. pageRows[n] \in PartialRows
    BY DEF IInv, DaemonTyped
  <2>2. PICK I \in SUBSET Rows : pageRows[n] \in [I -> Values]
    BY <2>1 DEF PartialRows
  <2>3. QED BY <1>3, <2>2
<1>5. \A i \in Rows : filled[i] =
        IF i \in DOMAIN pageRows[n] /\ ch[c].rows[i] = 0 /\ i \notin ch[c].gone
        THEN pageRows[n][i] ELSE ch[c].rows[i]
  BY DEF Fills
<1> HIDE DEF filled
<1>6. /\ x \in ChannelStates /\ x.rows = filled /\ x.reg = ch[c].reg
      /\ x.sid = ch[c].sid /\ x.retry = ch[c].retry /\ x.awaiting = ch[c].awaiting
      /\ x.next = ch[c].next /\ x.gone = ch[c].gone
  BY <1>3, <1>4 DEF ChannelStates
<1> HIDE DEF x
<1>7. /\ ch2 \in [Channels -> ChannelStates]
      /\ ch[c].sid = n => ch2[c] = x
      /\ ch[c].sid # n => ch2[c] = ch[c]
      /\ \A d \in Channels \ {c} : ch2[d] = ch[d]
  BY <1>3, <1>6, Typed
<1>8. page2 \in [Attempts -> Pages] /\ page2[n] = "none"
      /\ \A m \in Attempts \ {n} : page2[m] = page[m]
  BY Typed DEF Pages
<1>9. ch[c].sid # n => ch2 = ch
  OBVIOUS
<1> HIDE DEF ch2, page2
<1>10. /\ u \in ClientStates /\ u.ch = ch2 /\ u.page = page2 /\ u.buffer = buffer
      /\ u.attempts = attempts /\ u.req = req /\ u.of = of
      /\ u.released = released
  <2>1. CASE ch[c].sid = n
    BY <1>7, <1>8, <2>1, Typed DEF ClientStates
  <2>2. CASE ch[c].sid # n
    BY <1>8, <1>9, <2>2, Typed DEF ClientStates
  <2>3. QED BY <2>1, <2>2
<1> HIDE DEF u
<1>11. /\ r \in ClientStates /\ r.ch = ch2 /\ r.page = page2 /\ r.buffer = buffer
       /\ r.attempts = attempts /\ r.req = req /\ r.of = of
       /\ r.released = released /\ r.shown = [d \in Channels |-> r.ch[d].rows]
  BY <1>10, Emits
<1> HIDE DEF r
<1>12. ASSUME NEW d \in Channels
       PROVE  /\ r.ch[d].reg = ch[d].reg /\ r.ch[d].sid = ch[d].sid
              /\ r.ch[d].retry = ch[d].retry
              /\ r.ch[d].awaiting = ch[d].awaiting
              /\ r.ch[d].next = ch[d].next /\ r.ch[d].gone = ch[d].gone
              /\ d = c /\ ch[d].sid = n => r.ch[d].rows = filled
              /\ ~(d = c /\ ch[d].sid = n) => r.ch[d].rows = ch[d].rows
  <2>1. CASE d = c /\ ch[c].sid = n
    BY <1>6, <1>7, <1>11, <2>1
  <2>2. CASE ~(d = c /\ ch[c].sid = n)
    <3>1. r.ch[d] = ch[d]
      BY <1>7, <1>11, <2>2
    <3>2. QED BY <2>2, <3>1
  <2>3. QED BY <2>1, <2>2
<1>13. \A i \in Rows : filled[i] =
         IF i \in DOMAIN pageRows[n] /\ Missing(Client, c, i)
         THEN pageRows[n][i] ELSE ch[c].rows[i]
  BY <1>5, Typed DEF Missing
<1>14. PageDelivered(n, r)
  BY <1>8, <1>11, <1>12, <1>13 DEF PageDelivered
<1>15. QED BY <1>2, <1>14 DEF r

\* It keeps the invariant.
LEMMA DeliverPageKeeps ==
  ASSUME IInv, NEW n \in Attempts, DeliverPage(n)
  PROVE  IInv'
<1>1. /\ page[n] = "read" /\ pageRows' = [pageRows EXCEPT ![n] = NoPage]
      /\ UNCHANGED <<desired, disposed, connected, store, changes, live, sent,
                     wire, cut, faults>>
  BY DEF DeliverPage
<1>2. PICK r : Becomes(r) /\ PageDelivered(n, r)
  BY PageDelivers
<1>3. ASSUME NEW d \in desired, ch[d].reg = n
      PROVE  d = of[n] /\ ch[d].sid = n /\ ch[d].next # 0
  <2>1. Client.of[n] = d /\ Client.ch[d].sid = n /\ Client.ch[d].next # 0
    BY <1>1, <1>3, PageOfTheConfirmed, Typed
  <2>2. QED BY <2>1, Typed
<1>4. PageEnds(desired, Client, n, r)
  <2>1. ASSUME NEW d \in Channels, ch[d].reg # n
        PROVE  r.ch[d].rows = ch[d].rows
    <3>1. n # 0 /\ ChannelRegistered(desired, Client, d)
      BY Typed, DeltaAssumption
         DEF ClientInv, Registered, Attempts, DeltaAssumption
    <3>2. ch[d].sid # n
      BY <2>1, <3>1, Typed DEF ChannelRegistered
    <3>3. QED BY <1>2, <3>2 DEF PageDelivered
  <2>2. ASSUME NEW d \in desired, ch[d].reg = n, NEW i \in Rows,
               ReplicaRight(Client, d, i)
        PROVE  ReplicaRight(r, d, i)
    <3>1. d = of[n] /\ ch[d].sid = n /\ d \in Channels
      BY <1>3, <2>2, Typed
    <3>2. /\ r.ch[d].reg = n /\ r.page[n] = "none"
          /\ r.ch[d].rows[i] = IF i \in DOMAIN pageRows[n] /\ Missing(Client, d, i)
                               THEN pageRows[n][i] ELSE ch[d].rows[i]
      BY <1>2, <2>2, <3>1 DEF PageDelivered
    <3>3. r.ch[d].rows[i] = store[d][i]
      BY <1>1, <2>2, <3>2, Typed DEF ReplicaRight
    <3>4. QED BY <3>2, <3>3 DEF ReplicaRight
  <2>3. \A d \in desired : r.shown[d] = r.ch[d].rows
    BY <1>2, Typed DEF PageDelivered
  <2>4. QED BY <1>1, <1>2, <2>1, <2>2, <2>3, Typed DEF PageEnds, PageDelivered
<1>5. ClientInv(desired, r, Way) /\ r \in ClientStates
  BY <1>2, <1>4, PageEndsKeeps, Typed DEF PageDelivered
<1>6. /\ pageRows' \in [Attempts -> PartialRows]
      /\ \A m \in Attempts : r.page[m] = "read" => pageRows'[m] = pageRows[m]
  <2>1. pageRows \in [Attempts -> PartialRows]
    BY DEF IInv, DaemonTyped
  <2>2. NoPage \in [{} -> Values]
    BY DEF NoPage
  <2>3. NoPage \in PartialRows
    BY <2>2 DEF PartialRows
  <2>4. QED BY <1>1, <1>2, <2>1, <2>3 DEF PageDelivered
<1>7. desired' \subseteq Channels /\ disposed' \in BOOLEAN /\ faults' \in 0..MaxFaults
      /\ Closed'
  BY <1>1 DEF IInv, DaemonTyped, Closed
<1>8. QED BY <1>1, <1>2, <1>5, <1>6, <1>7, TurnKeeps

\* A continuation that gives up is right whatever the rows are: the channel will
\* start over.
LEMMA PageGivesUpKeeps ==
  ASSUME IInv, NEW n \in Attempts, PageGivesUp(n)
  PROVE  IInv'
<1> DEFINE page2 == [page EXCEPT ![n] = "gaveup"]
           r == [Client EXCEPT !.page = page2]
<1>1. page2 \in [Attempts -> Pages] /\ page2[n] = "gaveup"
      /\ \A m \in Attempts \ {n} : page2[m] = page[m]
  BY Typed DEF Pages
<1>2. page[n] = "asked" /\ page' = page2 /\ faults' \in 0..MaxFaults
      /\ UNCHANGED <<desired, disposed, ch, buffer, shown, attempts, req, of,
                     released, connected, daemonVars>>
  BY Typed, DeltaAssumption DEF PageGivesUp, PageFails, DeltaAssumption
<1> HIDE DEF page2
<1>3. /\ r \in ClientStates /\ r.ch = ch /\ r.page = page2 /\ r.buffer = buffer
      /\ r.attempts = attempts /\ r.req = req /\ r.of = of /\ r.shown = shown
      /\ r.released = released
  BY <1>1, Typed DEF ClientStates
<1> HIDE DEF r
<1>4. Becomes(r)
  BY <1>2, <1>3, Typed DEF Becomes
<1>5. PageEnds(desired, Client, n, r)
  <2>1. \A d \in desired : Client.ch[d].next # 0 => r.shown[d] = r.ch[d].rows
    BY <1>3, Typed DEF ClientInv, Fresh, ChannelFresh
  <2>2. \A d \in desired : Client.ch[d].reg = n =>
          \A i \in Rows : ReplicaRight(r, d, i)
    BY <1>1, <1>3, Typed DEF ReplicaRight
  <2>3. QED BY <1>1, <1>2, <1>3, <2>1, <2>2, Typed DEF PageEnds
<1>6. ClientInv(desired, r, Way)
  BY <1>3, <1>5, PageEndsKeeps, Typed
<1>7. QED BY <1>2, <1>3, <1>4, <1>6, OwnTurnKeeps

\* The channel of a continuation that gave up starts over, if the continuation
\* is still its own.
LEMMA GiveUpSupersedes ==
  ASSUME IInv, NEW n \in Attempts, GiveUpFires(n), ch[of[n]].sid = n
  PROVE  /\ of[n] \in desired
         /\ \E r \in ClientStates :
              Becomes(r) /\ Supersedes(desired, Client, {of[n]}, desired, r)
<1> DEFINE page2 == [page EXCEPT ![n] = "none"]
           u == [Client EXCEPT !.page = page2]
           c == of[n]
           r == Resnapshot(u, c)
<1>1. page2 \in [Attempts -> Pages] /\ page2[n] = "none"
      /\ \A m \in Attempts \ {n} : page2[m] = page[m]
  BY Typed DEF Pages
<1>2. page[n] = "gaveup" /\ Becomes(r)
  BY DEF GiveUpFires, Client
<1> HIDE DEF page2
<1>3. /\ u \in ClientStates /\ u.ch = ch /\ u.page = page2 /\ u.buffer = buffer
      /\ u.attempts = attempts /\ u.req = req /\ u.of = of /\ u.shown = shown
      /\ u.released = released
  BY <1>1, Typed DEF ClientStates
<1> HIDE DEF u
<1>4. c \in Channels /\ ch[c].reg = n /\ c \in desired
  <2>1. n # 0 /\ c \in Channels
    BY Typed, DeltaAssumption DEF Attempts, DeltaAssumption
  <2>2. ChannelRegistered(desired, Client, c)
    BY <2>1, Typed DEF ClientInv, Registered
  <2>3. QED BY <2>1, <2>2, Typed DEF ChannelRegistered
<1>5. ~u.ch[c].awaiting
  BY <1>2, <1>3, <1>4, PageOfTheConfirmed, Typed
<1>6. ResnapshottedAs(u, c, r) /\ r.attempts <= MaxAttempts
  BY <1>2, <1>3, <1>4, <1>5, Resnapshots DEF Becomes
<1> HIDE DEF r
<1>7. ResnapshottedAs(Client, c, r)
  <2>1. NewAttempts(Client, r) = NewAttempts(u, r)
    BY <1>3, Typed DEF NewAttempts
  <2>2. \A m \in Attempts :
          r.page[m] = IF m = Client.ch[c].sid THEN "none" ELSE Client.page[m]
    BY <1>1, <1>3, <1>6, Typed DEF ResnapshottedAs
  <2>3. QED BY <1>3, <1>6, <2>1, <2>2, Typed DEF ResnapshottedAs
<1>8. r \in ClientStates /\ Supersedes(desired, Client, {c}, desired, r)
  BY <1>4, <1>6, <1>7, ResnapshotSupersedes, Typed
<1>9. QED BY <1>2, <1>4, <1>8

\* A continuation that gave up is forgotten when its channel has another one.
LEMMA GiveUpForgets ==
  ASSUME IInv, NEW n \in Attempts, GiveUpFires(n), ch[of[n]].sid # n
  PROVE  /\ \A c \in desired : ch[c].reg # n
         /\ page' = [page EXCEPT ![n] = "none"]
         /\ UNCHANGED <<ch, buffer, shown, attempts, req, of, released>>
<1>1. page[n] = "gaveup"
  BY DEF GiveUpFires
<1>2. \A c \in desired : ch[c].reg # n
  BY <1>1, PageOfTheConfirmed, Typed
<1>3. QED BY <1>2 DEF GiveUpFires, Becomes, Client

\* Either keeps the invariant.
LEMMA GiveUpFiresKeeps ==
  ASSUME IInv, NEW n \in Attempts, GiveUpFires(n)
  PROVE  IInv'
<1>1. UNCHANGED <<desired, disposed, connected, daemonVars, faults>>
      /\ page[n] = "gaveup"
  BY DEF GiveUpFires
<1>2. CASE ch[of[n]].sid = n
  <2>1. PICK r \in ClientStates :
          Becomes(r) /\ Supersedes(desired, Client, {of[n]}, desired, r)
    BY <1>2, GiveUpSupersedes
  <2>2. {of[n]} \in SUBSET Channels
    BY Typed
  <2>3. ClientInv(desired, r, Way)
    BY <2>1, <2>2, SupersedesKeeps, Typed
  <2>4. QED BY <1>1, <2>1, <2>3, OwnTurnKeeps, Typed
<1>3. CASE ch[of[n]].sid # n
  <2> DEFINE page2 == [page EXCEPT ![n] = "none"]
             u == [Client EXCEPT !.page = page2]
  <2>1. page2 \in [Attempts -> Pages]
        /\ \A m \in Attempts \ {n} : page2[m] = page[m]
    BY Typed DEF Pages
  <2>2. /\ \A c \in desired : ch[c].reg # n
        /\ page' = page2
        /\ UNCHANGED <<ch, buffer, shown, attempts, req, of, released>>
    BY <1>3, GiveUpForgets
  <2> HIDE DEF page2
  <2>3. /\ u \in ClientStates /\ u.ch = ch /\ u.page = page2 /\ u.buffer = buffer
        /\ u.attempts = attempts /\ u.req = req /\ u.of = of /\ u.shown = shown
        /\ u.released = released
    BY <2>1, Typed DEF ClientStates
  <2> HIDE DEF u
  <2>4. Becomes(u)
    BY <2>2, <2>3, Typed DEF Becomes
  <2>5. \A c \in desired : Client.ch[c].next # 0 => u.shown[c] = u.ch[c].rows
    BY <2>3, Typed DEF ClientInv, Fresh, ChannelFresh
  <2>6. PageEnds(desired, Client, n, u)
    BY <1>1, <2>1, <2>2, <2>3, <2>5, Typed DEF PageEnds
  <2>7. ClientInv(desired, u, Way)
    BY <2>3, <2>6, PageEndsKeeps, Typed
  <2>8. QED BY <1>1, <2>3, <2>4, <2>7, OwnTurnKeeps, Typed
<1>4. QED BY <1>2, <1>3

\* A new channel is in a state a channel may be in.
LEMMA FreshTyped ==
  /\ FreshChannel \in ChannelStates
  /\ FreshChannel.reg = 0 /\ FreshChannel.sid = 0 /\ FreshChannel.retry = FALSE
  /\ FreshChannel.next = 0 /\ FreshChannel.rows = NoRows
<1>1. /\ NoRows \in [Rows -> Values] /\ 0 \in 0..(MaxChanges + 1)
      /\ 0 \in 0..MaxAttempts
  BY DeltaAssumption DEF DeltaAssumption, NoRows, Values
<1>2. QED BY <1>1 DEF FreshChannel, ChannelStates

\* The desired ids change.
LEMMA SetDesiredSupersedes ==
  ASSUME IInv, NEW D \in SUBSET Channels, SetDesired(D)
  PROVE  \E r \in ClientStates :
           Becomes(r) /\ Supersedes(desired, Client, D \ desired, D, r)
<1> DEFINE a == Unregister(Client, desired \ D)
           ch2 == [c \in Channels |-> IF c \in desired \cap D THEN a.ch[c]
                                      ELSE FreshChannel]
           b == [a EXCEPT !.ch = ch2]
           e == Register(b, D \ desired)
           r == Emit(e)
<1>1. /\ Becomes(r) /\ desired' = D /\ ~disposed
      /\ UNCHANGED <<disposed, connected, daemonVars, faults>>
  BY DEF SetDesired
<1>2. UnregisteredAs(Client, desired \ D, a)
  <2>1. desired \ D \in SUBSET Channels
    BY Typed
  <2>2. QED BY <2>1, Unregisters, Typed
<1>3. a \in ClientStates /\ a.ch \in [Channels -> ChannelStates]
  BY <1>2 DEF UnregisteredAs, ClientStates
<1> HIDE DEF a
<1>4. /\ ch2 \in [Channels -> ChannelStates]
      /\ \A c \in desired \cap D : ch2[c] = ch[c]
      /\ \A c \in Channels : c \notin desired \cap D => ch2[c] = FreshChannel
  BY <1>2, <1>3, FreshTyped, Typed DEF UnregisteredAs
<1> HIDE DEF ch2
<1>5. /\ b \in ClientStates /\ b.ch = ch2 /\ b.page = page /\ b.buffer = buffer
      /\ b.attempts = attempts /\ b.req = req /\ b.of = of /\ b.shown = shown
      /\ b.released = a.released
  <2>1. /\ a.page = page /\ a.buffer = buffer
        /\ a.attempts = attempts /\ a.req = req /\ a.of = of /\ a.shown = shown
    BY <1>2, Typed DEF UnregisteredAs
  <2>2. QED BY <1>3, <1>4, <2>1 DEF ClientStates
<1> HIDE DEF b
<1>6. RegisteredAs(b, D \ desired, e)
  <2>1. D \ desired \in SUBSET Channels
    OBVIOUS
  <2>2. QED BY <1>5, <2>1, Registers
<1>7. e \in ClientStates
  BY <1>6 DEF RegisteredAs
<1> HIDE DEF e
<1>8. /\ r \in ClientStates /\ r.ch = e.ch /\ r.page = e.page
      /\ r.buffer = e.buffer /\ r.attempts = e.attempts /\ r.req = e.req
      /\ r.of = e.of /\ r.released = e.released
      /\ r.shown = [c \in Channels |-> r.ch[c].rows]
  BY <1>7, Emits
<1> HIDE DEF r
<1>9. NewAttempts(Client, r) = NewAttempts(b, e)
  BY <1>5, <1>8, Typed DEF NewAttempts
<1>10. /\ Client.attempts <= r.attempts /\ r.attempts <= MaxAttempts
       /\ r.buffer = Client.buffer /\ r.page = Client.page
       /\ r.released = a.released
  BY <1>1, <1>5, <1>6, <1>8, Typed DEF Becomes, RegisteredAs
<1>11. \A c \in D \ desired :
         /\ r.ch[c].reg \in NewAttempts(Client, r)
         /\ r.ch[c].reg \in Attempts => r.of[r.ch[c].reg] = c
         /\ r.ch[c].sid = 0 /\ ~r.ch[c].retry /\ r.ch[c].next = 0
  <2>1. ASSUME NEW c \in D \ desired
        PROVE  b.ch[c] = FreshChannel
    BY <1>4, <1>5
  <2>2. QED BY <1>6, <1>8, <1>9, <2>1, FreshTyped DEF RegisteredAs, SameReplica
<1>12. ASSUME NEW c \in D \ (D \ desired)
       PROVE  /\ r.ch[c] = Client.ch[c]
              /\ r.ch[c].next # 0 => r.shown[c] = r.ch[c].rows
              /\ r.page[Client.ch[c].reg] = Client.page[Client.ch[c].reg]
  <2>1. r.ch[c] = Client.ch[c]
    BY <1>4, <1>5, <1>6, <1>8, Typed DEF RegisteredAs
  <2>2. QED BY <1>8, <1>10, <2>1
<1>13. \A c \in Channels \ D :
         r.ch[c].reg = 0 /\ r.ch[c].sid = 0 /\ ~r.ch[c].retry
  <2>1. ASSUME NEW c \in Channels \ D
        PROVE  r.ch[c] = FreshChannel
    BY <1>4, <1>5, <1>6, <1>8 DEF RegisteredAs
  <2>2. QED BY <2>1, FreshTyped
<1>14. \A n \in Attempts :
         IF n \in NewAttempts(Client, r)
         THEN r.req[n] = "asked"
         ELSE r.req[n] = Client.req[n] /\ r.of[n] = Client.of[n]
  BY <1>5, <1>6, <1>8, <1>9, Typed DEF RegisteredAs
<1>15. ASSUME NEW c \in desired, Client.ch[c].sid # 0
       PROVE  c \in D \ (D \ desired) \/ Client.ch[c].sid \in r.released
  <2>1. /\ Client.ch[c].reg \in Attempts
        /\ Client.ch[c].sid \in {0, Client.ch[c].reg}
    BY OwnAttempt, Typed DEF ClientInv
  <2>2. Client.ch[c].sid \in Attempts
    BY <1>15, <2>1
  <2>3. QED BY <1>2, <1>10, <1>15, <2>2 DEF UnregisteredAs
<1>16. Client.released \subseteq r.released
  BY <1>2, <1>10, Typed DEF UnregisteredAs
<1>17. /\ D \ desired \subseteq D /\ D \subseteq desired \cup (D \ desired)
       /\ \A n \in Attempts : r.page[n] \in {Client.page[n], "none"}
       /\ D \ desired \in SUBSET Channels
  BY <1>10
<1>18. NothingNewShown(Client, r)
  <2>1. ASSUME NEW c \in Channels
        PROVE  r.ch[c].rows = b.ch[c].rows /\ r.shown[c] = r.ch[c].rows
    BY <1>6, <1>8 DEF RegisteredAs, SameReplica
  <2>2. ASSUME NEW c \in Channels
        PROVE  b.ch[c].rows \in {Client.ch[c].rows, NoRows}
    BY <1>4, <1>5, FreshTyped, Typed
  <2>3. QED BY <2>1, <2>2 DEF NothingNewShown
<1>19. Supersedes(desired, Client, D \ desired, D, r)
  BY <1>10, <1>11, <1>12, <1>13, <1>14, <1>15, <1>16, <1>17, <1>18 DEF Supersedes
<1>20. QED BY <1>1, <1>8, <1>19

\* It keeps the invariant.
LEMMA SetDesiredKeeps ==
  ASSUME IInv, NEW D \in SUBSET Channels, SetDesired(D)
  PROVE  IInv'
<1>1. PICK r \in ClientStates :
        Becomes(r) /\ Supersedes(desired, Client, D \ desired, D, r)
  BY SetDesiredSupersedes
<1>2. ClientInv(D, r, Way)
  <2>1. D \ desired \in SUBSET Channels
    OBVIOUS
  <2>2. QED BY <1>1, <2>1, SupersedesKeeps, Typed
<1>3. /\ UNCHANGED <<store, changes, live, sent, wire, cut, pageRows>>
      /\ pageRows' \in [Attempts -> PartialRows]
      /\ connected' = connected /\ disposed' \in BOOLEAN
      /\ Closed' /\ desired' = D /\ faults' = faults
  BY DEF SetDesired, IInv, DaemonTyped, daemonVars, Closed
<1>4. QED BY <1>1, <1>2, <1>3, TurnKeeps, Typed

\* The transport is back.
LEMMA ReconnectedSupersedes ==
  ASSUME IInv, Reconnected
  PROVE  /\ live = {}
         /\ \E r \in ClientStates :
              Becomes(r) /\ Supersedes(desired, Client, desired, desired, r)
<1> DEFINE u == [Client EXCEPT !.buffer = <<>>]
           a == Reset(u, desired)
           ch2 == [c \in Channels |->
                     IF c \in desired THEN [a.ch[c] EXCEPT !.sid = 0,
                                                           !.awaiting = FALSE]
                     ELSE a.ch[c]]
           b == [a EXCEPT !.ch = ch2]
           r == Register(b, desired)
<1>1. /\ Becomes(r) /\ ~connected /\ connected' = TRUE
      /\ UNCHANGED <<desired, disposed, daemonVars, faults>>
  BY DEF Reconnected, Renewed
<1>2. /\ u \in ClientStates /\ u.ch = ch /\ u.page = page /\ u.buffer = <<>>
      /\ u.attempts = attempts /\ u.req = req /\ u.of = of /\ u.shown = shown
      /\ u.released = released
  <2>1. <<>> \in Buffers
    BY DeltaAssumption DEF DeltaAssumption, Buffers
  <2>2. QED BY <2>1, Typed DEF ClientStates
<1> HIDE DEF u
<1>3. ResetAs(u, desired, a)
  BY <1>2, Resets, Typed
<1>4. a \in ClientStates /\ a.ch \in [Channels -> ChannelStates]
  BY <1>3 DEF ResetAs, ClientStates
<1> HIDE DEF a
<1>5. ASSUME NEW c \in desired
      PROVE  /\ ch2[c] \in ChannelStates /\ ch2[c].sid = 0 /\ ch2[c].next = 0
             /\ ch2[c].rows = NoRows
  <2>1. c \in Channels /\ a.ch[c] \in ChannelStates /\ a.ch[c].next = 0
        /\ a.ch[c].rows = NoRows /\ 0 \in 0..MaxAttempts
    BY <1>3, <1>4, Typed, DeltaAssumption DEF ResetAs, DeltaAssumption
  <2>2. ch2[c] = [a.ch[c] EXCEPT !.sid = 0, !.awaiting = FALSE]
    BY <2>1
  <2>3. [a.ch[c] EXCEPT !.sid = 0, !.awaiting = FALSE] \in ChannelStates
    BY <2>1 DEF ChannelStates
  <2> HIDE DEF ch2
  <2>4. ch2[c].sid = 0 /\ ch2[c].next = 0 /\ ch2[c].rows = NoRows
    BY <2>1, <2>2 DEF ChannelStates
  <2>5. QED BY <2>2, <2>3, <2>4
<1>6. ch2 \in [Channels -> ChannelStates]
      /\ \A c \in Channels \ desired : ch2[c] = ch[c]
  BY <1>2, <1>3, <1>4, <1>5 DEF ResetAs
<1> HIDE DEF ch2
<1>7. /\ b \in ClientStates /\ b.ch = ch2 /\ b.page = a.page /\ b.buffer = <<>>
      /\ b.attempts = attempts /\ b.req = req /\ b.of = of /\ b.shown = shown
      /\ b.released = released
  <2>1. /\ a.buffer = <<>> /\ a.attempts = attempts /\ a.req = req /\ a.of = of
        /\ a.shown = shown /\ a.released = released
    BY <1>2, <1>3 DEF ResetAs
  <2>2. QED BY <1>4, <1>6, <2>1 DEF ClientStates
<1> HIDE DEF b
<1>8. RegisteredAs(b, desired, r)
  BY <1>7, Registers, Typed
<1> HIDE DEF r
<1>9. NewAttempts(Client, r) = NewAttempts(b, r)
  BY <1>7, Typed DEF NewAttempts
<1>10. /\ Client.attempts <= r.attempts /\ r.attempts <= MaxAttempts
       /\ r.buffer = <<>> /\ r.released = Client.released /\ r.page = a.page
       /\ r \in ClientStates
  BY <1>1, <1>7, <1>8, Typed DEF Becomes, RegisteredAs
<1>11. \A c \in desired :
         /\ r.ch[c].reg \in NewAttempts(Client, r)
         /\ r.ch[c].reg \in Attempts => r.of[r.ch[c].reg] = c
         /\ r.ch[c].sid = 0 /\ ~r.ch[c].retry /\ r.ch[c].next = 0
  BY <1>5, <1>7, <1>8, <1>9 DEF RegisteredAs, SameReplica
<1>12. \A c \in Channels \ desired :
         r.ch[c].reg = 0 /\ r.ch[c].sid = 0 /\ ~r.ch[c].retry
  <2>1. ASSUME NEW c \in Channels \ desired
        PROVE  r.ch[c] = Client.ch[c] /\ ChannelRegistered(desired, Client, c)
    BY <1>6, <1>7, <1>8, Typed DEF RegisteredAs, ClientInv, Registered
  <2>2. QED BY <2>1 DEF ChannelRegistered
<1>13. \A n \in Attempts :
         IF n \in NewAttempts(Client, r)
         THEN r.req[n] = "asked"
         ELSE r.req[n] = Client.req[n] /\ r.of[n] = Client.of[n]
  BY <1>7, <1>8, <1>9, Typed DEF RegisteredAs
<1>14. \A n \in Attempts : r.page[n] \in {Client.page[n], "none"}
  BY <1>2, <1>3, <1>10, Typed DEF ResetAs
<1>15. live = {}
  BY <1>1, Typed DEF IInv, DaemonTyped, ClientInv, Alive
<1>16. NothingNewShown(Client, r)
  <2>1. ASSUME NEW c \in Channels
        PROVE  r.ch[c].rows \in {Client.ch[c].rows, NoRows}
    <3>1. CASE c \in desired
      BY <1>5, <1>7, <1>8, <3>1 DEF RegisteredAs, SameReplica
    <3>2. CASE c \notin desired
      BY <1>6, <1>7, <1>8, <3>2, Typed DEF RegisteredAs
    <3>3. QED BY <3>1, <3>2
  <2>2. r.shown = Client.shown
    BY <1>7, <1>8, Typed DEF RegisteredAs
  <2>3. QED BY <2>1, <2>2 DEF NothingNewShown
<1>17. Supersedes(desired, Client, desired, desired, r)
  BY <1>10, <1>11, <1>12, <1>13, <1>14, <1>15, <1>16 DEF Supersedes
<1>18. QED BY <1>1, <1>10, <1>15, <1>17

\* It keeps the invariant.
LEMMA ReconnectedKeeps ==
  ASSUME IInv, Reconnected
  PROVE  IInv'
<1>1. live = {}
      /\ \E r \in ClientStates :
           Becomes(r) /\ Supersedes(desired, Client, desired, desired, r)
  BY ReconnectedSupersedes
<1>2. PICK r \in ClientStates :
        Becomes(r) /\ Supersedes(desired, Client, desired, desired, r)
  BY <1>1
<1>3. ClientInv(desired, r, Way)
  BY <1>2, SupersedesKeeps, Typed
<1>4. /\ UNCHANGED <<store, changes, live, sent, wire, cut, pageRows>>
      /\ pageRows' \in [Attempts -> PartialRows]
      /\ disposed' \in BOOLEAN /\ Closed' /\ desired' = desired
      /\ connected' = TRUE /\ faults' = faults
  BY DEF Reconnected, IInv, DaemonTyped, daemonVars, Closed
<1>5. QED BY <1>1, <1>2, <1>3, <1>4, TurnKeeps, Typed

\* The disposer.
LEMMA DisposeSupersedes ==
  ASSUME IInv, Dispose
  PROVE  \E r \in ClientStates :
           Becomes(r) /\ Supersedes(desired, Client, {}, {}, r)
<1> DEFINE a == Unregister(Client, desired)
           page2 == [n \in Attempts |-> "none"]
           r == [a EXCEPT !.page = page2]
<1>1. /\ Becomes(r) /\ desired' = {} /\ disposed' = TRUE
      /\ UNCHANGED <<connected, daemonVars, faults>>
  BY DEF Dispose
<1>2. UnregisteredAs(Client, desired, a)
  BY Unregisters, Typed
<1>3. a \in ClientStates
  BY <1>2 DEF UnregisteredAs
<1> HIDE DEF a
<1>4. page2 \in [Attempts -> Pages] /\ \A n \in Attempts : page2[n] = "none"
  BY DEF Pages
<1> HIDE DEF page2
<1>5. /\ r \in ClientStates /\ r.ch = a.ch /\ r.page = page2
      /\ r.buffer = buffer /\ r.attempts = attempts /\ r.req = req /\ r.of = of
      /\ r.released = a.released /\ r.shown = shown
  <2>1. a.buffer = buffer /\ a.attempts = attempts /\ a.req = req /\ a.of = of
        /\ a.shown = shown
    BY <1>2, Typed DEF UnregisteredAs
  <2>2. QED BY <1>3, <1>4, <2>1 DEF ClientStates
<1> HIDE DEF r
<1>6. NewAttempts(Client, r) = {}
  BY <1>5, Typed DEF NewAttempts
<1>7. ASSUME NEW c \in Channels
      PROVE  r.ch[c].reg = 0 /\ r.ch[c].sid = 0 /\ ~r.ch[c].retry
  <2>1. CASE c \in desired
    BY <1>2, <1>5, <2>1 DEF UnregisteredAs
  <2>2. CASE c \notin desired
    <3>1. r.ch[c] = Client.ch[c] /\ ChannelRegistered(desired, Client, c)
      BY <1>2, <1>5, <2>2, Typed DEF UnregisteredAs, ClientInv, Registered
    <3>2. QED BY <2>2, <3>1 DEF ChannelRegistered
  <2>3. QED BY <2>1, <2>2
<1>8. ASSUME NEW c \in desired, Client.ch[c].sid # 0
      PROVE  Client.ch[c].sid \in r.released
  <2>1. /\ Client.ch[c].reg \in Attempts
        /\ Client.ch[c].sid \in {0, Client.ch[c].reg}
    BY OwnAttempt, Typed DEF ClientInv
  <2>2. Client.ch[c].sid \in Attempts
    BY <1>8, <2>1
  <2>3. QED BY <1>2, <1>5, <1>8, <2>2 DEF UnregisteredAs
<1>9. Client.released \subseteq r.released
  BY <1>2, <1>5, Typed DEF UnregisteredAs
<1>10. NothingNewShown(Client, r)
  <2>1. ASSUME NEW c \in Channels
        PROVE  r.ch[c].rows = Client.ch[c].rows
    BY <1>2, <1>5 DEF UnregisteredAs
  <2>2. QED BY <1>5, <2>1, Typed DEF NothingNewShown
<1>11. Supersedes(desired, Client, {}, {}, r)
  BY <1>4, <1>5, <1>6, <1>7, <1>8, <1>9, <1>10, Typed DEF Supersedes
<1>12. QED BY <1>1, <1>5, <1>11

\* It keeps the invariant.
LEMMA DisposeKeeps ==
  ASSUME IInv, Dispose
  PROVE  IInv'
<1>1. PICK r \in ClientStates :
        Becomes(r) /\ Supersedes(desired, Client, {}, {}, r)
  BY DisposeSupersedes
<1>2. desired' = {} /\ ClientInv({}, r, Way)
  <2>1. {} \in SUBSET Channels
    OBVIOUS
  <2>2. QED BY <1>1, <2>1, SupersedesKeeps, Typed DEF Dispose
<1>3. /\ UNCHANGED <<store, changes, live, sent, wire, cut, pageRows, faults>>
      /\ pageRows' \in [Attempts -> PartialRows]
      /\ connected' = connected /\ disposed' \in BOOLEAN /\ Closed'
      /\ desired' \subseteq Channels
  BY DEF Dispose, IInv, DaemonTyped, daemonVars, Closed
<1>4. QED BY <1>1, <1>2, <1>3, TurnKeeps, Typed

-----------------------------------------------------------------------------
(* The daemon's and the transport's steps.                                 *)

\* For an attempt that is not answered yet nothing is on its way, and the
\* channel it was made for has nothing.
LEMMA UnansweredHasNothing ==
  ASSUME IInv, NEW n \in Attempts, req[n] = "asked"
  PROVE  /\ n <= attempts /\ n \notin live /\ Range(wire[n]) = {}
         /\ \A p \in Range(buffer) : p.sub # n
         /\ \A c \in desired : ch[c].reg = n =>
              ch[c].sid = 0 /\ ~ch[c].retry /\ ch[c].next = 0
         /\ \A c \in desired : ch[c].sid # n
<1>1. n <= attempts /\ n \notin live
  <2>1. n \in Nat /\ attempts \in Nat /\ req[n] # "none"
    BY Typed DEF Attempts
  <2>2. ~(n > attempts)
    BY <2>1, Typed DEF ClientInv, Registered
  <2>3. n \notin live
    BY Typed DEF ClientInv, Alive
  <2>4. QED BY <2>1, <2>2, <2>3
<1>2. Coming(Client, Way, n) = {}
  BY Typed DEF ClientInv, Issued
<1>3. Range(wire[n]) = {} /\ \A p \in Range(buffer) : p.sub # n
  BY <1>2, Typed DEF Coming, Way
<1>4. ASSUME NEW c \in desired
      PROVE  /\ ch[c].reg = n => ch[c].sid = 0 /\ ~ch[c].retry /\ ch[c].next = 0
             /\ ch[c].sid # n
  <2>1. n # 0
    BY DeltaAssumption DEF Attempts, DeltaAssumption
  <2>2. ChannelRegistered(desired, Client, c) /\ ChannelFresh(Client, c)
    BY Typed DEF ClientInv, Registered, Fresh
  <2>3. ch[c].reg = n => ch[c].sid = 0 /\ ~ch[c].retry
    BY <2>2, Typed DEF ChannelRegistered
  <2>4. ch[c].sid # n
    BY <2>1, <2>2, Typed DEF ChannelRegistered
  <2>5. ch[c].sid = 0 => ch[c].next = 0
    BY <2>2, Typed DEF ChannelFresh
  <2>6. QED BY <2>3, <2>4, <2>5
<1>5. QED BY <1>1, <1>3, <1>4

\* The client's part of a step of the daemon's: only requests and continuations
\* may have changed.
ClientKeeps ==
  UNCHANGED <<desired, disposed, ch, buffer, shown, attempts, of, released>>

\* What that says of the client states before and after.
LEMMA ClientAfter ==
  ASSUME IInv, ClientKeeps, req' \in [Attempts -> Statuses],
         page' \in [Attempts -> Pages]
  PROVE  /\ Client' \in ClientStates /\ ClientStates' = ClientStates
         /\ Client'.ch = ch /\ Client'.buffer = buffer /\ Client'.shown = shown
         /\ Client'.attempts = attempts /\ Client'.req = req'
         /\ Client'.of = of /\ Client'.page = page'
         /\ Client'.released = released
         /\ desired' = desired /\ released' = released /\ disposed' = disposed
         /\ Closed'
<1>1. /\ Client'.ch = ch /\ Client'.buffer = buffer /\ Client'.shown = shown
      /\ Client'.attempts = attempts /\ Client'.req = req'
      /\ Client'.of = of /\ Client'.page = page' /\ Client'.released = released
  BY DEF Client, ClientKeeps
<1>2. Client' \in ClientStates
  BY Typed DEF Client, ClientKeeps, ClientStates
<1>3. Closed'
  BY DEF Closed, IInv, ClientKeeps
<1>4. QED BY <1>1, <1>2, <1>3 DEF ClientKeeps

\* A channel whose subscription, rows and pushes are left alone follows as before.
LEMMA FollowsStill ==
  ASSUME IInv, ClientKeeps, NEW c \in desired, NEW n, ch[c].reg = n,
         Client'.ch = ch, Client'.page = page', store'[c] = store[c],
         n \in live' =>
           /\ n \in live /\ sent'[n] = sent[n] /\ cut'[n] = cut[n]
           /\ pageRows'[n] = pageRows[n] /\ page'[n] = page[n]
           /\ Coming(Client', Way', n) = Coming(Client, Way, n)
  PROVE  ChannelFollows(Client, Way, c)'
<1>1. SUFFICES ASSUME n \in live', Complete(Client, Way, c)', NEW i \in Rows
               PROVE  RowRight(Client, Way, c, i)'
  BY DEF ChannelFollows
<1>2. /\ n \in live /\ sent'[n] = sent[n] /\ cut'[n] = cut[n]
      /\ pageRows'[n] = pageRows[n] /\ page'[n] = page[n]
      /\ Coming(Client', Way', n) = Coming(Client, Way, n)
      /\ Client.ch = ch /\ Client.page = page
  BY <1>1, Typed
<1>3. Complete(Client, Way, c)
  BY <1>1, <1>2 DEF Complete
<1>4. RowRight(Client, Way, c, i)
  BY <1>2, <1>3, Typed DEF ClientInv, Follows, ChannelFollows
<1>5. Touching(Client', Way', n, i) = Touching(Client, Way, n, i)
  BY <1>2 DEF Touching
<1>6. LastDeltaRight(Client, Way, c, i) => LastDeltaRight(Client, Way, c, i)'
  BY <1>2, <1>5 DEF LastDeltaRight
<1>7. SnapshotRight(Client, Way, c, i) => SnapshotRight(Client, Way, c, i)'
  BY <1>2 DEF SnapshotRight
<1>8. ReplicaRight(Client, c, i) => ReplicaRight(Client, c, i)'
  BY <1>2 DEF ReplicaRight, Missing
<1>9. QED BY <1>2, <1>4, <1>5, <1>6, <1>7, <1>8 DEF RowRight

\* The daemon's answer to an attempt: what it says of the channels' requests.
LEMMA AnswerRegisters ==
  ASSUME IInv, ClientKeeps, NEW n \in Attempts, req[n] = "asked",
         NEW a \in {"acked", "failed"}, req' = [req EXCEPT ![n] = a],
         UNCHANGED page
  PROVE  /\ req' \in [Attempts -> Statuses] /\ page' \in [Attempts -> Pages]
         /\ Registered(desired, Client)'
<1>1. /\ req' \in [Attempts -> Statuses] /\ page' \in [Attempts -> Pages]
      /\ req'[n] = a /\ \A m \in Attempts \ {n} : req'[m] = req[m]
  BY Typed DEF Statuses
<1>2. /\ Client'.ch = ch /\ Client'.attempts = attempts /\ Client'.req = req'
      /\ Client'.of = of /\ desired' = desired
  BY <1>1, ClientAfter
<1>3. ASSUME NEW c \in Channels
      PROVE  ChannelRegistered(desired, Client, c)'
  <2>1. ChannelRegistered(desired, Client, c)
    BY Typed DEF ClientInv, Registered
  <2>2. CASE ch[c].reg = n
    <3>1. c \in desired
      BY <2>1, <2>2, Typed, DeltaAssumption
         DEF ChannelRegistered, Attempts, DeltaAssumption
    <3>2. ch[c].sid = 0 /\ ~ch[c].retry
      BY <2>2, <3>1, UnansweredHasNothing
    <3>3. QED BY <1>2, <2>1, <3>2, Typed DEF ChannelRegistered
  <2>3. CASE ch[c].reg # n
    <3>1. ch[c].reg # 0 => ch[c].reg \in Attempts
      <4>1. CASE c \in desired
        BY <4>1, OwnAttempt, Typed DEF ClientInv
      <4>2. CASE c \notin desired
        BY <2>1, <4>2, Typed DEF ChannelRegistered
      <4>3. QED BY <4>1, <4>2
    <3>2. ch[c].reg # 0 => req'[ch[c].reg] = req[ch[c].reg]
      BY <1>1, <2>3, <3>1
    <3>3. QED BY <1>2, <2>1, <3>2, Typed DEF ChannelRegistered
  <2>4. QED BY <2>2, <2>3
<1>4. \A m \in Attempts : req'[m] = "none" <=> m > attempts
  <2>1. \A m \in Attempts : req[m] = "none" <=> m > attempts
    BY Typed DEF ClientInv, Registered
  <2>2. QED BY <1>1, <2>1
<1>5. QED BY <1>1, <1>2, <1>3, <1>4, Typed DEF Registered

\* The daemon refuses a request.
LEMMA DaemonRefusesKeeps ==
  ASSUME IInv, NEW n \in Attempts, DaemonRefuses(n)
  PROVE  IInv'
<1>1. /\ req[n] = "asked" /\ req' = [req EXCEPT ![n] = "failed"] /\ ClientKeeps
      /\ UNCHANGED <<page, connected, store, changes, live, sent, wire, cut,
                     pageRows>>
      /\ faults' \in 0..MaxFaults
  BY Typed, DeltaAssumption
     DEF DaemonRefuses, ClientKeeps, daemonVars, DeltaAssumption
<1>2. /\ req' \in [Attempts -> Statuses] /\ page' \in [Attempts -> Pages]
      /\ Registered(desired, Client)'
  BY <1>1, AnswerRegisters
<1>3. /\ Client' \in ClientStates /\ ClientStates' = ClientStates
      /\ Client'.ch = ch /\ Client'.buffer = buffer /\ Client'.shown = shown
      /\ Client'.attempts = attempts /\ Client'.req = req' /\ Client'.of = of
      /\ Client'.page = page /\ Client'.released = released
      /\ desired' = desired /\ released' = released /\ disposed' = disposed
      /\ Closed'
  BY <1>1, <1>2, ClientAfter
<1>4. Way' = Way /\ \A m \in Attempts \ {n} : req'[m] = req[m]
  BY <1>1, Typed DEF Way
<1>5. \A m \in Attempts : Coming(Client', Way', m) = Coming(Client, Way, m)
  BY <1>3, <1>4, Typed DEF Coming
<1>6. Alive(Client)'
  <2>1. n \notin live
    BY <1>1, UnansweredHasNothing
  <2>2. QED BY <1>1, <1>3, <1>4, <2>1, Typed DEF ClientInv, Alive
<1>7. Fresh(desired, Client)'
  BY <1>1, <1>3, Typed DEF ClientInv, Fresh, ChannelFresh
<1>8. Ordered(Client, Way)'
  BY <1>3, <1>4, Typed DEF ClientInv, Ordered
<1>9. Issued(Client, Way)'
  <2>1. Issued(Client, Way) /\ Coming(Client, Way, n) = {}
    BY <1>1, Typed DEF ClientInv, Issued
  <2>2. QED BY <1>1, <1>3, <1>4, <1>5, <2>1, Typed DEF Issued
<1>10. Confirmed(desired, Client, Way)'
  BY <1>3, <1>4, Typed DEF ClientInv, Confirmed
<1>11. ASSUME NEW c \in desired
       PROVE  ChannelFollows(Client, Way, c)'
  <2>1. ch[c].reg \in Attempts
    BY OwnAttempt, Typed DEF ClientInv
  <2>2. QED BY <1>1, <1>3, <1>5, <2>1, FollowsStill
<1>12. ClientInv(desired, Client, Way)'
  BY <1>2, <1>3, <1>6, <1>7, <1>8, <1>9, <1>10, <1>11 DEF ClientInv, Follows
<1>13. DaemonTyped' /\ WireOrdered'
  BY <1>1, <1>3 DEF IInv, DaemonTyped, WireOrdered
<1>14. QED BY <1>3, <1>12, <1>13 DEF IInv

\* The daemon ends a subscription it was asked to end.
LEMMA DaemonUnsubscribesKeeps ==
  ASSUME IInv, NEW n \in Attempts, DaemonUnsubscribes(n)
  PROVE  IInv'
<1>1. /\ n \in live /\ live' = live \ {n} /\ sent' = [sent EXCEPT ![n] = 0]
      /\ ClientKeeps /\ UNCHANGED <<req, page, connected, store, changes, wire,
                                    cut, pageRows, faults>>
  BY DEF DaemonUnsubscribes, ClientKeeps, clientVars
<1>2. /\ Client' \in ClientStates /\ ClientStates' = ClientStates
      /\ Client'.ch = ch /\ Client'.buffer = buffer /\ Client'.shown = shown
      /\ Client'.attempts = attempts /\ Client'.req = req /\ Client'.of = of
      /\ Client'.page = page /\ Client'.released = released
      /\ desired' = desired /\ released' = released /\ disposed' = disposed
      /\ Closed'
  BY <1>1, ClientAfter, Typed
<1>3. Way' = Way
  BY <1>1 DEF Way
<1>4. \A m \in Attempts : Coming(Client', Way', m) = Coming(Client, Way, m)
  BY <1>2, <1>3, Typed DEF Coming
<1>5. /\ sent \in [Attempts -> Values] /\ 0 \in Values /\ changes \in Nat
      /\ sent' \in [Attempts -> Values]
      /\ \A m \in Attempts : sent'[m] = IF m = n THEN 0 ELSE sent[m]
  BY <1>1, DeltaAssumption DEF IInv, DaemonTyped, Values, DeltaAssumption
<1>6. Registered(desired, Client)'
  BY <1>2, Typed DEF ClientInv, Registered, ChannelRegistered
<1>7. Alive(Client)'
  <2>1. \A m \in Attempts : sent'[m] \in 0..changes
    BY <1>5, Typed DEF ClientInv, Alive
  <2>2. QED BY <1>1, <1>2, <1>5, <2>1, Typed DEF ClientInv, Alive
<1>8. Fresh(desired, Client)'
  <2>1. ASSUME NEW c \in desired
        PROVE  ChannelFresh(Client, c)'
    <3>1. ChannelFresh(Client, c) /\ ch[c].reg \in Attempts
      BY OwnAttempt, Typed DEF ClientInv, Fresh
    <3>2. QED BY <1>1, <1>2, <1>5, <3>1, Typed DEF ChannelFresh
  <2>2. QED BY <1>1, <1>2, <2>1, Typed DEF ClientInv, Fresh
<1>9. Ordered(Client, Way)'
  BY <1>2, <1>3, Typed DEF ClientInv, Ordered
<1>10. Issued(Client, Way)'
  BY <1>1, <1>2, <1>4, <1>5, Typed DEF ClientInv, Issued
<1>11. Confirmed(desired, Client, Way)'
  BY <1>2, <1>3, Typed DEF ClientInv, Confirmed
<1>12. ASSUME NEW c \in desired
       PROVE  ChannelFollows(Client, Way, c)'
  <2>1. ch[c].reg \in Attempts
    BY OwnAttempt, Typed DEF ClientInv
  <2>2. QED BY <1>1, <1>2, <1>4, <1>5, <2>1, FollowsStill
<1>13. ClientInv(desired, Client, Way)'
  BY <1>2, <1>6, <1>7, <1>8, <1>9, <1>10, <1>11, <1>12 DEF ClientInv, Follows
<1>14. DaemonTyped' /\ WireOrdered'
  BY <1>1, <1>2, <1>5 DEF IInv, DaemonTyped, WireOrdered
<1>15. QED BY <1>2, <1>13, <1>14 DEF IInv

\* The connection drops.
LEMMA DropKeeps ==
  ASSUME IInv, Drop
  PROVE  IInv'
<1>1. /\ connected' = FALSE /\ faults' \in 0..MaxFaults /\ live' = {}
      /\ wire' = [m \in Attempts |-> <<>>]
      /\ sent' = [m \in Attempts |-> 0] /\ cut' = [m \in Attempts |-> {}]
      /\ req' = [m \in Attempts |->
           IF req[m] \in {"asked", "acked"} THEN "failed" ELSE req[m]]
      /\ page' = [m \in Attempts |->
           IF page[m] \in {"asked", "read"} THEN "gaveup" ELSE page[m]]
      /\ ClientKeeps /\ UNCHANGED <<store, changes, pageRows>>
  BY Typed, DeltaAssumption DEF Drop, ClientKeeps, DeltaAssumption
<1>2. /\ req' \in [Attempts -> Statuses] /\ page' \in [Attempts -> Pages]
      /\ \A m \in Attempts : /\ req[m] = "none" <=> req'[m] = "none"
                             /\ req'[m] # "asked"
                             /\ req[m] \in {"timedout", "done"} => req'[m] = req[m]
                             /\ page[m] = "none" => page'[m] = "none"
  BY <1>1, Typed DEF Statuses, Pages
<1>3. /\ Client' \in ClientStates /\ ClientStates' = ClientStates
      /\ Client'.ch = ch /\ Client'.buffer = buffer /\ Client'.shown = shown
      /\ Client'.attempts = attempts /\ Client'.req = req' /\ Client'.of = of
      /\ Client'.page = page' /\ Client'.released = released
      /\ desired' = desired /\ released' = released /\ disposed' = disposed
      /\ Closed'
  BY <1>1, <1>2, ClientAfter
<1>4. \A m \in Attempts : Way'[m] = {}
  BY <1>1 DEF Way, Range
<1>5. Registered(desired, Client)'
  <2>1. ASSUME NEW c \in Channels
        PROVE  ChannelRegistered(desired, Client, c)'
    <3>1. ChannelRegistered(desired, Client, c)
      BY Typed DEF ClientInv, Registered
    <3>2. c \in desired => ch[c].reg \in Attempts
      BY OwnAttempt, Typed DEF ClientInv
    <3>3. QED BY <1>2, <1>3, <3>1, <3>2, Typed DEF ChannelRegistered
  <2>2. \A m \in Attempts : req[m] = "none" <=> m > attempts
    BY Typed DEF ClientInv, Registered
  <2>3. QED BY <1>2, <1>3, <2>1, <2>2, Typed DEF Registered
<1>6. changes \in Nat /\ Alive(Client)'
  BY <1>1, DeltaAssumption DEF IInv, DaemonTyped, Values, DeltaAssumption, Alive
<1>7. Fresh(desired, Client)'
  <2>1. ASSUME NEW c \in desired
        PROVE  ChannelFresh(Client, c)'
    <3>1. ChannelFresh(Client, c) /\ ch[c].reg \in Attempts
      BY OwnAttempt, Typed DEF ClientInv, Fresh
    <3>2. QED BY <1>1, <1>2, <1>3, <3>1, Typed DEF ChannelFresh
  <2>2. QED BY <1>2, <1>3, <2>1, Typed DEF ClientInv, Fresh
<1>8. \A p \in Range(buffer) : p \in Pushes /\ p.sub \in Attempts
  BY ClientFields, PushFields, Typed
<1>9. Ordered(Client, Way)'
  BY <1>3, <1>4, <1>8, Typed DEF ClientInv, Ordered
<1>10. \A m \in Attempts : /\ Coming(Client', Way', m) \subseteq Coming(Client, Way, m)
                           /\ m \notin live'
  BY <1>1, <1>3, <1>4, Typed DEF Coming
<1>11. Issued(Client, Way)'
  BY <1>1, <1>2, <1>3, <1>10, Typed DEF ClientInv, Issued
<1>12. Confirmed(desired, Client, Way)'
  <2>1. ASSUME NEW c \in desired, ch[c].sid # 0
        PROVE  ch[c].sid \in Attempts
    <3>1. ch[c].reg \in Attempts /\ ch[c].sid \in {0, ch[c].reg}
      BY OwnAttempt, Typed DEF ClientInv
    <3>2. QED BY <2>1, <3>1
  <2>2. QED BY <1>3, <1>4, <2>1, Typed DEF ClientInv, Confirmed
<1>13. ClientInv(desired, Client, Way)'
  BY <1>1, <1>5, <1>6, <1>7, <1>9, <1>11, <1>12
     DEF ClientInv, Follows, ChannelFollows
<1>14. DaemonTyped'
  <2>1. /\ sent' \in [Attempts -> Values] /\ cut' \in [Attempts -> SUBSET Rows]
        /\ wire' \in [Attempts -> Seq(Pushes)]
    <3>1. 0 \in Values /\ <<>> \in Seq(Pushes)
      BY DeltaAssumption, EmptySeq DEF Values, DeltaAssumption
    <3>2. QED BY <1>1, <3>1
  <2>2. QED BY <1>1, <1>3, <2>1 DEF IInv, DaemonTyped
<1>15. WireOrdered'
  BY <1>1, EmptySeq DEF WireOrdered
<1>16. QED BY <1>3, <1>13, <1>14, <1>15 DEF IInv

\* The list read behind a continuation: what the client has not got comes as it
\* is now.
LEMMA ReadIsRight ==
  ASSUME IInv, ClientKeeps, NEW c \in desired, NEW n \in Attempts,
         ch[c].reg = n, of[n] = c, NEW i \in Rows,
         Client'.ch = ch, Client'.page = page', UNCHANGED store,
         page[n] = "asked", page'[n] = "read",
         pageRows'[n] = [j \in Present(of[n]) \ cut[n] |-> store[of[n]][j]],
         ReplicaRight(Client, c, i)
  PROVE  ReplicaRight(Client, c, i)'
<1>1. \/ ch[c].rows[i] = store[c][i]
      \/ i \notin cut[n] /\ Missing(Client, c, i)
  BY Typed DEF ReplicaRight
<1>2. Missing(Client', c, i) = Missing(Client, c, i)
  BY Typed DEF Missing
<1>3. /\ DOMAIN pageRows'[n] = Present(c) \ cut[n]
      /\ \A j \in Present(c) \ cut[n] : pageRows'[n][j] = store[c][j]
  OBVIOUS
<1>4. IF i \in DOMAIN pageRows'[n] /\ Missing(Client', c, i)
      THEN pageRows'[n][i] = store[c][i]
      ELSE ch[c].rows[i] = store[c][i]
  <2>1. CASE i \in DOMAIN pageRows'[n] /\ Missing(Client', c, i)
    BY <1>3, <2>1
  <2>2. CASE ~(i \in DOMAIN pageRows'[n] /\ Missing(Client', c, i))
    <3>1. CASE ch[c].rows[i] = store[c][i]
      BY <2>2, <3>1
    <3>2. CASE i \notin cut[n] /\ Missing(Client, c, i)
      <4>1. i \notin Present(c)
        BY <1>2, <1>3, <2>2, <3>2
      <4>2. store[c][i] = 0 /\ ch[c].rows[i] = 0
        BY <3>2, <4>1, Typed DEF Present, Missing
      <4>3. QED BY <2>2, <4>2
    <3>3. QED BY <1>1, <3>1, <3>2
  <2>3. QED BY <2>1, <2>2
<1>5. QED BY <1>4 DEF ReplicaRight, Missing

\* The daemon reads a continuation.
LEMMA DaemonReadsKeeps ==
  ASSUME IInv, NEW n \in Attempts, DaemonReads(n)
  PROVE  IInv'
<1>1. /\ page[n] = "asked" /\ page' = [page EXCEPT ![n] = "read"]
      /\ pageRows' = [pageRows EXCEPT ![n] =
           [i \in Present(of[n]) \ cut[n] |-> store[of[n]][i]]]
      /\ cut' = [cut EXCEPT ![n] = {}]
      /\ ClientKeeps /\ UNCHANGED <<req, connected, store, changes, live, sent,
                                    wire, faults>>
  BY DEF DaemonReads, ClientKeeps
<1>2. /\ store \in [Channels -> [Rows -> Values]]
      /\ pageRows \in [Attempts -> PartialRows]
      /\ cut \in [Attempts -> SUBSET Rows]
  BY DEF IInv, DaemonTyped
<1>3. [i \in Present(of[n]) \ cut[n] |-> store[of[n]][i]] \in PartialRows
  <2> DEFINE I == Present(of[n]) \ cut[n]
             rest == [i \in I |-> store[of[n]][i]]
  <2>1. of[n] \in Channels /\ I \in SUBSET Rows
    BY Typed DEF Present
  <2>2. rest \in [I -> Values]
    BY <1>2, <2>1
  <2> HIDE DEF I, rest
  <2>3. rest \in PartialRows
    BY <2>1, <2>2 DEF PartialRows
  <2>4. QED BY <2>3 DEF rest, I
<1>4. /\ page' \in [Attempts -> Pages] /\ req' \in [Attempts -> Statuses]
      /\ pageRows' \in [Attempts -> PartialRows]
      /\ cut' \in [Attempts -> SUBSET Rows]
      /\ page'[n] = "read"
      /\ pageRows'[n] = [i \in Present(of[n]) \ cut[n] |-> store[of[n]][i]]
      /\ \A m \in Attempts \ {n} : /\ page'[m] = page[m] /\ cut'[m] = cut[m]
                                   /\ pageRows'[m] = pageRows[m]
  BY <1>1, <1>2, <1>3, Typed DEF Pages
<1>5. /\ Client' \in ClientStates /\ ClientStates' = ClientStates
      /\ Client'.ch = ch /\ Client'.buffer = buffer /\ Client'.shown = shown
      /\ Client'.attempts = attempts /\ Client'.req = req /\ Client'.of = of
      /\ Client'.page = page' /\ Client'.released = released
      /\ desired' = desired /\ released' = released /\ disposed' = disposed
      /\ Closed'
  BY <1>1, <1>4, ClientAfter
<1>6. Way' = Way
  BY <1>1 DEF Way
<1>7. \A m \in Attempts : Coming(Client', Way', m) = Coming(Client, Way, m)
  BY <1>5, <1>6, Typed DEF Coming
<1>8. Registered(desired, Client)'
  BY <1>5, Typed DEF ClientInv, Registered, ChannelRegistered
<1>9. Alive(Client)'
  BY <1>1, <1>5, Typed DEF ClientInv, Alive
<1>10. Fresh(desired, Client)'
  <2>1. ASSUME NEW c \in desired
        PROVE  ChannelFresh(Client, c)'
    <3>1. ChannelFresh(Client, c) /\ ch[c].reg \in Attempts
      BY OwnAttempt, Typed DEF ClientInv, Fresh
    <3>2. QED BY <1>1, <1>4, <1>5, <3>1, Typed DEF ChannelFresh
  <2>2. \A m \in Attempts : m > attempts => page'[m] = "none"
    BY <1>1, <1>4, Typed DEF ClientInv, Fresh
  <2>3. QED BY <1>5, <2>1, <2>2 DEF Fresh
<1>11. Ordered(Client, Way)'
  BY <1>5, <1>6, Typed DEF ClientInv, Ordered
<1>12. Issued(Client, Way)'
  BY <1>1, <1>5, <1>7, Typed DEF ClientInv, Issued
<1>13. Confirmed(desired, Client, Way)'
  BY <1>5, <1>6, Typed DEF ClientInv, Confirmed
<1>14. ASSUME NEW c \in desired
       PROVE  ChannelFollows(Client, Way, c)'
  <2>1. ch[c].reg \in Attempts /\ of[ch[c].reg] = c /\ ChannelFresh(Client, c)
    BY OwnAttempt, Typed DEF ClientInv, Fresh
  <2>2. CASE ch[c].reg # n
    BY <1>1, <1>4, <1>5, <1>7, <2>1, <2>2, FollowsStill
  <2>3. CASE ch[c].reg = n
    <3>1. SUFFICES ASSUME n \in live', Complete(Client, Way, c)', NEW i \in Rows
                   PROVE  RowRight(Client, Way, c, i)'
      BY <1>5, <2>3 DEF ChannelFollows
    <3>2. /\ n \in live /\ Client.ch = ch /\ Client'.ch = ch
          /\ Coming(Client', Way', n) = Coming(Client, Way, n)
          /\ sent'[n] = sent[n] /\ store' = store
      BY <1>1, <1>5, <1>7, <3>1, Typed
    <3>3. Complete(Client, Way, c)
      BY <2>3, <3>1, <3>2 DEF Complete
    <3>4. RowRight(Client, Way, c, i)
      BY <2>3, <3>2, <3>3, Typed DEF ClientInv, Follows, ChannelFollows
    <3>5. Touching(Client', Way', n, i) = Touching(Client, Way, n, i)
      BY <3>2 DEF Touching
    <3>6. LastDeltaRight(Client, Way, c, i) => LastDeltaRight(Client, Way, c, i)'
      BY <2>3, <3>2, <3>5 DEF LastDeltaRight
    <3>7. ReplicaRight(Client, c, i) => ReplicaRight(Client, c, i)'
      <4>1. /\ of[n] = c /\ Client'.page = page' /\ UNCHANGED store /\ ClientKeeps
            /\ page[n] = "asked" /\ page'[n] = "read"
            /\ pageRows'[n] = [j \in Present(of[n]) \ cut[n] |-> store[of[n]][j]]
        BY <1>1, <1>4, <1>5, <2>1, <2>3
      <4>2. QED BY <2>3, <3>2, <4>1, ReadIsRight
    <3>8. ch[c].next # 0
      BY <1>1, <2>1, <2>3, Typed DEF ChannelFresh
    <3>9. QED BY <2>3, <3>2, <3>4, <3>5, <3>6, <3>7, <3>8 DEF RowRight
  <2>4. QED BY <2>2, <2>3
<1>15. ClientInv(desired, Client, Way)'
  BY <1>5, <1>8, <1>9, <1>10, <1>11, <1>12, <1>13, <1>14 DEF ClientInv, Follows
<1>16. DaemonTyped' /\ WireOrdered'
  BY <1>1, <1>4, <1>5 DEF IInv, DaemonTyped, WireOrdered
<1>17. QED BY <1>5, <1>15, <1>16 DEF IInv

\* The daemon makes a subscription.
LEMMA DaemonSubscribesKeeps ==
  ASSUME IInv, NEW n \in Attempts, DaemonSubscribes(n)
  PROVE  IInv'
<1>1. /\ req[n] = "asked" /\ connected /\ req' = [req EXCEPT ![n] = "acked"]
      /\ live' = live \cup {n} /\ sent' = [sent EXCEPT ![n] = 1]
      /\ ClientKeeps /\ UNCHANGED <<page, connected, store, changes, pageRows,
                                    faults>>
  BY DEF DaemonSubscribes, ClientKeeps
<1> DEFINE c0 == of[n]
<1>2. PICK first \in SUBSET Present(c0) :
        /\ cut' = [cut EXCEPT ![n] = first]
        /\ wire' = [wire EXCEPT ![n] = <<Push(n, "snapshot", 0,
                      [i \in first |-> store[c0][i]], first # Present(c0))>>]
  BY DEF DaemonSubscribes
<1> DEFINE rows == [i \in first |-> store[c0][i]]
           p == Push(n, "snapshot", 0, rows, first # Present(c0))
<1>3. /\ store \in [Channels -> [Rows -> Values]] /\ c0 \in Channels
      /\ wire \in [Attempts -> Seq(Pushes)] /\ cut \in [Attempts -> SUBSET Rows]
      /\ sent \in [Attempts -> Values] /\ 0 \in Values /\ 1 \in Values
      /\ live \subseteq Attempts
  BY Typed, DeltaAssumption DEF IInv, DaemonTyped, Values, DeltaAssumption
<1>4. first \in SUBSET Rows
  BY DEF Present
<1>5. rows \in PartialRows
  <2>1. rows \in [first -> Values]
    BY <1>3, <1>4
  <2> HIDE DEF rows
  <2>2. QED BY <1>4, <2>1 DEF PartialRows
<1>6. /\ DOMAIN rows = first /\ \A i \in first : rows[i] = store[c0][i]
  OBVIOUS
<1> HIDE DEF rows
<1>7. /\ p \in Pushes /\ p.sub = n /\ p.kind = "snapshot" /\ p.seq = 0
      /\ p.rows = rows /\ (p.more <=> first # Present(c0))
  BY <1>3, <1>5 DEF Push, Pushes
<1>8. wire' = [wire EXCEPT ![n] = <<p>>]
  BY <1>2 DEF rows
<1> HIDE DEF p
<1>9. <<p>> \in Seq(Pushes) /\ DOMAIN <<p>> = {1} /\ Range(<<p>>) = {p}
  BY <1>7 DEF Range
<1>10. /\ wire' \in [Attempts -> Seq(Pushes)] /\ wire'[n] = <<p>>
       /\ cut' \in [Attempts -> SUBSET Rows] /\ cut'[n] = first
       /\ sent' \in [Attempts -> Values] /\ sent'[n] = 1
       /\ \A m \in Attempts \ {n} : /\ wire'[m] = wire[m] /\ cut'[m] = cut[m]
                                    /\ sent'[m] = sent[m] /\ req'[m] = req[m]
       /\ req'[n] = "acked"
  <2>1. /\ wire' \in [Attempts -> Seq(Pushes)] /\ wire'[n] = <<p>>
        /\ \A m \in Attempts \ {n} : wire'[m] = wire[m]
    BY <1>3, <1>8, <1>9
  <2>2. /\ cut' \in [Attempts -> SUBSET Rows] /\ cut'[n] = first
        /\ \A m \in Attempts \ {n} : cut'[m] = cut[m]
    BY <1>2, <1>3, <1>4
  <2>3. /\ sent' \in [Attempts -> Values] /\ sent'[n] = 1
        /\ \A m \in Attempts \ {n} : sent'[m] = sent[m]
    BY <1>1, <1>3
  <2>4. req'[n] = "acked" /\ \A m \in Attempts \ {n} : req'[m] = req[m]
    BY <1>1, Typed DEF IInv, ClientStates
  <2>5. QED BY <2>1, <2>2, <2>3, <2>4
<1>11. /\ Way'[n] = {p} /\ \A m \in Attempts \ {n} : Way'[m] = Way[m]
  BY <1>9, <1>10 DEF Way
<1>12. /\ req' \in [Attempts -> Statuses] /\ page' \in [Attempts -> Pages]
       /\ Registered(desired, Client)'
  BY <1>1, AnswerRegisters
<1>13. /\ Client' \in ClientStates /\ ClientStates' = ClientStates
       /\ Client'.ch = ch /\ Client'.buffer = buffer /\ Client'.shown = shown
       /\ Client'.attempts = attempts /\ Client'.req = req' /\ Client'.of = of
       /\ Client'.page = page /\ Client'.released = released
       /\ desired' = desired /\ released' = released /\ disposed' = disposed
       /\ Closed'
  BY <1>1, <1>12, ClientAfter
<1>14. /\ n <= attempts /\ n \notin live /\ \A q \in Range(buffer) : q.sub # n
       /\ \A c \in desired : ch[c].sid # n
       /\ \A c \in desired : ch[c].reg = n => ch[c].next = 0
  BY <1>1, UnansweredHasNothing
<1>15. /\ Coming(Client', Way', n) = {p}
       /\ \A m \in Attempts \ {n} :
            Coming(Client', Way', m) = Coming(Client, Way, m)
  BY <1>11, <1>13, <1>14, Typed DEF Coming
<1>16. changes \in Nat /\ changes >= 1
  BY DeltaAssumption DEF IInv, DaemonTyped, Values, DeltaAssumption
<1>17. Alive(Client)'
  <2>1. \A m \in Attempts : sent'[m] \in 0..changes
    <3>1. \A m \in Attempts : sent[m] \in 0..changes
      BY Typed DEF ClientInv, Alive
    <3>2. QED BY <1>10, <1>16, <3>1
  <2>2. ASSUME NEW m \in Attempts, m \in live'
        PROVE  /\ sent'[m] >= 1 /\ req'[m] \in {"acked", "timedout", "done"}
               /\ req'[m] = "done" => m \in released \/ ch[of[m]].sid = m
    BY <1>1, <1>10, <2>2, Typed DEF ClientInv, Alive
  <2>3. QED BY <1>1, <1>13, <2>1, <2>2 DEF Alive
<1>18. Fresh(desired, Client)'
  <2>1. ASSUME NEW c \in desired
        PROVE  ChannelFresh(Client, c)'
    <3>1. ChannelFresh(Client, c) /\ ch[c].reg \in Attempts
      BY OwnAttempt, Typed DEF ClientInv, Fresh
    <3>2. ch[c].reg = n => ch[c].next <= sent'[ch[c].reg]
      BY <1>10, <1>14
    <3>3. ch[c].reg # n => (ch[c].reg \in live' => ch[c].next <= sent'[ch[c].reg])
      BY <1>1, <1>10, <3>1, Typed DEF ChannelFresh
    <3>4. QED BY <1>13, <3>1, <3>2, <3>3, Typed DEF ChannelFresh
  <2>2. QED BY <1>13, <2>1, Typed DEF ClientInv, Fresh
<1>19. Ordered(Client, Way)'
  <2>1. BufferOrdered(buffer)
    BY Typed DEF ClientInv, Ordered
  <2>2. ASSUME NEW q \in Range(buffer), NEW q2 \in Way'[q.sub]
        PROVE  q.seq < q2.seq
    <3>1. q.sub \in Attempts \ {n}
      BY <1>14, ClientFields, PushFields, Typed
    <3>2. QED BY <1>11, <3>1, Typed DEF ClientInv, Ordered
  <2>3. ASSUME NEW m \in Attempts, NEW q \in Way'[m], NEW q2 \in Way'[m]
        PROVE  q.sub = m /\ (q.seq = q2.seq => q = q2)
    <3>1. CASE m = n
      BY <1>7, <1>11, <3>1
    <3>2. CASE m # n
      BY <1>11, <3>2, Typed DEF ClientInv, Ordered
    <3>3. QED BY <3>1, <3>2
  <2>4. QED BY <1>13, <2>1, <2>2, <2>3 DEF Ordered
<1>20. Issued(Client, Way)'
  <2>1. ASSUME NEW m \in Attempts, NEW q \in Coming(Client', Way', m)
        PROVE  /\ q \in Pushes /\ req'[m] \notin {"none", "asked"}
               /\ q.seq < changes /\ (m \in live' => q.seq < sent'[m])
               /\ (q.kind = "snapshot" <=> q.seq = 0)
    <3>1. CASE m = n
      BY <1>7, <1>10, <1>15, <1>16, <2>1, <3>1
    <3>2. CASE m # n
      BY <1>1, <1>10, <1>15, <2>1, <3>2, Typed DEF ClientInv, Issued
    <3>3. QED BY <3>1, <3>2
  <2>2. QED BY <1>1, <1>13, <2>1 DEF Issued
<1>21. Confirmed(desired, Client, Way)'
  <2>1. ASSUME NEW c \in desired, ch[c].sid # 0
        PROVE  Way'[ch[c].sid] = Way[ch[c].sid]
    <3>1. ch[c].reg \in Attempts /\ ch[c].sid \in {0, ch[c].reg}
      BY OwnAttempt, Typed DEF ClientInv
    <3>2. QED BY <1>11, <1>14, <2>1, <3>1
  <2>2. QED BY <1>13, <2>1, Typed DEF ClientInv, Confirmed
<1>22. ASSUME NEW c \in desired
       PROVE  ChannelFollows(Client, Way, c)'
  <2>1. ch[c].reg \in Attempts /\ of[ch[c].reg] = c
    BY OwnAttempt, Typed DEF ClientInv
  <2>2. CASE ch[c].reg # n
    <3>1. PICK m \in Attempts \ {n} : ch[c].reg = m
      BY <2>1, <2>2
    <3>2. /\ Client'.ch = ch /\ Client'.page = page' /\ store'[c] = store[c]
          /\ ClientKeeps /\ pageRows'[m] = pageRows[m] /\ page'[m] = page[m]
      BY <1>1, <1>13
    <3>3. /\ m \in live' => m \in live
          /\ sent'[m] = sent[m] /\ cut'[m] = cut[m]
          /\ Coming(Client', Way', m) = Coming(Client, Way, m)
      BY <1>1, <1>10, <1>15
    <3>4. QED BY <3>1, <3>2, <3>3, FollowsStill
  <2>3. CASE ch[c].reg = n
    <3>1. ASSUME NEW i \in Rows
          PROVE  RowRight(Client, Way, c, i)'
      <4>1. Touching(Client', Way', n, i) = {}
        BY <1>7, <1>15 DEF Touching
      <4>2. SnapshotRight(Client, Way, c, i)'
        <5>1. i \notin first => p.more \/ store[c][i] = 0
          BY <1>7, <2>1, <2>3 DEF Present
        <5>2. QED BY <1>1, <1>6, <1>7, <1>10, <1>13, <1>15, <2>1, <2>3, <5>1
                  DEF SnapshotRight
      <4>3. QED BY <1>13, <1>14, <2>3, <4>1, <4>2 DEF RowRight
    <3>2. QED BY <3>1 DEF ChannelFollows
  <2>4. QED BY <2>2, <2>3
<1>23. ClientInv(desired, Client, Way)'
  BY <1>12, <1>13, <1>17, <1>18, <1>19, <1>20, <1>21, <1>22 DEF ClientInv, Follows
<1>24. DaemonTyped'
  BY <1>1, <1>3, <1>10, <1>13 DEF IInv, DaemonTyped
<1>25. WireOrdered'
  <2>1. ASSUME NEW m \in Attempts, NEW j \in DOMAIN wire'[m],
               NEW k \in DOMAIN wire'[m], j < k
        PROVE  wire'[m][j].seq < wire'[m][k].seq
    <3>1. CASE m = n
      BY <1>9, <1>10, <2>1, <3>1
    <3>2. CASE m # n
      BY <1>10, <2>1, <3>2 DEF IInv, WireOrdered
    <3>3. QED BY <3>1, <3>2
  <2>2. QED BY <2>1 DEF WireOrdered
<1>26. QED BY <1>13, <1>23, <1>24, <1>25 DEF IInv

\* A subscription's wire with one more push has that one at its end.
LEMMA WithOneMore ==
  ASSUME NEW w \in Seq(Pushes), NEW p \in Pushes
  PROVE  /\ Append(w, p) \in Seq(Pushes)
         /\ Range(Append(w, p)) = Range(w) \cup {p}
         /\ (/\ \A q \in Range(w) : q.seq < p.seq
             /\ \A j, k \in DOMAIN w : j < k => w[j].seq < w[k].seq)
            => \A j, k \in DOMAIN Append(w, p) :
                 j < k => Append(w, p)[j].seq < Append(w, p)[k].seq
<1> DEFINE b == Append(w, p)
           m == Len(w)
<1>1. /\ b \in Seq(Pushes) /\ DOMAIN b = 1..(m + 1) /\ m \in Nat
      /\ DOMAIN w = 1..m /\ b[m + 1] = p /\ \A k \in 1..m : b[k] = w[k]
  BY AppendProperties, LenProperties
<1> HIDE DEF b, m
<1>2. Range(b) = Range(w) \cup {p}
  <2>1. Range(b) \subseteq Range(w) \cup {p}
    <3>1. ASSUME NEW k \in 1..(m + 1)
          PROVE  b[k] \in Range(w) \cup {p}
      <4>1. k \in 1..m \/ k = m + 1
        BY <1>1
      <4>2. QED BY <1>1, <4>1 DEF Range
    <3>2. QED BY <1>1, <3>1 DEF Range
  <2>2. \A k \in 1..m : k \in 1..(m + 1)
    BY <1>1
  <2>3. m + 1 \in 1..(m + 1)
    BY <1>1
  <2>4. QED BY <1>1, <2>1, <2>2, <2>3 DEF Range
<1>3. ASSUME \A q \in Range(w) : q.seq < p.seq,
             \A j, k \in DOMAIN w : j < k => w[j].seq < w[k].seq,
             NEW j \in DOMAIN b, NEW k \in DOMAIN b, j < k
      PROVE  b[j].seq < b[k].seq
  <2>1. j \in 1..m
    BY <1>1, <1>3
  <2>2. CASE k \in 1..m
    BY <1>1, <1>3, <2>1, <2>2
  <2>3. CASE k = m + 1
    BY <1>1, <1>3, <2>1, <2>3 DEF Range
  <2>4. QED BY <1>1, <1>3, <2>2, <2>3
<1>4. QED BY <1>1, <1>2, <1>3 DEF b

\* A row of the collection of channel c0 changes.
LEMMA DaemonChangesKeeps ==
  ASSUME IInv, NEW c0 \in Channels, NEW i0 \in Rows, DaemonChanges(c0, i0)
  PROVE  IInv'
<1> DEFINE told == {n \in live : of[n] = c0}
<1>1. PICK v \in {0, changes'} \ {store[c0][i0]}, loses \in BOOLEAN :
        /\ loses => faults < MaxFaults
        /\ faults' = faults + (IF loses THEN 1 ELSE 0)
        /\ store' = [store EXCEPT ![c0][i0] = v]
        /\ wire' = [n \in Attempts |->
                      IF n \in told /\ ~loses
                      THEN Append(wire[n], Push(n, "delta", sent[n],
                                                [r \in {i0} |-> v], FALSE))
                      ELSE wire[n]]
  BY DEF DaemonChanges
<1>2. /\ changes < MaxChanges /\ changes' = changes + 1
      /\ sent' = [n \in Attempts |-> sent[n] + (IF n \in told THEN 1 ELSE 0)]
      /\ ClientKeeps /\ UNCHANGED <<req, page, connected, live, cut, pageRows>>
  BY DEF DaemonChanges, ClientKeeps, clientVars
<1> HIDE DEF told
<1>3. /\ store \in [Channels -> [Rows -> Values]] /\ changes \in Nat /\ changes # 0
      /\ wire \in [Attempts -> Seq(Pushes)] /\ live \subseteq Attempts
      /\ sent \in [Attempts -> Values] /\ MaxChanges \in Nat
      /\ \A n \in Attempts : sent[n] \in 0..changes
  BY DeltaAssumption, Typed
     DEF IInv, DaemonTyped, Values, DeltaAssumption, ClientInv, Alive
<1>4. v \in Values /\ changes' \in Values /\ changes' # 0 /\ faults' \in 0..MaxFaults
  BY <1>1, <1>2, <1>3, Typed, DeltaAssumption DEF Values, DeltaAssumption
<1> DEFINE rows == [r \in {i0} |-> v]
           delta(n) == Push(n, "delta", sent[n], rows, FALSE)
<1>5. rows \in PartialRows /\ DOMAIN rows = {i0} /\ rows[i0] = v
  <2>1. rows \in [{i0} -> Values] /\ {i0} \in SUBSET Rows
    BY <1>4
  <2>2. QED BY <2>1 DEF PartialRows
<1>6. \A n \in Attempts :
        wire'[n] = IF n \in told /\ ~loses THEN Append(wire[n], delta(n)) ELSE wire[n]
  BY <1>1
<1> HIDE DEF rows
<1>7. ASSUME NEW n \in Attempts
      PROVE  /\ delta(n) \in Pushes /\ delta(n).sub = n /\ delta(n).kind = "delta"
             /\ delta(n).seq = sent[n] /\ delta(n).rows = rows
  <2>1. sent[n] \in Values
    BY <1>3
  <2>2. QED BY <1>5, <2>1 DEF Push, Pushes
<1> HIDE DEF delta
<1>8. \A n \in told : n \in Attempts /\ n \in live /\ of[n] = c0
  BY <1>3 DEF told
<1>9. \A n \in Attempts :
        sent'[n] = IF n \in told THEN sent[n] + 1 ELSE sent[n]
  BY <1>2, <1>3 DEF Values
<1>10. sent' \in [Attempts -> Values] /\ \A n \in Attempts : sent'[n] \in 0..changes'
  <2>1. ASSUME NEW n \in Attempts
        PROVE  sent'[n] \in Values /\ sent'[n] \in 0..changes'
    <3>1. sent[n] \in 0..changes
      BY <1>3
    <3>2. sent'[n] \in 0..changes'
      BY <1>2, <1>3, <1>9, <3>1
    <3>3. QED BY <1>2, <1>3, <3>2 DEF Values
  <2>2. QED BY <1>2, <2>1
<1>11. /\ store' \in [Channels -> [Rows -> Values]] /\ store'[c0][i0] = v
       /\ \A c \in Channels : \A i \in Rows :
            c # c0 \/ i # i0 => store'[c][i] = store[c][i]
       /\ \A c \in Channels \ {c0} : store'[c] = store[c]
  BY <1>1, <1>3, <1>4
<1>12. ASSUME NEW n \in Attempts
       PROVE  /\ wire'[n] \in Seq(Pushes)
              /\ Range(wire'[n]) = Range(wire[n]) \cup
                   (IF n \in told /\ ~loses THEN {delta(n)} ELSE {})
  <2>1. CASE n \in told /\ ~loses
    <3>1. wire'[n] = Append(wire[n], delta(n)) /\ wire[n] \in Seq(Pushes)
      BY <1>3, <1>6, <2>1
    <3>2. Range(wire'[n]) = Range(wire[n]) \cup {delta(n)}
      BY <1>7, <3>1, WithOneMore
    <3>3. QED BY <1>7, <2>1, <3>1, <3>2, AppendProperties
  <2>2. CASE ~(n \in told /\ ~loses)
    BY <1>3, <1>6, <2>2
  <2>3. QED BY <2>1, <2>2
<1>13. \A n \in Attempts :
         Way'[n] = Way[n] \cup (IF n \in told /\ ~loses THEN {delta(n)} ELSE {})
  BY <1>12 DEF Way
<1>14. /\ Client' \in ClientStates /\ ClientStates' = ClientStates
       /\ Client'.ch = ch /\ Client'.buffer = buffer /\ Client'.shown = shown
       /\ Client'.attempts = attempts /\ Client'.req = req /\ Client'.of = of
       /\ Client'.page = page /\ Client'.released = released
       /\ desired' = desired /\ released' = released /\ disposed' = disposed
       /\ Closed'
  BY <1>2, ClientAfter, Typed
<1>15. \A n \in Attempts :
         Coming(Client', Way', n) = Coming(Client, Way, n) \cup
           (IF n \in told /\ ~loses THEN {delta(n)} ELSE {})
  BY <1>13, <1>14, Typed DEF Coming
<1>16. \A n \in told : \A p \in Coming(Client, Way, n) :
         p.seq \in Nat /\ p.seq < sent[n]
  BY <1>8, PushFields, Typed DEF ClientInv, Issued
<1>17. \A n \in told : sent[n] \in Nat /\ sent[n] >= 1
  BY <1>3, <1>8, Typed DEF ClientInv, Alive
<1>18. Registered(desired, Client)'
  BY <1>14, Typed DEF ClientInv, Registered, ChannelRegistered
<1>19. Alive(Client)'
  <2>1. ASSUME NEW n \in Attempts, n \in live
        PROVE  sent'[n] >= 1
    <3>1. sent[n] \in Nat /\ sent[n] >= 1
      BY <1>3, <2>1, Typed DEF ClientInv, Alive
    <3>2. QED BY <1>9, <3>1
  <2>2. QED BY <1>2, <1>10, <1>14, <2>1, Typed DEF ClientInv, Alive
<1>20. Fresh(desired, Client)'
  <2>1. ASSUME NEW c \in desired
        PROVE  ChannelFresh(Client, c)'
    <3>1. /\ ChannelFresh(Client, c) /\ ch[c].reg \in Attempts
          /\ ch[c].next \in Nat
      BY OwnAttempt, ClientFields, Typed DEF ClientInv, Fresh
    <3>2. ch[c].reg \in live => ch[c].next <= sent'[ch[c].reg]
      <4>1. sent[ch[c].reg] \in Nat
        BY <1>3, <3>1
      <4>2. QED BY <1>9, <3>1, <4>1, Typed DEF ChannelFresh
    <3>3. QED BY <1>2, <1>14, <3>1, <3>2, Typed DEF ChannelFresh
  <2>2. QED BY <1>2, <1>14, <2>1, Typed DEF ClientInv, Fresh
<1>21. Ordered(Client, Way)'
  <2>1. BufferOrdered(buffer)
    BY Typed DEF ClientInv, Ordered
  <2>2. ASSUME NEW p \in Range(buffer), NEW q \in Way'[p.sub]
        PROVE  p.seq < q.seq
    <3>1. p.sub \in Attempts
      BY ClientFields, PushFields, Typed
    <3>2. CASE q \in Way[p.sub]
      BY <3>2, Typed DEF ClientInv, Ordered
    <3>3. CASE p.sub \in told /\ q = delta(p.sub)
      <4>1. p \in Coming(Client, Way, p.sub)
        BY Typed DEF Coming
      <4>2. QED BY <1>7, <1>16, <3>1, <3>3, <4>1
    <3>4. QED BY <1>13, <3>1, <3>2, <3>3
  <2>3. ASSUME NEW n \in Attempts, NEW p \in Way'[n], NEW q \in Way'[n]
        PROVE  p.sub = n /\ (p.seq = q.seq => p = q)
    <3>1. \A r \in Way[n] : r.sub = n /\ r \in Coming(Client, Way, n)
      BY Typed DEF ClientInv, Ordered, Coming
    <3>2. CASE n \in told /\ ~loses
      <4>1. \A r \in Way[n] : r.seq # delta(n).seq
        BY <1>7, <1>16, <1>17, <3>1, <3>2
      <4>2. Way'[n] = Way[n] \cup {delta(n)} /\ delta(n).sub = n
        BY <1>7, <1>13, <3>2
      <4>3. QED BY <3>1, <4>1, <4>2, Typed DEF ClientInv, Ordered
    <3>3. CASE ~(n \in told /\ ~loses)
      <4>1. Way'[n] = Way[n]
        BY <1>13, <3>3
      <4>2. QED BY <4>1, Typed DEF ClientInv, Ordered
    <3>4. QED BY <3>2, <3>3
  <2>4. QED BY <1>14, <2>1, <2>2, <2>3 DEF Ordered
<1>22. Issued(Client, Way)'
  <2>1. ASSUME NEW n \in Attempts, NEW p \in Coming(Client', Way', n)
        PROVE  /\ p \in Pushes /\ req[n] \notin {"none", "asked"}
               /\ p.seq < changes' /\ (n \in live => p.seq < sent'[n])
               /\ (p.kind = "snapshot" <=> p.seq = 0)
    <3>1. CASE p \in Coming(Client, Way, n)
      <4>1. /\ p \in Pushes /\ req[n] \notin {"none", "asked"}
            /\ p.seq < changes /\ (n \in live => p.seq < sent[n])
            /\ (p.kind = "snapshot" <=> p.seq = 0)
        BY <3>1, Typed DEF ClientInv, Issued
      <4>2. p.seq \in Nat /\ sent[n] \in Nat
        BY <1>3, <4>1, PushFields
      <4>3. QED BY <1>2, <1>3, <1>9, <4>1, <4>2
    <3>2. CASE n \in told /\ p = delta(n)
      <4>1. n \in live /\ req[n] \notin {"none", "asked"}
        BY <1>8, <3>2, Typed DEF ClientInv, Alive
      <4>2. sent[n] \in Nat /\ sent[n] >= 1 /\ sent[n] <= changes
        BY <1>3, <1>17, <3>2
      <4>3. /\ p \in Pushes /\ p.seq = sent[n] /\ p.kind = "delta"
            /\ sent'[n] = sent[n] + 1
        BY <1>7, <1>9, <3>2
      <4>4. QED BY <1>2, <1>3, <4>1, <4>2, <4>3
    <3>3. QED BY <1>15, <2>1, <3>1, <3>2
  <2>2. QED BY <1>2, <1>14, <2>1 DEF Issued
<1>23. Confirmed(desired, Client, Way)'
  <2>1. ASSUME NEW c \in desired, ch[c].sid # 0
        PROVE  /\ \A p \in Range(buffer) : p.sub # ch[c].sid
               /\ ch[c].next # 0 => \A p \in Way'[ch[c].sid] : ch[c].next <= p.seq
    <3>1. ch[c].reg \in Attempts /\ ch[c].sid = ch[c].reg
      BY <2>1, OwnAttempt, Typed DEF ClientInv
    <3>2. /\ \A p \in Range(buffer) : p.sub # ch[c].sid
          /\ ch[c].next # 0 => \A p \in Way[ch[c].sid] : ch[c].next <= p.seq
      BY <2>1, Typed DEF ClientInv, Confirmed
    <3>3. ch[c].sid \in told => ch[c].next <= delta(ch[c].sid).seq
      BY <1>7, <1>8, <3>1, Typed DEF ClientInv, Fresh, ChannelFresh
    <3>4. QED BY <1>13, <3>1, <3>2, <3>3
  <2>2. QED BY <1>14, <2>1 DEF Confirmed
<1>24. ASSUME NEW c \in desired
       PROVE  ChannelFollows(Client, Way, c)'
  <2>1. PICK n \in Attempts : ch[c].reg = n /\ of[n] = c
    BY OwnAttempt, Typed DEF ClientInv
  <2>2. c \in Channels /\ ChannelFresh(Client, c) /\ ch[c].next \in Nat
    BY ClientFields, Typed DEF ClientInv, Fresh
  <2>3. CASE n \notin told
    <3>1. n \in live' => c # c0
      BY <1>2, <2>1, <2>3 DEF told
    <3>2. CASE n \in live'
      <4>1. Coming(Client', Way', n) = Coming(Client, Way, n) /\ sent'[n] = sent[n]
        BY <1>9, <1>15, <2>3
      <4>2. QED BY <1>2, <1>11, <1>14, <2>1, <2>2, <3>1, <3>2, <4>1, FollowsStill
    <3>3. CASE n \notin live'
      BY <1>14, <2>1, <3>3 DEF ChannelFollows
    <3>4. QED BY <3>2, <3>3
  <2>4. CASE n \in told
    <3>1. SUFFICES ASSUME Complete(Client, Way, c)', NEW i \in Rows
                   PROVE  RowRight(Client, Way, c, i)'
      BY DEF ChannelFollows
    <3>2. /\ Client.ch = ch /\ Client'.ch = ch /\ Client'.page = page
          /\ Client.page = page /\ n \in live /\ sent'[n] = sent[n] + 1
          /\ sent[n] \in Nat /\ ch[c].next <= sent[n] /\ c = c0
      BY <1>8, <1>9, <1>14, <1>17, <2>1, <2>2, <2>4, Typed DEF ChannelFresh
    <3>3. PICK p \in Coming(Client', Way', n) : p.seq = sent[n]
      BY <2>1, <2>2, <3>1, <3>2 DEF Complete
    <3>4. ~loses /\ Coming(Client', Way', n) = Coming(Client, Way, n) \cup {delta(n)}
      <4>1. p \notin Coming(Client, Way, n)
        BY <1>16, <2>4, <3>2, <3>3
      <4>2. QED BY <1>15, <2>4, <3>3, <4>1
    <3>5. CASE i = i0
      <4>1. /\ delta(n) \in Touching(Client', Way', n, i)
            /\ delta(n).rows[i] = store'[c][i]
        BY <1>5, <1>7, <1>11, <3>2, <3>4, <3>5 DEF Touching
      <4>2. \A q \in Touching(Client', Way', n, i) : q.seq <= delta(n).seq
        BY <1>7, <1>16, <2>4, <3>2, <3>4 DEF Touching
      <4>3. LastDeltaRight(Client, Way, c, i)'
        BY <2>1, <3>2, <4>1, <4>2 DEF LastDeltaRight
      <4>4. QED BY <4>3 DEF RowRight
    <3>6. CASE i # i0
      <4>1. Complete(Client, Way, c)
        <5>1. ASSUME NEW s \in ch[c].next..(sent[n] - 1)
              PROVE  \E q \in Coming(Client, Way, n) : q.seq = s
          <6>1. s \in ch[c].next..(sent'[n] - 1) /\ s # sent[n]
            BY <2>2, <3>2
          <6>2. PICK q \in Coming(Client', Way', n) : q.seq = s
            BY <2>1, <3>1, <3>2, <6>1 DEF Complete
          <6>3. QED BY <1>7, <3>4, <6>1, <6>2
        <5>2. QED BY <2>1, <3>2, <5>1 DEF Complete
      <4>2. RowRight(Client, Way, c, i)
        BY <2>1, <3>2, <4>1, Typed DEF ClientInv, Follows, ChannelFollows
      <4>3. Touching(Client', Way', n, i) = Touching(Client, Way, n, i)
        BY <1>5, <1>7, <3>4, <3>6 DEF Touching
      <4>4. store'[c][i] = store[c][i]
        BY <1>11, <2>2, <3>6
      <4>5. LastDeltaRight(Client, Way, c, i) => LastDeltaRight(Client, Way, c, i)'
        BY <2>1, <3>2, <4>3, <4>4 DEF LastDeltaRight
      <4>6. SnapshotRight(Client, Way, c, i) => SnapshotRight(Client, Way, c, i)'
        <5>1. \A q \in Coming(Client', Way', n) :
                q.kind = "snapshot" => q \in Coming(Client, Way, n)
          BY <1>7, <3>4
        <5>2. QED BY <1>2, <2>1, <3>2, <4>4, <5>1 DEF SnapshotRight
      <4>7. ReplicaRight(Client, c, i) => ReplicaRight(Client, c, i)'
        BY <1>2, <2>1, <3>2, <4>4 DEF ReplicaRight, Missing
      <4>8. QED BY <2>1, <3>2, <4>2, <4>3, <4>5, <4>6, <4>7 DEF RowRight
    <3>7. QED BY <3>5, <3>6
  <2>5. QED BY <2>3, <2>4
<1>25. ClientInv(desired, Client, Way)'
  BY <1>14, <1>18, <1>19, <1>20, <1>21, <1>22, <1>23, <1>24 DEF ClientInv, Follows
<1>26. DaemonTyped'
  <2>1. wire' \in [Attempts -> Seq(Pushes)]
    BY <1>1, <1>12
  <2>2. QED BY <1>2, <1>4, <1>10, <1>11, <1>14, <2>1 DEF IInv, DaemonTyped
<1>27. WireOrdered'
  <2>1. ASSUME NEW n \in Attempts, NEW j \in DOMAIN wire'[n],
               NEW k \in DOMAIN wire'[n], j < k
        PROVE  wire'[n][j].seq < wire'[n][k].seq
    <3>1. CASE n \in told /\ ~loses
      <4>1. \A q \in Range(wire[n]) : q.seq < delta(n).seq
        BY <1>7, <1>16, <3>1, Typed DEF Coming, Way
      <4>2. \A l, m \in DOMAIN wire[n] : l < m => wire[n][l].seq < wire[n][m].seq
        BY DEF IInv, WireOrdered
      <4>3. wire'[n] = Append(wire[n], delta(n)) /\ wire[n] \in Seq(Pushes)
        BY <1>3, <1>6, <3>1
      <4>4. QED BY <1>7, <2>1, <4>1, <4>2, <4>3, WithOneMore
    <3>2. CASE ~(n \in told /\ ~loses)
      BY <1>6, <2>1, <3>2 DEF IInv, WireOrdered
    <3>3. QED BY <3>1, <3>2
  <2>2. QED BY <2>1 DEF WireOrdered
<1>28. QED BY <1>14, <1>25, <1>26, <1>27 DEF IInv

-----------------------------------------------------------------------------
(* The invariant, and what follows from it.                                *)

\* The invariant holds of the state createDeltaSubscription() leaves.
LEMMA InitIInv == Init => IInv
<1> SUFFICES ASSUME Init
             PROVE  IInv
  OBVIOUS
<1>1. /\ Channels # {} /\ MaxAttempts \in Nat /\ MaxAttempts # 0
      /\ MaxChanges \in Nat /\ MaxChanges # 0 /\ MaxFaults \in Nat
      /\ MaxBuffered \in Nat /\ Dynamic \in BOOLEAN
      /\ ~Dynamic => \E c \in Channels : Channels = {c}
  BY DeltaAssumption DEF DeltaAssumption
<1>2. /\ NoRows \in [Rows -> Values] /\ <<>> \in Buffers /\ 0 \in Values /\ 1 \in Values
      /\ NoPage \in PartialRows /\ <<>> \in Seq(Pushes)
  <2>1. NoPage \in [{} -> Values] /\ {} \in SUBSET Rows
    BY DEF NoPage
  <2>2. NoPage \in PartialRows
    BY <2>1 DEF PartialRows
  <2>3. QED BY <1>1, <2>2 DEF NoRows, Buffers, Values
<1>3. /\ disposed = FALSE /\ connected = TRUE /\ buffer = <<>>
      /\ attempts \in {0, 1} /\ attempts \in Nat /\ attempts <= MaxAttempts
      /\ \/ desired = {} /\ attempts = 0
         \/ desired = Channels /\ attempts = 1 /\ ~Dynamic
      /\ released = {} /\ live = {} /\ changes = 1 /\ faults = 0
  BY <1>1 DEF Init
<1>4. ASSUME NEW c \in Channels
      PROVE  /\ ch[c] \in ChannelStates /\ ch[c].reg = attempts /\ ch[c].sid = 0
             /\ ~ch[c].retry /\ ~ch[c].awaiting /\ ch[c].next = 0
  <2>1. ch[c] = [FreshChannel EXCEPT !.reg = attempts]
    BY DEF Init
  <2>2. QED BY <1>3, <2>1, FreshTyped DEF FreshChannel, ChannelStates
<1>5. /\ ch \in [Channels -> ChannelStates]
      /\ shown \in [Channels -> [Rows -> Values]]
      /\ req \in [Attempts -> Statuses] /\ of \in [Attempts -> Channels]
      /\ page \in [Attempts -> Pages]
      /\ store \in [Channels -> [Rows -> Values]]
      /\ sent \in [Attempts -> Values] /\ wire \in [Attempts -> Seq(Pushes)]
      /\ cut \in [Attempts -> SUBSET Rows] /\ pageRows \in [Attempts -> PartialRows]
  <2>1. ch \in [Channels -> ChannelStates]
    BY <1>4 DEF Init
  <2>2. shown \in [Channels -> [Rows -> Values]]
    BY <1>2 DEF Init
  <2>3. req \in [Attempts -> Statuses] /\ page \in [Attempts -> Pages]
    BY DEF Init, Statuses, Pages
  <2>4. of \in [Attempts -> Channels]
    BY <1>1 DEF Init
  <2>5. store \in [Channels -> [Rows -> Values]]
    BY <1>2 DEF Init
  <2>6. sent \in [Attempts -> Values] /\ wire \in [Attempts -> Seq(Pushes)]
    BY <1>2 DEF Init
  <2>7. cut \in [Attempts -> SUBSET Rows] /\ pageRows \in [Attempts -> PartialRows]
    BY <1>2 DEF Init
  <2>8. QED BY <2>1, <2>2, <2>3, <2>4, <2>5, <2>6, <2>7
<1>6. /\ Client \in ClientStates
      /\ Client.ch = ch /\ Client.buffer = <<>> /\ Client.shown = shown
      /\ Client.attempts = attempts /\ Client.req = req /\ Client.of = of
      /\ Client.page = page /\ Client.released = {}
  BY <1>2, <1>3, <1>5 DEF Client, ClientStates
<1>7. \A n \in Attempts :
        /\ Way[n] = {} /\ Coming(Client, Way, n) = {} /\ sent[n] = 0
        /\ page[n] = "none"
        /\ req[n] = "none" <=> n > attempts
        /\ req[n] = "asked" <=> n <= attempts
  <2>1. \A n \in Attempts : wire[n] = <<>> /\ sent[n] = 0 /\ page[n] = "none"
    BY DEF Init
  <2>2. Range(<<>>) = {}
    BY DEF Range
  <2>3. ASSUME NEW n \in Attempts
        PROVE  (req[n] = "none" <=> n > attempts) /\ (req[n] = "asked" <=> n <= attempts)
    <3>1. n \in Nat /\ n >= 1
      BY <1>1 DEF Attempts
    <3>2. req[n] = IF n = attempts THEN "asked" ELSE "none"
      BY DEF Init
    <3>3. n = attempts <=> n <= attempts
      BY <1>3, <3>1
    <3>4. QED BY <1>3, <3>1, <3>2, <3>3
  <2>4. QED BY <1>6, <2>1, <2>2, <2>3 DEF Way, Coming
<1>8. Registered(desired, Client)
  <2>1. ASSUME NEW c \in Channels
        PROVE  ChannelRegistered(desired, Client, c)
    <3>1. c \in desired <=> ch[c].reg # 0
      BY <1>3, <1>4
    <3>2. ch[c].reg # 0 => ch[c].reg \in 1..attempts /\ of[ch[c].reg] = c
      <4>1. SUFFICES ASSUME ch[c].reg # 0
                     PROVE  ch[c].reg = 1 /\ attempts = 1 /\ of[1] = c
        OBVIOUS
      <4>2. ch[c].reg = 1 /\ attempts = 1 /\ Channels = {c}
        BY <1>1, <1>3, <1>4, <4>1
      <4>3. 1 \in Attempts
        BY <1>1 DEF Attempts
      <4>4. QED BY <1>5, <4>2, <4>3
    <3>3. QED BY <1>4, <1>6, <3>1, <3>2 DEF ChannelRegistered
  <2>2. QED BY <1>3, <1>6, <1>7, <2>1 DEF Registered
<1>9. Alive(Client)
  BY <1>3, <1>7 DEF Alive
<1>10. Fresh(desired, Client)
  <2>1. ASSUME NEW c \in desired
        PROVE  ChannelFresh(Client, c)
    <3>1. c \in Channels /\ ch[c].reg \in Attempts
      BY <1>1, <1>3, <1>4 DEF Attempts
    <3>2. QED BY <1>3, <1>4, <1>6, <1>7, <3>1 DEF ChannelFresh
  <2>2. QED BY <1>6, <1>7, <2>1 DEF Fresh
<1>11. Ordered(Client, Way)
  BY <1>6, <1>7 DEF Ordered, BufferOrdered, Range
<1>12. Issued(Client, Way)
  BY <1>7 DEF Issued
<1>13. Confirmed(desired, Client, Way)
  BY <1>3, <1>4, <1>6 DEF Confirmed
<1>14. Follows(desired, Client, Way)
  BY <1>3 DEF Follows, ChannelFollows
<1>15. ClientInv(desired, Client, Way)
  BY <1>8, <1>9, <1>10, <1>11, <1>12, <1>13, <1>14 DEF ClientInv
<1>16. DaemonTyped
  <2>1. /\ released \cup live \subseteq Attempts /\ connected \in BOOLEAN
        /\ changes \in Values /\ changes # 0 /\ faults \in 0..MaxFaults
        /\ desired \subseteq Channels /\ disposed \in BOOLEAN
    <3>1. released \cup live \subseteq Attempts /\ connected \in BOOLEAN
      BY <1>3
    <3>2. changes \in Values /\ changes # 0 /\ faults \in 0..MaxFaults
      BY <1>1, <1>2, <1>3
    <3>3. desired \subseteq Channels /\ disposed \in BOOLEAN
      BY <1>3
    <3>4. QED BY <3>1, <3>2, <3>3
  <2>2. QED BY <1>5, <2>1 DEF DaemonTyped
<1>17. WireOrdered /\ Closed
  BY <1>3 DEF WireOrdered, Closed, Init
<1>18. QED BY <1>6, <1>15, <1>16, <1>17 DEF IInv

\* Every step keeps it.
LEMMA NextIInv == IInv /\ [Next]_vars => IInv'
<1> SUFFICES ASSUME IInv, [Next]_vars
             PROVE  IInv'
  OBVIOUS
<1>1. CASE \E n \in Attempts :
        \/ DeliverReply(n) \/ DeliverFailure(n) \/ ReplyTimesOut(n)
        \/ DeliverPush(n) \/ DeliverPage(n) \/ PageGivesUp(n) \/ GiveUpFires(n)
        \/ DaemonSubscribes(n) \/ DaemonRefuses(n) \/ DaemonReads(n)
        \/ DaemonUnsubscribes(n)
  BY <1>1, DeliverReplyKeeps, DeliverFailureKeeps, ReplyTimesOutKeeps,
     DeliverPushKeeps, DeliverPageKeeps, PageGivesUpKeeps, GiveUpFiresKeeps,
     DaemonSubscribesKeeps, DaemonRefusesKeeps, DaemonReadsKeeps,
     DaemonUnsubscribesKeeps
<1>2. CASE \E c \in Channels : RetryFires(c) \/ \E i \in Rows : DaemonChanges(c, i)
  BY <1>2, RetryFiresKeeps, DaemonChangesKeeps
<1>3. CASE \E D \in SUBSET Channels : SetDesired(D)
  BY <1>3, SetDesiredKeeps
<1>4. CASE Reconnected \/ Dispose \/ Drop
  BY <1>4, ReconnectedKeeps, DisposeKeeps, DropKeeps
<1>5. CASE UNCHANGED vars
  <2>1. /\ Client' = Client /\ Way' = Way
        /\ UNCHANGED <<desired, disposed, ch, released, connected, daemonVars, faults>>
    BY <1>5 DEF vars, clientVars, daemonVars, Client, Way
  <2>2. /\ UNCHANGED <<store, changes, live, sent, wire, cut, pageRows>>
        /\ UNCHANGED <<desired, disposed, released, connected, faults>>
    BY <2>1 DEF daemonVars
  <2>3. DaemonTyped' /\ WireOrdered' /\ Closed'
    BY <2>2 DEF IInv, DaemonTyped, WireOrdered, Closed
  <2>4. Registered(desired, Client)' /\ Alive(Client)' /\ Fresh(desired, Client)'
    BY <2>1, <2>2, Typed
       DEF ClientInv, Registered, ChannelRegistered, Alive, Fresh, ChannelFresh
  <2>5. Ordered(Client, Way)' /\ Confirmed(desired, Client, Way)'
    BY <2>1, <2>2, Typed DEF ClientInv, Ordered, Confirmed
  <2>6. Issued(Client, Way)'
    BY <2>1, <2>2, Typed DEF ClientInv, Issued, Coming
  <2>7. Follows(desired, Client, Way)'
    <3>1. /\ ClientKeeps /\ Client'.ch = ch /\ Client'.page = page'
          /\ UNCHANGED <<desired, page>>
      BY <1>5, <2>1, Typed DEF ClientKeeps, vars, clientVars
    <3>2. \A n : Coming(Client', Way', n) = Coming(Client, Way, n)
      BY <2>1 DEF Coming
    <3>3. ASSUME NEW c \in desired
          PROVE  ChannelFollows(Client, Way, c)'
      BY <2>2, <3>1, <3>2, FollowsStill
    <3>4. QED BY <3>1, <3>3 DEF Follows
  <2>8. QED BY <2>1, <2>3, <2>4, <2>5, <2>6, <2>7, Typed DEF IInv, ClientInv
<1>6. QED BY <1>1, <1>2, <1>3, <1>4, <1>5 DEF Next

\* The invariant holds in every reachable state.
THEOREM Invariance == Spec => []IInv
  BY InitIInv, NextIInv, PTL DEF Spec

\* The channels, the buffer, the requests, the wires and the daemon's collections
\* keep their types, and an attempt confirmed is the one registered.
THEOREM ReplicaTyped == Spec => []TypeOK
<1>1. IInv => TypeOK
  <2> SUFFICES ASSUME IInv
               PROVE  TypeOK
    OBVIOUS
  <2>1. ASSUME NEW c \in Channels
        PROVE  /\ ch[c] \in Replicas /\ ch[c].reg <= attempts
               /\ ch[c].sid \in {0, ch[c].reg}
    <3>1. ch[c] \in ChannelStates /\ ChannelRegistered(desired, Client, c)
      BY Typed DEF ClientInv, Registered
    <3>2. ch[c].reg \in Nat
      BY <3>1 DEF ChannelStates
    <3>3. ch[c].reg <= attempts
      BY <3>1, <3>2, Typed DEF ChannelRegistered
    <3>4. ch[c].sid \in {0, ch[c].reg}
      BY <3>1, Typed DEF ChannelRegistered
    <3>5. MaxAttempts \in Nat /\ ch[c].reg <= MaxAttempts
      BY <3>2, <3>3, Typed, DeltaAssumption DEF DeltaAssumption
    <3>6. ch[c].reg \in 0..MaxAttempts
      BY <3>2, <3>5
    <3>7. ch[c] \in Replicas
      BY <3>1, <3>6 DEF ChannelStates, Replicas
    <3>8. QED BY <3>3, <3>4, <3>7
  <2>2. /\ ch \in [Channels -> Replicas] /\ attempts \in 0..MaxAttempts
        /\ buffer \in Seq(Pushes) /\ Len(buffer) <= MaxBuffered
    BY <2>1, Typed, DeltaAssumption DEF Buffers, DeltaAssumption
  <2>3. QED BY <2>1, <2>2, Typed DEF IInv, DaemonTyped, TypeOK, Statuses, Pages
<1>2. QED BY <1>1, Invariance, PTL

\* Every subscription the daemon holds is one the client uses, is about to learn
\* of, asked the daemon to end or gave up on, whatever the order in which
\* replies, retries, removals and reconnects come (registerChannel's "stale
\* resolve", unregisterChannel).
THEOREM NothingLeaks == Spec => []NoLeakedSubscription
<1>1. IInv => NoLeakedSubscription
  <2> SUFFICES ASSUME IInv, NEW n \in live
               PROVE  \/ of[n] \in desired /\ ch[of[n]].sid = n
                      \/ req[n] \in {"acked", "timedout"}
                      \/ n \in released
    BY DEF NoLeakedSubscription
  <2>1. n \in Attempts /\ n # 0
    BY DeltaAssumption DEF IInv, DaemonTyped, Attempts, DeltaAssumption
  <2>2. CASE req[n] # "done"
    BY <2>1, <2>2, Typed DEF ClientInv, Alive
  <2>3. CASE req[n] = "done" /\ n \notin released
    <3>1. ch[of[n]].sid = n /\ of[n] \in Channels
      BY <2>1, <2>3, Typed DEF ClientInv, Alive
    <3>2. ChannelRegistered(desired, Client, of[n])
      BY <3>1, Typed DEF ClientInv, Registered
    <3>3. of[n] \in desired
      BY <2>1, <3>1, <3>2, Typed DEF ChannelRegistered
    <3>4. QED BY <3>1, <3>3
  <2>4. QED BY <2>2, <2>3
<1>2. QED BY <1>1, Invariance, PTL

\* A settled channel shows the daemon's collection: nothing comes any more, so
\* what it has is the last word.
LEMMA SettledIsRight == IInv => Converged
<1> SUFFICES ASSUME IInv, NEW c \in desired, Settled(c)
             PROVE  ch[c].rows = store[c] /\ shown[c] = store[c]
  BY DEF Converged
<1> DEFINE n == ch[c].sid
<1>1. /\ connected /\ ch[c].next # 0 /\ n \in live /\ wire[n] = <<>>
      /\ page[n] = "none" /\ ch[c].next = sent[n]
  BY DEF Settled
<1>2. c \in Channels /\ n \in Attempts /\ n # 0
  BY <1>1, Typed, DeltaAssumption
     DEF IInv, DaemonTyped, Attempts, DeltaAssumption
<1>3. ch[c].reg = n
  <2>1. ch[c].sid \in {0, ch[c].reg}
    BY OwnAttempt, Typed DEF ClientInv
  <2>2. QED BY <1>2, <2>1
<1>4. Coming(Client, Way, n) = {}
  <2>1. \A p \in Range(buffer) : p.sub # n
    BY <1>2, Typed DEF ClientInv, Confirmed
  <2>2. Way[n] = {}
    BY <1>1, <1>2 DEF Way, Range
  <2>3. QED BY <2>1, <2>2, Typed DEF Coming
<1>5. Complete(Client, Way, c)
  <2>1. sent[n] \in Nat
    BY <1>2, DeltaAssumption DEF IInv, DaemonTyped, Values, DeltaAssumption
  <2>2. ch[c].next..(sent[n] - 1) = {}
    BY <1>1, <2>1
  <2>3. QED BY <1>3, <2>2, Typed DEF Complete
<1>6. \A i \in Rows : ch[c].rows[i] = store[c][i]
  <2>1. ASSUME NEW i \in Rows
        PROVE  ch[c].rows[i] = store[c][i]
    <3>1. RowRight(Client, Way, c, i)
      BY <1>1, <1>3, <1>5, Typed DEF ClientInv, Follows, ChannelFollows
    <3>2. Touching(Client, Way, n, i) = {}
      BY <1>4 DEF Touching
    <3>3. ReplicaRight(Client, c, i)
      BY <1>1, <1>3, <3>1, <3>2, Typed DEF RowRight, LastDeltaRight
    <3>4. QED BY <1>1, <1>3, <3>3, Typed DEF ReplicaRight
  <2>2. QED BY <2>1
<1>7. /\ ch[c].rows \in [Rows -> Values] /\ store[c] \in [Rows -> Values]
  BY <1>2, ClientFields, Typed DEF IInv, DaemonTyped
<1>8. ch[c].rows = store[c]
  BY <1>6, <1>7
<1>9. shown[c] = ch[c].rows
  BY <1>1, Typed DEF ClientInv, Fresh, ChannelFresh
<1>10. QED BY <1>8, <1>9

\* Once a seeded channel has been told everything the daemon sent it shows exactly
\* the daemon's collection, in whatever order snapshot, continuation and deltas
\* came, and whichever of them were lost, held, replayed or overtaken
\* (applySnapshot, applyDelta, fillFromPage).
THEOREM SettledShowsTheCollection == Spec => []Converged
  BY SettledIsRight, Invariance, PTL

-----------------------------------------------------------------------------
(* The static form never flashes its rows away.                            *)

\* A continuation belongs to a confirmed subscription.  (A channel removed from
\* the dynamic form may leave one behind.)
StaticPages(st) ==
  \A n \in Attempts :
    st.page[n] # "none" => \E c \in Channels : st.ch[c].sid = n

\* What a push does to a static channel: a delta for a channel without rows shows
\* nothing, and whatever changes what is shown leaves the channel seeded.
LEMMA ProcessShows ==
  ASSUME ~Dynamic, desired \subseteq Channels, NEW s \in ClientStates,
         NEW p \in Pushes, NEW n \in Attempts, n <= s.attempts,
         NEW c \in Channels
  PROVE  LET r == ProcessPush(s, p) IN
         /\ StaticPages(s) => StaticPages(r)
         /\ n <= r.attempts /\ r.req[n] = s.req[n]
         /\ p.kind # "snapshot" /\ s.ch[c].next = 0 =>
              r.shown[c] = s.shown[c] /\ r.ch[c].next = 0
         /\ r.shown[c] = s.shown[c] \/ r.ch[c].next # 0
<1> DEFINE r == ProcessPush(s, p)
<1>1. Processed(s, p, r) /\ s.attempts <= r.attempts /\ r \in ClientStates
  BY Processes, ProcessTyped
<1>2. n \in Nat /\ s.attempts \in Nat /\ r.attempts \in Nat
  BY <1>1, ClientFields DEF Attempts
<1>3. \A d \in Channels : d = c
  BY DeltaAssumption DEF DeltaAssumption
<1>4. p.sub \in Attempts /\ p.seq \in Nat /\ 0 \notin Attempts
  BY PushFields, DeltaAssumption DEF Attempts, DeltaAssumption
<1> HIDE DEF r
<1>5. CASE r = s \/ r = BufferPush(s, p)
  <2>1. /\ r.ch = s.ch /\ r.shown = s.shown /\ r.attempts = s.attempts
        /\ r.req = s.req /\ r.page = s.page
    BY <1>5, BufferPushes
  <2>2. QED BY <1>2, <2>1 DEF StaticPages, r
<1>6. ASSUME NEW d \in desired, s.ch[d].sid = p.sub, SnapshotApplied(s, d, p, r),
             p.kind = "snapshot"
      PROVE  /\ StaticPages(s) => StaticPages(r)
             /\ r.req = s.req /\ r.attempts = s.attempts /\ r.ch[c].next # 0
  <2>1. d = c /\ c \in desired
    BY <1>3, <1>6
  <2>2. /\ r.req = s.req /\ r.attempts = s.attempts /\ r.ch[c].next = p.seq + 1
        /\ r.ch[c].sid = p.sub /\ s.ch[c].sid = p.sub
        /\ r.page = [s.page EXCEPT ![p.sub] = IF p.more THEN "asked" ELSE "none"]
    BY <1>6, <2>1 DEF SnapshotApplied
  <2>3. \A m \in Attempts \ {p.sub} : r.page[m] = s.page[m]
    <3>1. s.page \in [Attempts -> Pages]
      BY DEF ClientStates
    <3>2. QED BY <2>2, <3>1
  <2>4. StaticPages(s) => StaticPages(r)
    BY <1>3, <2>2, <2>3 DEF StaticPages
  <2>5. QED BY <1>4, <2>2, <2>4
<1>7. ASSUME NEW d \in desired, DeltaApplied(s, d, p, r), InSequence(s, d, p)
      PROVE  /\ StaticPages(s) => StaticPages(r)
             /\ r.req = s.req /\ r.attempts = s.attempts
             /\ s.ch[c].next # 0 /\ r.ch[c].next # 0
  <2>1. d = c
    BY <1>3, <1>7
  <2>2. /\ r.req = s.req /\ r.attempts = s.attempts /\ r.ch[c].next = p.seq + 1
        /\ r.ch[c].sid = s.ch[c].sid /\ r.page = s.page
    BY <1>7, <2>1 DEF DeltaApplied
  <2>3. QED BY <1>3, <1>4, <1>7, <2>1, <2>2 DEF StaticPages, InSequence
<1>8. ASSUME NEW d \in desired, ResnapshottedAs(s, d, r)
      PROVE  /\ StaticPages(s) => StaticPages(r)
             /\ r.req[n] = s.req[n] /\ r.shown = s.shown /\ r.ch[c].next = 0
  <2>1. d = c
    BY <1>3, <1>8
  <2>2. /\ r.shown = s.shown /\ r.ch[c].next = 0
        /\ \A m \in Attempts :
             r.page[m] = IF m = s.ch[c].sid THEN "none" ELSE s.page[m]
    BY <1>8, <2>1 DEF ResnapshottedAs
  <2>3. n \notin NewAttempts(s, r)
    BY <1>2 DEF NewAttempts
  <2>4. r.req[n] = s.req[n]
    BY <1>8, <2>3 DEF ResnapshottedAs
  <2>5. StaticPages(s) => StaticPages(r)
    BY <1>3, <2>2 DEF StaticPages
  <2>6. QED BY <2>2, <2>4, <2>5
<1>9. n <= r.attempts
  BY <1>1, <1>2
<1>10. CASE \E d \in desired :
              /\ s.ch[d].sid = p.sub
              /\ \/ p.kind = "snapshot" /\ SnapshotApplied(s, d, p, r)
                 \/ /\ p.kind # "snapshot" /\ InSequence(s, d, p)
                    /\ DeltaApplied(s, d, p, r)
                 \/ p.kind # "snapshot" /\ ResnapshottedAs(s, d, r)
  BY <1>6, <1>7, <1>8, <1>9, <1>10 DEF r
<1>11. QED BY <1>1, <1>5, <1>10 DEF Processed

\* Replaying the pushes held for a channel that has no rows yet shows nothing
\* unless one of them is a snapshot.
LEMMA ReplayShows ==
  ASSUME ~Dynamic, desired \subseteq Channels, NEW n \in Attempts, NEW matched,
         matched \in Seq(Pushes), NEW st \in ClientStates, n <= st.attempts,
         NEW c \in Channels, st.ch[c].next = 0, StaticPages(st)
  PROVE  LET r == Replayed(st, matched) IN
         /\ r \in ClientStates /\ StaticPages(r) /\ r.req[n] = st.req[n]
         /\ \/ r.shown[c] = st.shown[c]
            \/ \E j \in 1..Len(matched) : matched[j].kind = "snapshot"
<1> DEFINE m == Len(matched)
           S == [k \in 0..m |->
                   {s \in ClientStates :
                      /\ n <= s.attempts /\ s.req[n] = st.req[n] /\ StaticPages(s)
                      /\ \/ s.shown[c] = st.shown[c] /\ s.ch[c].next = 0
                         \/ \E j \in 1..k : matched[j].kind = "snapshot"}]
<1>1. m \in Nat /\ \A j \in 1..m : matched[j] \in Pushes
  BY LenProperties, ElementOfSeq
<1>2. st \in S[0]
  BY <1>1
<1>3. ASSUME NEW k \in 1..m, NEW s \in S[k - 1]
      PROVE  ProcessPush(s, matched[k]) \in S[k]
  <2> DEFINE p == matched[k]
             r == ProcessPush(s, p)
  <2>1. /\ p \in Pushes /\ k - 1 \in 0..m /\ k \in 0..m
        /\ \A j \in 1..(k - 1) : j \in 1..k
    BY <1>1
  <2>2. /\ s \in ClientStates /\ n <= s.attempts /\ s.req[n] = st.req[n]
        /\ StaticPages(s)
        /\ \/ s.shown[c] = st.shown[c] /\ s.ch[c].next = 0
           \/ \E j \in 1..(k - 1) : matched[j].kind = "snapshot"
    BY <2>1
  <2>3. /\ r \in ClientStates /\ n <= r.attempts /\ r.req[n] = st.req[n]
        /\ StaticPages(r)
        /\ p.kind # "snapshot" /\ s.ch[c].next = 0 =>
             r.shown[c] = s.shown[c] /\ r.ch[c].next = 0
    BY <2>1, <2>2, ProcessShows, ProcessTyped
  <2>4. \/ r.shown[c] = st.shown[c] /\ r.ch[c].next = 0
        \/ \E j \in 1..k : matched[j].kind = "snapshot"
    <3>1. CASE p.kind = "snapshot"
      BY <1>1, <3>1
    <3>2. CASE p.kind # "snapshot"
      BY <2>1, <2>2, <2>3, <3>2
    <3>3. QED BY <3>1, <3>2
  <2> HIDE DEF r
  <2>5. r \in S[k]
    BY <2>1, <2>3, <2>4
  <2>6. QED BY <2>5 DEF r
<1> HIDE DEF S
<1>4. Replayed(st, matched) \in S[m]
  BY <1>1, <1>2, <1>3, ReplayKeeps
<1>5. QED BY <1>1, <1>4 DEF S

\* A step shows the rows of a desired channel as before, or leaves it with rows
\* the daemon sent, or replays a snapshot.
StepShows ==
  \A c \in desired \cap desired' :
    shown'[c] = shown[c] \/ ch'[c].next # 0 \/ ReplaysSnapshot(c)

\* A step that confirms and gives up nothing, starts no continuation and shows
\* nothing.
LEMMA QuietStep ==
  ASSUME StaticPages(Client), shown' = shown,
         \A c \in Channels : ch'[c].sid = ch[c].sid,
         \A n \in Attempts : page[n] = "none" => page'[n] = "none"
  PROVE  StaticPages(Client)' /\ StepShows
<1>1. Client'.ch = ch' /\ Client'.page = page' /\ Client.ch = ch /\ Client.page = page
  BY DEF Client
<1>2. StaticPages(Client)'
  BY <1>1 DEF StaticPages
<1>3. QED BY <1>2 DEF StepShows

\* A reply of a static channel.
LEMMA ReplyShows ==
  ASSUME IInv, ~Dynamic, StaticPages(Client), NEW n \in Attempts, DeliverReply(n)
  PROVE  StaticPages(Client)' /\ StepShows
<1> DEFINE st == [Client EXCEPT !.req[n] = "done", !.ch[of[n]].sid = n]
           c == of[n]
           matched == PushesOf(buffer, {n})
           u == [st EXCEPT !.buffer = PushesOf(buffer, Attempts \ {n})]
           d == Replayed(u, matched)
           r == Drain(st, n)
<1>1. CASE ~Current(n) /\ StaleReply(n)
  <2>1. ch' = ch /\ page' = page /\ shown' = shown
    BY <1>1 DEF StaleReply, Becomes, Client
  <2>2. QED BY <2>1, QuietStep
<1>2. CASE Current(n) /\ Becomes(r)
  <2>1. /\ u \in ClientStates /\ st.buffer = buffer /\ HeldFor(n, matched)
        /\ \A j \in 1..Len(matched) : matched[j] \in Range(buffer)
        /\ u.shown = shown /\ u.page = page /\ u.attempts = attempts
        /\ u.req[n] = "done" /\ u.ch[c].sid = n /\ u.ch[c].next = ch[c].next
        /\ ch[c].sid = 0 /\ \A e \in Channels \ {c} : u.ch[e] = ch[e]
    BY <1>2, SetsAside, Typed DEF DeliverReply
  <2> HIDE DEF st
  <2>2. r = IF Pending(d) THEN d ELSE [d EXCEPT !.buffer = <<>>]
    BY <2>1 DEF Drain
  <2> HIDE DEF matched, u
  <2>3. c \in desired /\ c \in Channels /\ ch[c].reg = n /\ req[n] = "acked"
    BY <1>2, Typed DEF Current, DeliverReply
  <2>4. \A e \in Channels : e = c
    BY <2>3, DeltaAssumption DEF DeltaAssumption
  <2>5. u.ch[c].next = 0 /\ n <= u.attempts
    <3>1. ChannelFresh(Client, c)
      BY <2>3, Typed DEF ClientInv, Fresh
    <3>2. n <= attempts
      <4>1. n \in Nat /\ attempts \in Nat /\ req[n] # "none"
        BY <2>3, Typed DEF Attempts
      <4>2. ~(n > attempts)
        BY <4>1, Typed DEF ClientInv, Registered
      <4>3. QED BY <4>1, <4>2
    <3>3. QED BY <2>1, <3>1, <3>2, Typed DEF ChannelFresh
  <2>6. StaticPages(u)
    <3>1. \A m \in Attempts : page[m] = "none" \/ ch[c].sid = m
      BY <2>4, Typed DEF StaticPages
    <3>2. \A m \in Attempts : page[m] = "none"
      BY <2>1, <3>1, DeltaAssumption DEF Attempts, DeltaAssumption
    <3>3. QED BY <2>1, <3>2 DEF StaticPages
  <2>7. /\ d \in ClientStates /\ StaticPages(d) /\ d.req[n] = "done"
        /\ \/ d.shown[c] = shown[c]
           \/ \E j \in 1..Len(matched) : matched[j].kind = "snapshot"
    <3>1. matched \in Seq(Pushes) /\ desired \subseteq Channels
      BY <2>1, Typed DEF HeldFor
    <3>2. QED BY <2>1, <2>3, <2>5, <2>6, <3>1, ReplayShows
  <2> HIDE DEF d
  <2>8. r.ch = d.ch /\ r.page = d.page /\ r.shown = d.shown /\ r.req = d.req
    BY <2>2, <2>7 DEF ClientStates
  <2> HIDE DEF r
  <2>9. ch' = d.ch /\ page' = d.page /\ shown' = d.shown /\ req' = d.req
    BY <1>2, <2>8 DEF Becomes
  <2>10. StaticPages(Client)'
    BY <2>7, <2>9 DEF StaticPages, Client
  <2>11. shown'[c] = shown[c] \/ ReplaysSnapshot(c)
    <3>1. CASE d.shown[c] = shown[c]
      BY <2>9, <3>1
    <3>2. ASSUME NEW j \in 1..Len(matched), matched[j].kind = "snapshot"
          PROVE  ReplaysSnapshot(c)
      <4>1. matched[j] \in Range(buffer) /\ matched[j].sub = n
        BY <2>1 DEF HeldFor
      <4>2. req'[n] # req[n]
        BY <2>3, <2>7, <2>9
      <4>3. QED BY <2>3, <3>2, <4>1, <4>2 DEF ReplaysSnapshot
    <3>3. QED BY <2>7, <3>1, <3>2
  <2>12. StepShows
    BY <2>4, <2>11, Typed DEF StepShows
  <2>13. QED BY <2>10, <2>12
<1>3. QED BY <1>1, <1>2 DEF DeliverReply

\* A failed or timed-out request of a static channel, or its retry.
LEMMA FailureShows ==
  ASSUME IInv, StaticPages(Client), NEW n \in Attempts,
         \/ DeliverFailure(n) \/ ReplyTimesOut(n)
         \/ \E c \in Channels : RetryFires(c)
  PROVE  StaticPages(Client)' /\ StepShows
<1>1. CASE DeliverFailure(n) \/ ReplyTimesOut(n)
  <2>1. /\ shown' = shown /\ page' = page
        /\ ch' = [c \in Channels |->
                    IF c = of[n] /\ Current(n) THEN [ch[c] EXCEPT !.retry = TRUE]
                    ELSE ch[c]]
    BY <1>1 DEF DeliverFailure, ReplyTimesOut, Failed, Becomes, Client
  <2>2. ASSUME NEW c \in Channels
        PROVE  ch'[c].sid = ch[c].sid
    <3>1. /\ ch[c] \in ChannelStates
          /\ ch'[c] = IF c = of[n] /\ Current(n) THEN [ch[c] EXCEPT !.retry = TRUE]
                      ELSE ch[c]
      BY <2>1, Typed
    <3>2. QED BY <3>1 DEF ChannelStates
  <2>3. QED BY <2>1, <2>2, QuietStep
<1>2. ASSUME NEW c \in Channels, RetryFires(c)
      PROVE  StaticPages(Client)' /\ StepShows
  <2> DEFINE r == Register(Client, {c})
  <2>1. RegisteredAs(Client, {c}, r)
    <3>1. {c} \in SUBSET Channels
      OBVIOUS
    <3>2. QED BY <3>1, Registers, Typed
  <2>2. Becomes(r)
    BY <1>2 DEF RetryFires
  <2> HIDE DEF r
  <2>3. /\ \A d \in Channels : r.ch[d].sid = ch[d].sid
        /\ r.shown = shown /\ r.page = page
    BY <2>1, Typed DEF RegisteredAs, SameReplica
  <2>4. QED BY <2>2, <2>3, QuietStep DEF Becomes
<1>3. QED BY <1>1, <1>2

\* A push for a static channel.
LEMMA PushShows ==
  ASSUME IInv, ~Dynamic, StaticPages(Client), NEW n \in Attempts, DeliverPush(n)
  PROVE  StaticPages(Client)' /\ StepShows
<1> DEFINE p == Head(wire[n])
           r == ProcessPush(Client, p)
<1>1. CASE disposed
  <2>1. ch' = ch /\ page' = page /\ shown' = shown
    BY <1>1 DEF DeliverPush, Becomes, Client
  <2>2. QED BY <2>1, QuietStep
<1>2. CASE ~disposed
  <2>1. Becomes(r) /\ desired' = desired /\ wire[n] # <<>>
    BY <1>2 DEF DeliverPush
  <2>2. p \in Pushes
    BY <2>1, WithoutTheFirst DEF IInv, DaemonTyped, WireOrdered
  <2> HIDE DEF p
  <2>3. ASSUME NEW c \in Channels
        PROVE  /\ StaticPages(r)
               /\ r.shown[c] = shown[c] \/ r.ch[c].next # 0
    <3>1. CASE attempts = 0
      <4>1. desired = {}
        <5>1. ASSUME NEW d \in desired
              PROVE  FALSE
          <6>1. ch[d].reg \in Attempts /\ ch[d].reg <= attempts
            BY OwnAttempt, Typed DEF ClientInv
          <6>2. QED BY <3>1, <6>1, DeltaAssumption DEF Attempts, DeltaAssumption
        <5>2. QED BY <5>1
      <4>2. r = Client
        BY <4>1 DEF ProcessPush, Pending
      <4>3. QED BY <4>2, Typed
    <3>2. CASE attempts # 0
      <4>1. 1 \in Attempts /\ 1 <= Client.attempts
        BY <3>2, Typed, DeltaAssumption DEF Attempts, DeltaAssumption
      <4>2. QED BY <2>2, <4>1, ProcessShows, Typed
    <3>3. QED BY <3>1, <3>2
  <2> HIDE DEF r
  <2>4. StaticPages(r)
    BY <2>3, DeltaAssumption DEF DeltaAssumption
  <2>5. StaticPages(Client)'
    BY <2>1, <2>4 DEF StaticPages, Client, Becomes
  <2>6. StepShows
    BY <2>1, <2>3, Typed DEF StepShows, Becomes
  <2>7. QED BY <2>5, <2>6
<1>3. QED BY <1>1, <1>2

\* A continuation of a static channel arrives: it is one of a seeded channel.
LEMMA PageShows ==
  ASSUME IInv, ~Dynamic, StaticPages(Client), NEW n \in Attempts, DeliverPage(n)
  PROVE  StaticPages(Client)' /\ StepShows
<1>1. PICK c \in Channels : ch[c].sid = n
  BY Typed DEF StaticPages, DeliverPage
<1>2. \A d \in Channels : d = c
  BY DeltaAssumption DEF DeltaAssumption
<1>3. of[n] = c /\ ch[c].next # 0
  <2>1. of[n] = c
    BY <1>2, Typed
  <2>2. n # 0 /\ ChannelRegistered(desired, Client, c)
    BY Typed, DeltaAssumption
       DEF ClientInv, Registered, Attempts, DeltaAssumption
  <2>3. ch[c].reg = n /\ c \in desired
    BY <1>1, <2>2, Typed DEF ChannelRegistered
  <2>4. Client.page[n] # "none" /\ Client.ch[c].reg = n
    BY <2>3, Typed DEF DeliverPage
  <2>5. Client.ch[c].next # 0
    BY <2>3, <2>4, PageOfTheConfirmed, Typed
  <2>6. QED BY <2>1, <2>5, Typed
<1> DEFINE filled == [i \in Rows |-> IF i \in DOMAIN pageRows[n] /\ Fills(c, i)
                                     THEN pageRows[n][i] ELSE ch[c].rows[i]]
<1>4. /\ ch' = [ch EXCEPT ![c].rows = filled]
      /\ page' = [page EXCEPT ![n] = "none"]
  BY <1>1, <1>3 DEF DeliverPage, Becomes, Emit, Client
<1> HIDE DEF filled
<1>5. ch'[c].sid = ch[c].sid /\ ch'[c].next = ch[c].next
  <2>1. ch[c] \in ChannelStates /\ ch'[c] = [ch[c] EXCEPT !.rows = filled]
    BY <1>4, Typed
  <2>2. QED BY <2>1 DEF ChannelStates
<1>6. StaticPages(Client)'
  BY <1>1, <1>2, <1>4, <1>5, Typed DEF StaticPages, Client
<1>7. StepShows
  BY <1>2, <1>3, <1>5, Typed DEF StepShows
<1>8. QED BY <1>6, <1>7

\* The channel of a continuation that gave up starts over without showing it.
LEMMA GiveUpShows ==
  ASSUME IInv, ~Dynamic, StaticPages(Client), NEW n \in Attempts,
         PageGivesUp(n) \/ GiveUpFires(n)
  PROVE  StaticPages(Client)' /\ StepShows
<1>1. CASE PageGivesUp(n)
  <2>1. /\ page[n] = "asked" /\ page' = [page EXCEPT ![n] = "gaveup"]
        /\ ch' = ch /\ shown' = shown
    BY <1>1 DEF PageGivesUp, PageFails
  <2>2. QED BY <2>1, QuietStep, Typed
<1>2. CASE GiveUpFires(n)
  <2> DEFINE page2 == [page EXCEPT ![n] = "none"]
             u == [Client EXCEPT !.page = page2]
             c == of[n]
             r == Resnapshot(u, c)
  <2>1. Becomes(IF ch[c].sid = n THEN r ELSE u)
    BY <1>2 DEF GiveUpFires, Client
  <2>2. page2 \in [Attempts -> Pages]
        /\ \A m \in Attempts : page2[m] = IF m = n THEN "none" ELSE page[m]
    BY Typed DEF Pages
  <2> HIDE DEF page2
  <2>3. u \in ClientStates /\ u.ch = ch /\ u.page = page2 /\ u.shown = shown
    BY <2>2, Typed DEF ClientStates
  <2> HIDE DEF u
  <2>4. c \in Channels /\ \A d \in Channels : d = c
    BY Typed, DeltaAssumption DEF DeltaAssumption
  <2>5. CASE ch[c].sid # n
    <3>1. ch' = ch /\ page' = page2 /\ shown' = shown
      BY <2>1, <2>3, <2>5 DEF Becomes
    <3>2. QED BY <2>2, <3>1, QuietStep
  <2>6. CASE ch[c].sid = n
    <3>1. ResnapshottedAs(u, c, r) /\ Becomes(r)
      BY <2>1, <2>3, <2>4, <2>6, Resnapshots
    <3> HIDE DEF r
    <3>2. /\ r.shown = shown
          /\ \A m \in Attempts :
               r.page[m] = IF m = n THEN "none" ELSE page2[m]
      BY <2>3, <2>6, <3>1 DEF ResnapshottedAs
    <3>3. \A m \in Attempts : page'[m] = "none"
      BY <2>2, <2>4, <2>6, <3>1, <3>2, Typed DEF Becomes, StaticPages
    <3>4. StaticPages(Client)'
      BY <3>3 DEF StaticPages, Client
    <3>5. QED BY <3>1, <3>2, <3>4 DEF StepShows, Becomes
  <2>7. QED BY <2>5, <2>6
<1>3. QED BY <1>1, <1>2

\* A static channel that is registered anew on a new connection, or disposed of,
\* shows nothing.
LEMMA RenewalShows ==
  ASSUME IInv, ~Dynamic, StaticPages(Client), Reconnected \/ Dispose
  PROVE  StaticPages(Client)' /\ StepShows
<1>1. CASE Dispose
  <2>1. desired' = {} /\ page' = [n \in Attempts |-> "none"]
    BY <1>1 DEF Dispose, Becomes, Unregister, Client
  <2>2. QED BY <2>1 DEF StaticPages, StepShows, Client
<1>2. CASE Reconnected
  <2> DEFINE u == [Client EXCEPT !.buffer = <<>>]
             a == Reset(u, desired)
             ch2 == [c \in Channels |->
                       IF c \in desired THEN [a.ch[c] EXCEPT !.sid = 0,
                                                             !.awaiting = FALSE]
                       ELSE a.ch[c]]
             b == [a EXCEPT !.ch = ch2]
             r == Register(b, desired)
  <2>1. Becomes(r)
    BY <1>2 DEF Reconnected, Renewed
  <2>2. u \in ClientStates /\ u.ch = ch /\ u.page = page /\ u.shown = shown
    <3>1. <<>> \in Buffers
      BY DeltaAssumption DEF DeltaAssumption, Buffers
    <3>2. QED BY <3>1, Typed DEF ClientStates
  <2> HIDE DEF u
  <2>3. ResetAs(u, desired, a)
    BY <2>2, Resets, Typed
  <2>4. a \in ClientStates
    BY <2>3 DEF ResetAs
  <2>5. a.shown = shown
        /\ \A n \in Attempts :
             a.page[n] = IF \E c \in desired : n = ch[c].sid THEN "none" ELSE page[n]
    BY <2>2, <2>3 DEF ResetAs
  <2> HIDE DEF a
  <2>6. r.shown = b.shown /\ r.page = b.page
    BY DEF Register, b, ClientStates
  <2>7. b.shown = a.shown /\ b.page = a.page
    BY <2>4 DEF b, ClientStates
  <2>8. ASSUME NEW m \in Attempts
        PROVE  a.page[m] = "none"
    <3>1. CASE page[m] = "none"
      BY <2>5, <3>1
    <3>2. CASE page[m] # "none"
      <4>1. PICK c \in Channels : ch[c].sid = m
        BY <3>2 DEF StaticPages, Client
      <4>2. m # 0 /\ ChannelRegistered(desired, Client, c)
        BY Typed, DeltaAssumption
           DEF ClientInv, Registered, Attempts, DeltaAssumption
      <4>3. c \in desired
        BY <4>1, <4>2, Typed DEF ChannelRegistered
      <4>4. QED BY <2>5, <4>1, <4>3
    <3>3. QED BY <3>1, <3>2
  <2>9. shown' = shown /\ \A m \in Attempts : page'[m] = "none"
    BY <2>1, <2>5, <2>6, <2>7, <2>8 DEF Becomes
  <2>10. QED BY <2>9 DEF StaticPages, StepShows, Client
<1>3. QED BY <1>1, <1>2

\* The daemon and the transport show nothing and start no continuation.
LEMMA DaemonShows ==
  ASSUME IInv, StaticPages(Client), NEW n \in Attempts,
         \/ DaemonSubscribes(n) \/ DaemonRefuses(n) \/ DaemonReads(n)
         \/ DaemonUnsubscribes(n) \/ Drop \/ UNCHANGED vars
         \/ \E c \in Channels : \E i \in Rows : DaemonChanges(c, i)
  PROVE  StaticPages(Client)' /\ StepShows
<1>1. /\ ch' = ch /\ shown' = shown
      /\ \/ page' = page
         \/ page[n] = "asked" /\ page' = [page EXCEPT ![n] = "read"]
         \/ page' = [m \in Attempts |->
              IF page[m] \in {"asked", "read"} THEN "gaveup" ELSE page[m]]
  BY DEF DaemonSubscribes, DaemonRefuses, DaemonReads, DaemonUnsubscribes, Drop,
         DaemonChanges, clientVars, vars
<1>2. \A m \in Attempts : page[m] = "none" => page'[m] = "none"
  BY <1>1, Typed
<1>3. QED BY <1>1, <1>2, QuietStep

\* What a static subscription shows is never flashed away.
LEMMA StaticShows ==
  ASSUME IInv, ~Dynamic, StaticPages(Client), [Next]_vars
  PROVE  StaticPages(Client)' /\ StepShows
<1>1. 1 \in Attempts
  BY DeltaAssumption DEF Attempts, DeltaAssumption
<1>2. CASE \E n \in Attempts :
        \/ DeliverReply(n) \/ DeliverFailure(n) \/ ReplyTimesOut(n)
        \/ DeliverPush(n) \/ DeliverPage(n) \/ PageGivesUp(n) \/ GiveUpFires(n)
        \/ DaemonSubscribes(n) \/ DaemonRefuses(n) \/ DaemonReads(n)
        \/ DaemonUnsubscribes(n)
  BY <1>2, ReplyShows, FailureShows, PushShows, PageShows, GiveUpShows, DaemonShows
<1>3. CASE \E c \in Channels : RetryFires(c) \/ \E i \in Rows : DaemonChanges(c, i)
  BY <1>1, <1>3, FailureShows, DaemonShows
<1>4. CASE \E D \in SUBSET Channels : SetDesired(D)
  BY <1>4 DEF SetDesired
<1>5. CASE Reconnected \/ Dispose
  BY <1>5, RenewalShows
<1>6. CASE Drop \/ UNCHANGED vars
  BY <1>1, <1>6, DaemonShows
<1>7. QED BY <1>2, <1>3, <1>4, <1>5, <1>6 DEF Next

\* In the static form a channel never goes from rows to no rows in front of the
\* user unless a snapshot or a delta said so, whatever gaps, failures, reconnects
\* and replays it goes through: "previously reconciled state is never flashed
\* away by a transient gap" (resnapshot, the module's header).
THEOREM RowsAreNotFlashedAway ==
  ASSUME ~Dynamic
  PROVE  Spec => NeverFlashedAway
<1>1. Init => StaticPages(Client)
  BY DEF Init, StaticPages, Client
<1>2. IInv /\ StaticPages(Client) /\ [Next]_vars =>
        StaticPages(Client)' /\ [RowsVanishOnlyWhenTold]_vars
  <2>1. StepShows => RowsVanishOnlyWhenTold
    BY DEF StepShows, RowsVanishOnlyWhenTold
  <2>2. QED BY <2>1, StaticShows
<1>3. QED BY <1>1, <1>2, Invariance, PTL DEF Spec, NeverFlashedAway

-----------------------------------------------------------------------------
(* A channel without a snapshot is attended to, if every push there may be *)
(* fits into the buffer.                                                   *)

\* The snapshot of subscription n is held or on its way.
SnapshotComes(st, way, n) == \E p \in Coming(st, way, n) : p.kind = "snapshot"

\* A channel without rows has its request under way or a retry armed, and once
\* the request is answered on a live connection (on) its snapshot comes.
ChannelAttended(on, st, way, c) ==
  st.ch[c].next = 0 =>
    /\ st.ch[c].sid = 0 /\ st.req[st.ch[c].reg] \in {"timedout", "done"} =>
         st.ch[c].retry
    /\ on /\ (st.ch[c].sid # 0 \/ st.req[st.ch[c].reg] = "acked") =>
         SnapshotComes(st, way, st.ch[c].reg)

\* Every channel without rows is attended to.
Attended(on, D, st, way) == \A c \in D : ChannelAttended(on, st, way, c)

\* Channel c is seeded, asked for anew, or as it was with all that comes for it.
StillAttended(on, st, way, r, way2, c) ==
  \/ r.ch[c].next # 0
  \/ r.ch[c].sid = 0 /\ r.req[r.ch[c].reg] \in {"asked", "failed"}
  \/ /\ ChannelAttended(on, st, way, c)
     /\ r.ch[c].next = st.ch[c].next /\ r.ch[c].reg = st.ch[c].reg
     /\ r.ch[c].sid = st.ch[c].sid /\ r.ch[c].retry = st.ch[c].retry
     /\ r.req[st.ch[c].reg] = st.req[st.ch[c].reg]
     /\ SnapshotComes(st, way, st.ch[c].reg) => SnapshotComes(r, way2, st.ch[c].reg)

\* Such a channel is attended to.
LEMMA StaysAttended ==
  ASSUME NEW on, NEW st, NEW way, NEW r, NEW way2, NEW c,
         StillAttended(on, st, way, r, way2, c)
  PROVE  ChannelAttended(on, r, way2, c)
BY DEF StillAttended, ChannelAttended

\* The pushes there may be fit into the buffer: they differ in their subscription
\* or in their number.
LEMMA RoomForAll ==
  ASSUME MaxBuffered >= MaxAttempts * MaxChanges, changes \in Values,
         NEW st \in ClientStates, NEW way, Issued(st, way), Ordered(st, way),
         NEW p \in Pushes, p \in way[p.sub]
  PROVE  Len(Append(st.buffer, p)) <= MaxBuffered
<1> DEFINE b == Append(st.buffer, p)
           m == Len(st.buffer)
           key == [k \in 1..(m + 1) |-> <<b[k].sub, b[k].seq>>]
           T == Attempts \X (0..(MaxChanges - 1))
<1>1. /\ st.buffer \in Seq(Pushes) /\ m \in Nat
      /\ DOMAIN st.buffer = 1..m /\ p.sub \in Attempts
      /\ \A k \in 1..m : st.buffer[k] \in Range(st.buffer)
  BY ClientFields, PushFields
<1>2. /\ Len(b) = m + 1 /\ \A k \in 1..m : b[k] = st.buffer[k]
      /\ b[m + 1] = p
  BY <1>1, AppendProperties
<1>3. MaxAttempts \in Nat /\ MaxChanges \in Nat /\ MaxBuffered \in Nat
      /\ MaxChanges # 0 /\ MaxAttempts # 0 /\ changes \in Nat /\ changes <= MaxChanges
  BY DeltaAssumption DEF DeltaAssumption, Values
<1> HIDE DEF b
<1>4. ASSUME NEW k \in 1..(m + 1)
      PROVE  /\ b[k].sub \in Attempts /\ b[k].seq \in 0..(MaxChanges - 1)
             /\ b[k] \in Coming(st, way, b[k].sub)
             /\ k = m + 1 \/ k \in 1..m
  <2>1. CASE k = m + 1
    <3>1. p \in Coming(st, way, p.sub)
      BY DEF Coming
    <3>2. p.seq < changes /\ p.seq \in Nat
      BY <1>1, <3>1, PushFields DEF Issued
    <3>3. p.seq \in 0..(MaxChanges - 1)
      BY <1>3, <3>2
    <3>4. QED BY <1>1, <1>2, <2>1, <3>1, <3>3
  <2>2. CASE k # m + 1
    <3>1. k \in 1..m
      BY <1>1, <2>2
    <3> DEFINE q == st.buffer[k]
    <3>2. q \in Range(st.buffer) /\ q \in Pushes
      BY <1>1, <3>1, ClientFields
    <3> HIDE DEF q
    <3>3. q.sub \in Attempts /\ q.seq \in Nat /\ q \in Coming(st, way, q.sub)
      BY <3>2, PushFields DEF Coming
    <3>4. q.seq < changes
      BY <3>3 DEF Issued
    <3>5. q.seq \in 0..(MaxChanges - 1)
      BY <1>3, <3>3, <3>4
    <3>6. b[k] = q
      BY <1>2, <3>1 DEF q
    <3>7. QED BY <3>1, <3>3, <3>5, <3>6
  <2>3. QED BY <2>1, <2>2
<1>5. ASSUME NEW j \in 1..(m + 1), NEW k \in 1..(m + 1), j < k
      PROVE  key[j] # key[k]
  <2>1. j \in 1..m /\ b[j] = st.buffer[j] /\ b[j] \in Range(st.buffer)
    BY <1>1, <1>2, <1>5
  <2>2. ASSUME b[j].sub = b[k].sub
        PROVE  b[j].seq < b[k].seq
    <3>1. CASE k = m + 1
      BY <1>2, <2>1, <2>2, <3>1 DEF Ordered
    <3>2. CASE k # m + 1
      <4>1. k \in 1..m /\ b[k] = st.buffer[k]
        BY <1>1, <1>2, <3>2
      <4>2. QED BY <1>1, <1>5, <2>1, <2>2, <4>1 DEF Ordered, BufferOrdered
    <3>3. QED BY <3>1, <3>2
  <2>3. b[j].seq \in Nat /\ b[k].seq \in Nat
    BY <1>3, <1>4
  <2>4. QED BY <2>2, <2>3
<1>6. key \in Injection(1..(m + 1), T)
  <2>1. key \in [1..(m + 1) -> T]
    BY <1>4
  <2>2. \A j, k \in 1..(m + 1) : key[j] = key[k] => j = k
    <3>1. \A j, k \in 1..(m + 1) : j < k \/ k < j \/ j = k
      BY <1>1
    <3> HIDE DEF key
    <3>2. QED BY <1>5, <3>1
  <2> HIDE DEF key, T
  <2>3. QED BY <2>1, <2>2 DEF Injection, IsInjective
<1>7. IsFiniteSet(T) /\ Cardinality(T) = MaxAttempts * MaxChanges
  <2>1. IsFiniteSet(Attempts) /\ Cardinality(Attempts) = MaxAttempts
    <3>1. 1 \in Int /\ MaxAttempts \in Int /\ ~(1 > MaxAttempts)
          /\ MaxAttempts - 1 + 1 = MaxAttempts
      BY <1>3
    <3>2. QED BY <3>1, FS_Interval DEF Attempts
  <2>2. IsFiniteSet(0..(MaxChanges - 1))
        /\ Cardinality(0..(MaxChanges - 1)) = MaxChanges
    <3>1. 0 \in Int /\ MaxChanges - 1 \in Int /\ ~(0 > MaxChanges - 1)
          /\ (MaxChanges - 1) - 0 + 1 = MaxChanges
      BY <1>3
    <3>2. QED BY <3>1, FS_Interval
  <2>3. QED BY <2>1, <2>2, FS_Product
<1>8. Cardinality(1..(m + 1)) = m + 1
  <2>1. 1 \in Int /\ m + 1 \in Int /\ ~(1 > m + 1) /\ (m + 1) - 1 + 1 = m + 1
    BY <1>1
  <2>2. QED BY <2>1, FS_Interval
<1> HIDE DEF key, T
<1>9. m + 1 <= MaxAttempts * MaxChanges
  <2>1. Cardinality(1..(m + 1)) <= Cardinality(T)
    BY <1>6, <1>7, FS_Injection
  <2>2. QED BY <1>7, <1>8, <2>1
<1>10. QED
  <2> DEFINE z == MaxAttempts * MaxChanges
  <2>1. z \in Int /\ m + 1 <= z /\ MaxBuffered >= z
    BY <1>3, <1>9
  <2> HIDE DEF z
  <2>2. m + 1 <= MaxBuffered
    BY <1>1, <1>3, <2>1
  <2>3. QED BY <1>2, <2>2 DEF b

\* A push that is held is not lost.
LEMMA HoldsAttended ==
  ASSUME MaxBuffered >= MaxAttempts * MaxChanges, changes \in Values,
         NEW st \in ClientStates, NEW way, NEW way2,
         Issued(st, way), Ordered(st, way), NEW p \in Pushes, p \in way[p.sub],
         \A n \in Attempts : way2[n] = IF n = p.sub THEN way[n] \ {p} ELSE way[n],
         NEW n \in Attempts
  PROVE  Coming(st, way, n) \subseteq Coming(BufferPush(st, p), way2, n)
<1> DEFINE b == Append(st.buffer, p)
<1>1. Len(b) <= MaxBuffered
  BY RoomForAll
<1>2. /\ st.buffer \in Seq(Pushes) /\ Len(st.buffer) \in Nat
      /\ DOMAIN st.buffer = 1..Len(st.buffer)
  BY ClientFields
<1>3. /\ Len(b) = Len(st.buffer) + 1 /\ DOMAIN b = 1..(Len(st.buffer) + 1)
      /\ \A k \in 1..Len(st.buffer) : b[k] = st.buffer[k]
      /\ b[Len(st.buffer) + 1] = p
  BY <1>2, AppendProperties, LenProperties
<1>4. BufferPush(st, p).buffer = b
  <2>1. ~(Len(b) > MaxBuffered)
    BY <1>1, <1>2, <1>3, DeltaAssumption DEF DeltaAssumption
  <2>2. QED BY <2>1, BufferPushes
<1> HIDE DEF b
<1>5. Range(st.buffer) \subseteq Range(b) /\ p \in Range(b)
  BY <1>2, <1>3 DEF Range
<1>6. \A q \in way[n] : q = p \/ q \in way2[n]
  OBVIOUS
<1>7. p \in way[n] => p.sub = n
  BY DEF Ordered
<1>8. QED BY <1>4, <1>5, <1>6, <1>7 DEF Coming

\* Processing the first push that comes for a subscription leaves every channel
\* attended to: it is applied, held, or of no use to a channel without rows.
LEMMA ProcessAttends ==
  ASSUME MaxBuffered >= MaxAttempts * MaxChanges, changes \in Values,
         desired \subseteq Channels,
         NEW st \in ClientStates, NEW p \in Pushes,
         NEW way, NEW way2, ClientInv(desired, st, way),
         \A n \in Attempts : way2[n] = IF n = p.sub THEN way[n] \ {p} ELSE way[n],
         p \in way[p.sub], ProcessPush(st, p).attempts <= MaxAttempts,
         NEW on, Attended(on, desired, st, way)
  PROVE  Attended(on, desired, ProcessPush(st, p), way2)
<1> DEFINE r == ProcessPush(st, p)
<1> SUFFICES Attended(on, desired, r, way2)
  OBVIOUS
<1>1. Processed(st, p, r) /\ r.attempts <= MaxAttempts
  BY Processes
<1> HIDE DEF r
<1>2. ASSUME NEW d \in desired
      PROVE  /\ d \in Channels /\ ChannelAttended(on, st, way, d)
             /\ st.ch[d].reg \in Attempts /\ st.ch[d].reg <= st.attempts
             /\ st.ch[d].sid \in {0, st.ch[d].reg}
             /\ \A c \in desired : st.ch[c].sid = st.ch[d].reg => c = d
  BY OwnAttempt DEF ClientInv, Attended
<1>3. st.attempts \in Nat /\ p.sub \in Attempts /\ 0 \notin Attempts
  BY ClientFields, PushFields, DeltaAssumption DEF Attempts, DeltaAssumption
<1>4. ASSUME NEW d \in desired, st.ch[d].reg # p.sub, r.buffer = st.buffer
      PROVE  SnapshotComes(st, way, st.ch[d].reg) => SnapshotComes(r, way2, st.ch[d].reg)
  BY <1>2, <1>4 DEF SnapshotComes, Coming
<1>5. ASSUME NEW c \in desired, st.ch[c].sid = p.sub
      PROVE  \A d \in desired \ {c} : st.ch[d].reg # p.sub
  BY <1>2, <1>5
<1>6. ASSUME NEW c \in desired, st.ch[c].sid = p.sub,
             SnapshotApplied(st, c, p, r) \/ DeltaApplied(st, c, p, r)
      PROVE  Attended(on, desired, r, way2)
  <2>1. /\ r.ch[c].next = p.seq + 1 /\ r.buffer = st.buffer /\ r.req = st.req
        /\ \A d \in Channels \ {c} : r.ch[d] = st.ch[d]
    BY <1>6 DEF SnapshotApplied, DeltaApplied
  <2>2. r.ch[c].next # 0
    BY <2>1, PushFields
  <2>3. ASSUME NEW d \in desired
        PROVE  StillAttended(on, st, way, r, way2, d)
    <3>1. CASE d = c
      BY <2>2, <3>1 DEF StillAttended
    <3>2. CASE d # c
      <4>1. r.ch[d] = st.ch[d] /\ st.ch[d].reg # p.sub
        BY <1>2, <1>5, <1>6, <2>1, <3>2
      <4>2. QED BY <1>2, <1>4, <2>1, <4>1 DEF StillAttended
    <3>3. QED BY <3>1, <3>2
  <2>4. QED BY <2>3, StaysAttended DEF Attended
<1>7. ASSUME NEW c \in desired, st.ch[c].sid = p.sub, ResnapshottedAs(st, c, r)
      PROVE  Attended(on, desired, r, way2)
  <2>1. /\ r.ch[c].sid = 0 /\ r.ch[c].reg \in NewAttempts(st, r)
        /\ r.buffer = st.buffer
        /\ \A d \in Channels \ {c} : r.ch[d] = st.ch[d]
        /\ \A n \in Attempts : IF n \in NewAttempts(st, r) THEN r.req[n] = "asked"
                               ELSE r.req[n] = st.req[n]
        /\ r.attempts \in Nat
    BY <1>7, ClientFields DEF ResnapshottedAs
  <2>2. r.ch[c].reg \in Attempts
    BY <1>1, <1>3, <2>1, DeltaAssumption DEF NewAttempts, Attempts, DeltaAssumption
  <2>3. ASSUME NEW d \in desired
        PROVE  StillAttended(on, st, way, r, way2, d)
    <3>1. CASE d = c
      BY <2>1, <2>2, <3>1 DEF StillAttended
    <3>2. CASE d # c
      <4>1. r.ch[d] = st.ch[d] /\ st.ch[d].reg # p.sub
        BY <1>2, <1>5, <1>7, <2>1, <3>2
      <4>2. st.ch[d].reg \notin NewAttempts(st, r)
        BY <1>2, <1>3 DEF NewAttempts, Attempts
      <4>3. r.req[st.ch[d].reg] = st.req[st.ch[d].reg]
        BY <1>2, <2>1, <4>2
      <4>4. QED BY <1>2, <1>4, <2>1, <4>1, <4>3 DEF StillAttended
    <3>3. QED BY <3>1, <3>2
  <2>4. QED BY <2>3, StaysAttended DEF Attended
<1>8. ASSUME NEW c \in desired, st.ch[c].sid = p.sub, p.kind # "snapshot", r = st
      PROVE  Attended(on, desired, r, way2)
  <2>1. ASSUME NEW d \in desired
        PROVE  StillAttended(on, st, way, r, way2, d)
    <3>1. SnapshotComes(st, way, st.ch[d].reg) => SnapshotComes(st, way2, st.ch[d].reg)
      BY <1>2, <1>8 DEF SnapshotComes, Coming
    <3>2. QED BY <1>2, <1>8, <3>1 DEF StillAttended
  <2>2. QED BY <2>1, StaysAttended DEF Attended
<1>9. CASE r = BufferPush(st, p)
  <2>1. r.ch = st.ch /\ r.req = st.req
    BY <1>9, BufferPushes
  <2>2. ASSUME NEW d \in desired
        PROVE  StillAttended(on, st, way, r, way2, d)
    <3>1. Coming(st, way, st.ch[d].reg) \subseteq Coming(r, way2, st.ch[d].reg)
      BY <1>2, <1>9, HoldsAttended DEF ClientInv
    <3>2. QED BY <1>2, <2>1, <3>1 DEF StillAttended, SnapshotComes
  <2>3. QED BY <2>2, StaysAttended DEF Attended
<1>10. CASE (\A c \in desired : st.ch[c].sid # p.sub) /\ ~Pending(st) /\ r = st
  <2>1. ASSUME NEW d \in desired
        PROVE  StillAttended(on, st, way, r, way2, d)
    <3>1. st.ch[d].reg # p.sub
      BY <1>2, <1>10 DEF Pending
    <3>2. QED BY <1>2, <1>4, <1>10, <3>1 DEF StillAttended
  <2>2. QED BY <2>1, StaysAttended DEF Attended
<1>11. QED BY <1>1, <1>6, <1>7, <1>8, <1>9, <1>10 DEF Processed

\* Replaying the held pushes of a subscription leaves every channel attended to.
LEMMA ReplayAttends ==
  ASSUME MaxBuffered >= MaxAttempts * MaxChanges, changes \in Values,
         desired \subseteq Channels, NEW n \in Attempts, NEW matched,
         HeldFor(n, matched), NEW st \in ClientStates,
         ClientInv(desired, st, WayAfter(n, matched, 0)),
         NEW on, Attended(on, desired, st, WayAfter(n, matched, 0))
  PROVE  LET r == Replayed(st, matched) IN
         /\ r \in ClientStates
         /\ r.attempts <= MaxAttempts =>
              ClientInv(desired, r, Way) /\ Attended(on, desired, r, Way)
<1> DEFINE m == Len(matched)
           Kept(s, k) == /\ ClientInv(desired, s, WayAfter(n, matched, k))
                         /\ Attended(on, desired, s, WayAfter(n, matched, k))
           S == [k \in 0..m |->
                   {s \in ClientStates : s.attempts <= MaxAttempts => Kept(s, k)}]
<1>1. /\ m \in Nat /\ \A j \in 1..m : /\ matched[j] \in Pushes
                                      /\ matched[j].sub = n
                                      /\ matched[j].seq \in Nat
  BY LenProperties, ElementOfSeq, PushFields DEF HeldFor
<1>2. st \in S[0]
  BY <1>1
<1>3. ASSUME NEW k \in 1..m, NEW s \in S[k - 1]
      PROVE  ProcessPush(s, matched[k]) \in S[k]
  <2> DEFINE p == matched[k]
             r == ProcessPush(s, p)
             way == WayAfter(n, matched, k - 1)
             way2 == WayAfter(n, matched, k)
  <2>1. /\ p \in Pushes /\ p.sub = n /\ p.seq \in Nat
        /\ k - 1 \in 0..m /\ k \in 0..m
    BY <1>1
  <2>2. /\ s \in ClientStates
        /\ s.attempts <= MaxAttempts =>
             ClientInv(desired, s, way) /\ Attended(on, desired, s, way)
    BY <2>1
  <2>3. r \in ClientStates /\ s.attempts <= r.attempts
    BY <2>1, <2>2, ProcessTyped
  <2>4. \A q \in way2[n] : p.seq < q.seq
    BY <1>1 DEF WayAfter, HeldFor
  <2>5. p \in way[n]
    BY <1>1, <2>1 DEF WayAfter
  <2>6. way2[n] = way[n] \ {p}
    <3>1. k..m = {k} \cup (k + 1)..m /\ (k - 1) + 1 = k
      BY <1>1
    <3>2. way[n] = {p} \cup way2[n]
      BY <3>1 DEF WayAfter
    <3>3. p \notin way2[n]
      BY <2>1, <2>4
    <3>4. QED BY <3>2, <3>3
  <2>7. \A x \in Attempts : way2[x] = IF x = n THEN way[x] \ {p} ELSE way[x]
    BY <2>6 DEF WayAfter
  <2> HIDE DEF p, way, way2
  <2>8. ASSUME r.attempts <= MaxAttempts
        PROVE  ClientInv(desired, r, way2) /\ Attended(on, desired, r, way2)
    <3>1. s.attempts <= MaxAttempts
      BY <2>2, <2>3, <2>8, ClientFields, DeltaAssumption DEF DeltaAssumption
    <3>2. ClientInv(desired, s, way) /\ Attended(on, desired, s, way)
      BY <2>2, <3>1
    <3>3. ClientInv(desired, r, way2)
      BY <2>1, <2>2, <2>4, <2>5, <2>7, <2>8, <3>2, ProcessKeeps
    <3>4. Attended(on, desired, r, way2)
      BY <2>1, <2>2, <2>5, <2>7, <2>8, <3>2, ProcessAttends
    <3>5. QED BY <3>3, <3>4
  <2>9. QED BY <2>1, <2>3, <2>8 DEF p, way2
<1> HIDE DEF S
<1>4. Replayed(st, matched) \in S[m]
  BY <1>1, <1>2, <1>3, ReplayKeeps
<1>5. WayAfter(n, matched, m) = Way
  <2>1. (m + 1)..Len(matched) = {}
    BY <1>1
  <2>2. {matched[j] : j \in (m + 1)..Len(matched)} = {}
    BY <2>1
  <2>3. QED BY <2>2 DEF WayAfter, Way
<1>6. QED BY <1>1, <1>4, <1>5 DEF S

\* Confirming a subscription and replaying what was held for it leaves every
\* channel attended to: what it throws away belongs to none of them.
LEMMA DrainAttends ==
  ASSUME MaxBuffered >= MaxAttempts * MaxChanges, IInv,
         NEW on, Attended(on, desired, Client, Way), NEW n \in Attempts,
         req[n] = "acked", Current(n)
  PROVE  LET r == Drain([Client EXCEPT !.req[n] = "done", !.ch[of[n]].sid = n], n)
         IN  r.attempts <= MaxAttempts => Attended(on, desired, r, Way)
<1> DEFINE c == of[n]
           st == [Client EXCEPT !.req[n] = "done", !.ch[of[n]].sid = n]
           matched == PushesOf(buffer, {n})
           u == [st EXCEPT !.buffer = PushesOf(buffer, Attempts \ {n})]
           way == WayAfter(n, matched, 0)
           d == Replayed(u, matched)
           e == [d EXCEPT !.buffer = <<>>]
           r == Drain(st, n)
<1>1. /\ u \in ClientStates /\ st.buffer = buffer /\ HeldFor(n, matched)
      /\ ClientInv(desired, u, way)
      /\ u.ch[c].sid = n /\ u.ch[c].next = ch[c].next /\ u.ch[c].reg = n
      /\ u.req[n] = "done" /\ \A m \in Attempts \ {n} : u.req[m] = req[m]
      /\ \A x \in Channels \ {c} : u.ch[x] = ch[x]
      /\ \A m \in Attempts : Coming(u, way, m) = Coming(Client, Way, m)
  BY SetsAside, Typed
<1> HIDE DEF st
<1>2. r = IF Pending(d) THEN d ELSE e
  BY <1>1 DEF Drain
<1> HIDE DEF u, way
<1>3. c \in desired /\ ch[c].reg = n /\ n # 0
  BY DeltaAssumption DEF Current, Attempts, DeltaAssumption
<1>4. Attended(on, desired, u, way)
  <2>1. ASSUME NEW x \in desired
        PROVE  ChannelAttended(on, u, way, x)
    <3>1. /\ ChannelAttended(on, Client, Way, x) /\ x \in Channels
          /\ ch[x].reg \in Attempts /\ (ch[x].reg = n => x = c)
      BY <1>3, OwnAttempt, Typed DEF ClientInv, Attended
    <3>2. SnapshotComes(Client, Way, ch[x].reg) => SnapshotComes(u, way, ch[x].reg)
      BY <1>1, <3>1 DEF SnapshotComes
    <3>3. CASE x = c
      BY <1>1, <1>3, <3>1, <3>2, <3>3, Typed DEF ChannelAttended
    <3>4. CASE x # c
      <4>1. u.ch[x] = ch[x] /\ u.req[ch[x].reg] = req[ch[x].reg]
        BY <1>1, <3>1, <3>4
      <4>2. StillAttended(on, Client, Way, u, way, x)
        BY <3>1, <3>2, <4>1, Typed DEF StillAttended
      <4>3. QED BY <4>2, StaysAttended
    <3>5. QED BY <3>3, <3>4
  <2>2. QED BY <2>1 DEF Attended
<1>5. /\ d \in ClientStates
      /\ d.attempts <= MaxAttempts =>
           ClientInv(desired, d, Way) /\ Attended(on, desired, d, Way)
  <2>1. desired \subseteq Channels /\ changes \in Values
    BY DEF IInv, DaemonTyped
  <2>2. HeldFor(n, matched) /\ u \in ClientStates
        /\ ClientInv(desired, u, WayAfter(n, matched, 0))
        /\ Attended(on, desired, u, WayAfter(n, matched, 0))
    BY <1>1, <1>4 DEF way
  <2> HIDE DEF matched
  <2>3. QED BY <2>1, <2>2, ReplayAttends
<1> HIDE DEF d, r
<1>6. /\ e.ch = d.ch /\ e.req = d.req /\ e.attempts = d.attempts
      /\ e.buffer = <<>>
  BY <1>5 DEF ClientStates
<1> HIDE DEF e
<1>7. ASSUME d.attempts <= MaxAttempts, ~Pending(d)
      PROVE  Attended(on, desired, e, Way)
  <2>1. ClientInv(desired, d, Way) /\ Attended(on, desired, d, Way)
    BY <1>5, <1>7
  <2>2. ASSUME NEW x \in desired
        PROVE  ChannelAttended(on, e, Way, x)
    <3>1. /\ d.ch[x].sid = d.ch[x].reg /\ d.ch[x].sid # 0
          /\ ChannelAttended(on, d, Way, x)
      BY <1>5, <1>7, <2>1, OwnAttempt, Typed DEF Pending, ClientInv, Attended
    <3>2. \A p \in Range(d.buffer) : p.sub # d.ch[x].reg
      BY <2>1, <3>1 DEF ClientInv, Confirmed
    <3>3. SnapshotComes(d, Way, d.ch[x].reg) => SnapshotComes(e, Way, d.ch[x].reg)
      BY <3>2 DEF SnapshotComes, Coming
    <3>4. StillAttended(on, d, Way, e, Way, x)
      BY <1>6, <3>1, <3>3 DEF StillAttended
    <3>5. QED BY <3>4, StaysAttended
  <2>3. QED BY <2>2 DEF Attended
<1>8. r.attempts <= MaxAttempts => Attended(on, desired, r, Way)
  BY <1>2, <1>5, <1>6, <1>7
<1>9. QED BY <1>8 DEF r, st

\* The strengthening of UnseededIsAttended, inductive next to IInv.
AInv == Attended(connected, desired, Client, Way)

\* A turn of the client lands in the state it computed.
LEMMA LandsAttended ==
  ASSUME NEW st \in ClientStates, Becomes(st), NEW way, way = Way',
         Attended(connected', desired', st, way)
  PROVE  AInv'
<1>1. Client' = st
  BY Lands
<1>2. QED BY <1>1 DEF AInv, Attended, ChannelAttended, SnapshotComes, Coming

\* A reply.
LEMMA ReplyAttends ==
  ASSUME MaxBuffered >= MaxAttempts * MaxChanges, IInv, AInv, NEW n \in Attempts,
         DeliverReply(n)
  PROVE  AInv'
<1> DEFINE r == Drain([Client EXCEPT !.req[n] = "done", !.ch[of[n]].sid = n], n)
<1>1. /\ UNCHANGED <<desired, connected, wire>> /\ req[n] = "acked"
      /\ \/ ~Current(n) /\ StaleReply(n)
         \/ Current(n) /\ Becomes(r)
  BY DEF DeliverReply, daemonVars
<1>2. Way' = Way
  BY <1>1 DEF Way
<1>3. CASE Current(n) /\ Becomes(r)
  <2>1. r \in ClientStates
    BY <1>1, <1>3, DrainKeeps, Typed
  <2>2. r.attempts <= MaxAttempts => Attended(connected, desired, r, Way)
    BY <1>1, <1>3, DrainAttends DEF AInv
  <2> HIDE DEF r
  <2>3. Attended(connected', desired', r, Way)
    BY <1>1, <1>3, <2>2 DEF Becomes
  <2>4. QED BY <1>2, <1>3, <2>1, <2>3, LandsAttended
<1>4. CASE ~Current(n) /\ StaleReply(n)
  <2>1. /\ ch' = ch /\ req' = [req EXCEPT ![n] = "done"] /\ buffer' = buffer
    BY <1>4 DEF StaleReply, Becomes, Client
  <2>2. ASSUME NEW c \in desired
        PROVE  ChannelAttended(connected, Client', Way, c)
    <3>1. ch[c].reg \in Attempts /\ of[ch[c].reg] = c
          /\ ChannelAttended(connected, Client, Way, c)
      BY OwnAttempt, Typed DEF ClientInv, AInv, Attended
    <3>2. ch[c].reg # n
      BY <1>4, <3>1 DEF Current
    <3>3. req'[ch[c].reg] = req[ch[c].reg]
      BY <2>1, <3>1, <3>2, Typed
    <3>4. Client'.ch = ch /\ Client'.req = req' /\ Client'.buffer = buffer
      BY <2>1 DEF Client
    <3>5. StillAttended(connected, Client, Way, Client', Way, c)
      BY <3>1, <3>3, <3>4, Typed DEF StillAttended, SnapshotComes, Coming
    <3>6. QED BY <3>5, StaysAttended
  <2>3. QED BY <1>1, <1>2, <2>2
        DEF AInv, Attended, ChannelAttended, SnapshotComes, Coming
<1>5. QED BY <1>1, <1>3, <1>4

\* Channels that register again are asked for anew; the others stay as they are.
LEMMA SupersedesAttends ==
  ASSUME IInv, AInv, NEW st \in ClientStates, Becomes(st),
         NEW S \in SUBSET Channels, NEW D \in SUBSET Channels, desired' = D,
         Supersedes(desired, Client, S, D, st), UNCHANGED wire,
         connected' = connected \/ S = D
  PROVE  AInv'
<1>1. st.attempts \in Nat /\ Client.attempts \in Nat /\ MaxAttempts \in Nat
      /\ st.attempts <= MaxAttempts
  BY ClientFields, Typed, DeltaAssumption DEF DeltaAssumption, Becomes
<1>2. ASSUME NEW c \in S
      PROVE  ChannelAttended(connected', st, Way, c)
  <2>1. st.ch[c].reg \in NewAttempts(Client, st) /\ st.ch[c].sid = 0
    BY <1>2 DEF Supersedes
  <2>2. st.ch[c].reg \in Attempts
    BY <1>1, <2>1 DEF NewAttempts, Attempts
  <2>3. st.req[st.ch[c].reg] = "asked"
    BY <2>1, <2>2 DEF Supersedes
  <2>4. QED BY <2>1, <2>3 DEF ChannelAttended
<1>3. ASSUME NEW c \in D \ S
      PROVE  ChannelAttended(connected', st, Way, c)
  <2>1. /\ c \in desired /\ st.ch[c] = Client.ch[c] /\ connected' = connected
        /\ st.buffer = Client.buffer
    BY <1>3 DEF Supersedes
  <2>2. /\ Client.ch[c].reg \in Attempts /\ Client.ch[c].reg <= Client.attempts
        /\ ChannelAttended(connected, Client, Way, c)
    BY <2>1, OwnAttempt, Typed DEF ClientInv, AInv, Attended
  <2>3. Client.ch[c].reg \notin NewAttempts(Client, st)
    BY <1>1, <2>2 DEF NewAttempts, Attempts
  <2>4. st.req[Client.ch[c].reg] = Client.req[Client.ch[c].reg]
    BY <2>2, <2>3 DEF Supersedes
  <2>5. StillAttended(connected, Client, Way, st, Way, c)
    BY <2>1, <2>2, <2>4 DEF StillAttended, SnapshotComes, Coming
  <2>6. QED BY <2>1, <2>5, StaysAttended
<1>4. Attended(connected', desired', st, Way)
  BY <1>2, <1>3 DEF Attended
<1>5. Way = Way'
  BY DEF Way
<1>6. QED BY <1>4, <1>5, LandsAttended

\* A push: it is applied, held, or of no use to a channel without rows.
LEMMA PushAttends ==
  ASSUME MaxBuffered >= MaxAttempts * MaxChanges, IInv, AInv, NEW n \in Attempts,
         DeliverPush(n)
  PROVE  AInv'
<1> DEFINE p == Head(wire[n])
           r == ProcessPush(Client, p)
<1>1. /\ wire[n] # <<>> /\ wire' = [wire EXCEPT ![n] = Tail(@)]
      /\ Becomes(IF disposed THEN Client ELSE r)
      /\ UNCHANGED <<desired, connected>>
  BY DEF DeliverPush
<1>2. CASE disposed
  <2>1. desired' = {}
    BY <1>1, <1>2 DEF IInv, Closed
  <2>2. QED BY <2>1 DEF AInv, Attended
<1>3. CASE ~disposed
  <2>1. /\ wire \in [Attempts -> Seq(Pushes)] /\ desired \subseteq Channels
        /\ changes \in Values
        /\ \A m \in Attempts : \A j, k \in DOMAIN wire[m] :
             j < k => wire[m][j].seq < wire[m][k].seq
    BY DEF IInv, DaemonTyped, WireOrdered
  <2>2. /\ p \in Pushes /\ p \in Range(wire[n])
        /\ Range(Tail(wire[n])) = Range(wire[n]) \ {p}
    BY <1>1, <2>1, WithoutTheFirst
  <2>3. Becomes(r) /\ r.attempts <= MaxAttempts
    BY <1>1, <1>3 DEF Becomes
  <2> HIDE DEF p
  <2>4. p.sub = n
    BY <2>2, Typed DEF ClientInv, Ordered, Way
  <2>5. \A m \in Attempts : Way'[m] = IF m = p.sub THEN Way[m] \ {p} ELSE Way[m]
    BY <1>1, <2>1, <2>2, <2>4 DEF Way
  <2>6. p \in Way[p.sub]
    BY <2>2, <2>4 DEF Way
  <2>7. r \in ClientStates
    BY <2>1, <2>2, ProcessTyped, Typed
  <2> DEFINE way2 == Way'
  <2>8. \A m \in Attempts : way2[m] = IF m = p.sub THEN Way[m] \ {p} ELSE Way[m]
    BY <2>5
  <2> HIDE DEF way2
  <2>9. Attended(connected, desired, r, way2)
    BY <2>1, <2>2, <2>3, <2>6, <2>8, ProcessAttends, Typed DEF AInv
  <2>10. Attended(connected', desired', r, way2) /\ way2 = Way'
    BY <1>1, <2>9 DEF way2
  <2> HIDE DEF r
  <2>11. QED BY <2>3, <2>7, <2>10, LandsAttended
<1>4. QED BY <1>2, <1>3

\* Channel c has as much to wait for as before, or its request has failed.
Unharmed(c) ==
  \/ ch'[c].sid = 0 /\ req'[ch'[c].reg] = "failed"
  \/ /\ ch'[c].next = ch[c].next /\ ch'[c].reg = ch[c].reg
     /\ ch'[c].sid = ch[c].sid /\ ch'[c].retry = ch[c].retry
     /\ req'[ch[c].reg] = req[ch[c].reg]
     /\ connected' =>
          connected /\ Coming(Client, Way, ch[c].reg) \subseteq Coming(Client', Way', ch[c].reg)

\* Such a step leaves the channels attended to.
LEMMA UnharmedAttends ==
  ASSUME IInv, AInv, desired' = desired, connected' \in BOOLEAN,
         \A c \in desired : Unharmed(c)
  PROVE  AInv'
<1>1. ASSUME NEW c \in desired
      PROVE  ChannelAttended(connected', Client', Way', c)
  <2>1. ChannelAttended(connected, Client, Way, c) /\ Unharmed(c)
    BY DEF AInv, Attended
  <2>2. Client'.ch = ch' /\ Client'.req = req' /\ Client.ch = ch /\ Client.req = req
    BY DEF Client
  <2>3. CASE ch'[c].sid = 0 /\ req'[ch'[c].reg] = "failed"
    BY <2>2, <2>3 DEF ChannelAttended
  <2>4. CASE connected'
    BY <2>1, <2>2, <2>3, <2>4 DEF ChannelAttended, Unharmed, SnapshotComes
  <2>5. CASE ~connected'
    BY <2>1, <2>2, <2>3, <2>5 DEF ChannelAttended, Unharmed
  <2>6. QED BY <2>4, <2>5
<1>2. QED BY <1>1 DEF AInv, Attended, ChannelAttended, SnapshotComes, Coming

\* A failed request arms the retry of the channel it was made for.
LEMMA FailureAttends ==
  ASSUME IInv, AInv, NEW n \in Attempts, DeliverFailure(n) \/ ReplyTimesOut(n)
  PROVE  AInv'
<1> DEFINE ch2 == [c \in Channels |->
                     IF c = of[n] /\ Current(n) THEN [ch[c] EXCEPT !.retry = TRUE]
                     ELSE ch[c]]
<1>1. /\ ch' = ch2 /\ buffer' = buffer
      /\ \E v \in {"timedout", "done"} : req' = [req EXCEPT ![n] = v]
      /\ req[n] \in {"acked", "failed"}
      /\ UNCHANGED <<desired, connected, wire>>
  BY DEF DeliverFailure, Failed, ReplyTimesOut, Becomes, Client, daemonVars
<1>2. /\ Client'.ch = ch2 /\ Client'.req = req' /\ Client'.buffer = buffer
      /\ Way' = Way
  BY <1>1 DEF Client, Way
<1>3. ASSUME NEW c \in desired
      PROVE  ChannelAttended(connected, Client', Way, c)
  <2>1. /\ ch[c] \in ChannelStates /\ ch[c].reg \in Attempts /\ of[ch[c].reg] = c
        /\ ch[c].sid \in {0, ch[c].reg}
        /\ ch[c].sid # 0 => req[ch[c].reg] = "done"
        /\ c \in Channels /\ ChannelAttended(connected, Client, Way, c)
    BY OwnAttempt, Typed DEF ClientInv, AInv, Attended
  <2>2. CASE ch[c].reg = n
    <3>1. ch2[c] = [ch[c] EXCEPT !.retry = TRUE] /\ Current(n)
      BY <2>1, <2>2 DEF Current
    <3> HIDE DEF ch2
    <3>2. ch2[c].retry /\ ch2[c].sid = 0 /\ ch2[c].reg = n
      BY <1>1, <2>1, <2>2, <3>1 DEF ChannelStates
    <3>3. req'[n] \in {"timedout", "done"}
      BY <1>1, Typed
    <3>4. QED BY <1>2, <3>2, <3>3 DEF ChannelAttended
  <2>3. CASE ch[c].reg # n
    <3>1. ch2[c] = ch[c]
      BY <2>1, <2>3 DEF Current
    <3>2. req'[ch[c].reg] = req[ch[c].reg]
      BY <1>1, <2>1, <2>3, Typed
    <3> HIDE DEF ch2
    <3>3. StillAttended(connected, Client, Way, Client', Way, c)
      BY <1>2, <2>1, <3>1, <3>2, Typed DEF StillAttended, SnapshotComes, Coming
    <3>4. QED BY <3>3, StaysAttended
  <2>4. QED BY <2>2, <2>3
<1> HIDE DEF ch2
<1>4. QED BY <1>1, <1>2, <1>3
      DEF AInv, Attended, ChannelAttended, SnapshotComes, Coming

\* A continuation, a read behind it, a refusal, the end of a subscription and a
\* change of a collection harm no channel.
LEMMA QuietlyAttends ==
  ASSUME IInv, AInv, NEW n \in Attempts,
         \/ DeliverPage(n) \/ PageGivesUp(n) \/ DaemonReads(n) \/ DaemonRefuses(n)
         \/ DaemonUnsubscribes(n) \/ UNCHANGED vars
         \/ \E c \in Channels : \E i \in Rows : DaemonChanges(c, i)
  PROVE  AInv'
<1>1. /\ desired' = desired /\ connected' = connected /\ buffer' = buffer
      /\ req' = req \/ (req[n] = "asked" /\ req' = [req EXCEPT ![n] = "failed"])
      /\ \/ ch' = ch
         \/ \E c \in Channels : \E f : ch' = [ch EXCEPT ![c].rows = f]
  <2>1. CASE DeliverPage(n)
    <3> DEFINE c == of[n]
               filled == [i \in Rows |-> IF i \in DOMAIN pageRows[n] /\ Fills(c, i)
                                         THEN pageRows[n][i] ELSE ch[c].rows[i]]
    <3>1. c \in Channels
      BY Typed
    <3>2. CASE ch[c].sid = n
      <4>1. ch' = [ch EXCEPT ![c].rows = filled] /\ buffer' = buffer /\ req' = req
        BY <2>1, <3>2 DEF DeliverPage, Becomes, Emit, Client
      <4>2. QED BY <2>1, <3>1, <4>1 DEF DeliverPage
    <3>3. CASE ch[c].sid # n
      <4>1. ch' = ch /\ buffer' = buffer /\ req' = req
        BY <2>1, <3>3 DEF DeliverPage, Becomes, Emit, Client
      <4>2. QED BY <2>1, <4>1 DEF DeliverPage
    <3>4. QED BY <3>2, <3>3
  <2>2. CASE DaemonRefuses(n)
    BY <2>2 DEF DaemonRefuses
  <2>3. QED BY <2>1, <2>2
        DEF PageGivesUp, DaemonReads, DaemonUnsubscribes, DaemonChanges, vars,
            clientVars
<1>2. \A m \in Attempts : Range(wire[m]) \subseteq Range(wire'[m])
  <2>1. CASE wire' = wire
    BY <2>1
  <2>2. CASE \E c \in Channels : \E i \in Rows : DaemonChanges(c, i)
    <3>1. PICK c \in Channels, i \in Rows : DaemonChanges(c, i)
      BY <2>2
    <3> DEFINE told == {m \in live : of[m] = c}
    <3>2. PICK v \in {0, changes'} \ {store[c][i]}, loses \in BOOLEAN :
            wire' = [m \in Attempts |->
                       IF m \in told /\ ~loses
                       THEN Append(wire[m], Push(m, "delta", sent[m],
                                                 [r \in {i} |-> v], FALSE))
                       ELSE wire[m]]
      BY ONLY <3>1, Zenon DEF DaemonChanges
    <3> DEFINE word(m) == Push(m, "delta", sent[m], [r \in {i} |-> v], FALSE)
               longer(m) == Append(wire[m], word(m))
    <3>3. wire' = [m \in Attempts |-> IF m \in told /\ ~loses THEN longer(m)
                                      ELSE wire[m]]
      BY <3>2
    <3> HIDE DEF told, word, longer
    <3>4. ASSUME NEW m \in Attempts
          PROVE  Range(wire[m]) \subseteq Range(wire'[m])
      <4> DEFINE p == word(m)
      <4>1. wire'[m] = IF m \in told /\ ~loses THEN Append(wire[m], p) ELSE wire[m]
        BY <3>3 DEF longer
      <4>2. wire[m] \in Seq(Pushes)
        BY DEF IInv, DaemonTyped
      <4> HIDE DEF p
      <4>3. Range(wire[m]) \subseteq Range(Append(wire[m], p))
        <5> DEFINE k == Len(wire[m])
                   w == Append(wire[m], p)
        <5>1. /\ k \in Nat /\ DOMAIN wire[m] = 1..k /\ DOMAIN w = 1..(k + 1)
              /\ \A j \in 1..k : w[j] = wire[m][j]
          <6>1. wire[m] \in Seq(Pushes \cup {p}) /\ p \in Pushes \cup {p}
            <7>1. Pushes \subseteq Pushes \cup {p}
              OBVIOUS
            <7>2. \A j \in 1..Len(wire[m]) : wire[m][j] \in Pushes \cup {p}
              BY <4>2, ElementOfSeq
            <7>3. wire[m] = [j \in 1..Len(wire[m]) |-> wire[m][j]] /\ Len(wire[m]) \in Nat
              BY <4>2, LenProperties
            <7>4. QED BY <4>2, <7>2, <7>3, SeqDef
          <6>2. QED BY <6>1, AppendProperties, LenProperties
        <5>2. QED BY <5>1 DEF Range
      <4>4. QED BY <4>1, <4>3
    <3>5. QED BY <3>4
  <2>3. QED BY <2>1, <2>2
        DEF DeliverPage, PageGivesUp, DaemonReads, DaemonRefuses,
            DaemonUnsubscribes, vars, daemonVars
<1>3. ASSUME NEW c \in desired
      PROVE  Unharmed(c)
  <2>1. /\ ch[c] \in ChannelStates /\ ch[c].reg \in Attempts
        /\ ch[c].sid \in {0, ch[c].reg}
        /\ ch[c].sid # 0 => req[ch[c].reg] = "done"
        /\ c \in Channels
    BY OwnAttempt, Typed DEF ClientInv
  <2>2. /\ ch'[c].next = ch[c].next /\ ch'[c].reg = ch[c].reg
        /\ ch'[c].sid = ch[c].sid /\ ch'[c].retry = ch[c].retry
    <3>1. CASE ch' = ch
      BY <3>1
    <3>2. ASSUME NEW d \in Channels, NEW f, ch' = [ch EXCEPT ![d].rows = f]
          PROVE  /\ ch'[c].next = ch[c].next /\ ch'[c].reg = ch[c].reg
                 /\ ch'[c].sid = ch[c].sid /\ ch'[c].retry = ch[c].retry
      <4>1. ch'[c] = IF c = d THEN [ch[c] EXCEPT !.rows = f] ELSE ch[c]
        BY <2>1, <3>2, Typed
      <4>2. QED BY <2>1, <4>1 DEF ChannelStates
    <3>3. QED BY <1>1, <3>1, <3>2
  <2>3. Coming(Client, Way, ch[c].reg) \subseteq Coming(Client', Way', ch[c].reg)
    BY <1>1, <1>2, <2>1 DEF Coming, Client, Way
  <2>4. CASE req'[ch[c].reg] = req[ch[c].reg]
    BY <1>1, <2>2, <2>3, <2>4 DEF Unharmed
  <2>5. CASE req'[ch[c].reg] # req[ch[c].reg]
    <3>1. ch[c].reg = n /\ req[n] = "asked" /\ req'[n] = "failed"
      BY <1>1, <2>1, <2>5, Typed
    <3>2. ch[c].sid = 0
      BY <2>1, <3>1
    <3>3. QED BY <2>2, <3>1, <3>2 DEF Unharmed
  <2>6. QED BY <2>4, <2>5
<1>4. connected' \in BOOLEAN
  BY <1>1 DEF IInv, DaemonTyped
<1>5. QED BY <1>1, <1>3, <1>4, UnharmedAttends

\* The connection drops: requests in flight fail.
LEMMA DropAttends ==
  ASSUME IInv, AInv, Drop
  PROVE  AInv'
<1>1. /\ desired' = desired /\ connected' = FALSE /\ ch' = ch
      /\ req' = [n \in Attempts |->
                   IF req[n] \in {"asked", "acked"} THEN "failed" ELSE req[n]]
  BY DEF Drop
<1>2. ASSUME NEW c \in desired
      PROVE  Unharmed(c)
  <2>1. ch[c].reg \in Attempts /\ (ch[c].sid # 0 => req[ch[c].reg] = "done")
    BY OwnAttempt, Typed DEF ClientInv
  <2>2. QED BY <1>1, <2>1 DEF Unharmed
<1>3. QED BY <1>1, <1>2, UnharmedAttends

\* The channel of a continuation that gave up starts over.
LEMMA GiveUpAttends ==
  ASSUME IInv, AInv, NEW n \in Attempts, GiveUpFires(n)
  PROVE  AInv'
<1>1. UNCHANGED <<desired, connected, wire>> /\ desired \in SUBSET Channels
  BY Typed DEF GiveUpFires, daemonVars
<1>2. CASE ch[of[n]].sid = n
  <2>1. PICK r \in ClientStates :
          Becomes(r) /\ Supersedes(desired, Client, {of[n]}, desired, r)
    BY <1>2, GiveUpSupersedes
  <2>2. {of[n]} \in SUBSET Channels
    BY Typed
  <2>3. QED BY <1>1, <2>1, <2>2, SupersedesAttends
<1>3. CASE ch[of[n]].sid # n
  <2>1. UNCHANGED <<ch, buffer, req>>
    BY <1>3, GiveUpForgets
  <2>2. \A c \in desired : Unharmed(c)
    BY <1>1, <2>1 DEF Unharmed, Coming, Client, Way
  <2>3. connected' \in BOOLEAN
    BY <1>1 DEF IInv, DaemonTyped
  <2>4. QED BY <1>1, <2>2, <2>3, UnharmedAttends
<1>4. QED BY <1>2, <1>3

\* A subscription is made: its snapshot comes.
LEMMA SubscribeAttends ==
  ASSUME IInv, AInv, NEW n \in Attempts, DaemonSubscribes(n)
  PROVE  AInv'
<1>1. /\ req[n] = "asked" /\ req' = [req EXCEPT ![n] = "acked"]
      /\ UNCHANGED <<desired, ch, buffer, connected>>
      /\ \E rows, more : wire' = [wire EXCEPT
           ![n] = <<Push(n, "snapshot", 0, rows, more)>>]
  BY DEF DaemonSubscribes
<1>2. wire \in [Attempts -> Seq(Pushes)]
  BY DEF IInv, DaemonTyped
<1>3. /\ Client'.ch = ch /\ Client'.req = req' /\ Client'.buffer = buffer
  BY <1>1 DEF Client
<1>4. ASSUME NEW c \in desired
      PROVE  ChannelAttended(connected, Client', Way', c)
  <2>1. /\ ch[c].reg \in Attempts /\ (ch[c].sid # 0 => req[ch[c].reg] = "done")
        /\ ChannelAttended(connected, Client, Way, c)
    BY OwnAttempt, Typed DEF ClientInv, AInv, Attended
  <2>2. CASE ch[c].reg = n
    <3>1. PICK rows, more : wire'[n] = <<Push(n, "snapshot", 0, rows, more)>>
      BY <1>1, <1>2
    <3> DEFINE p == Push(n, "snapshot", 0, rows, more)
    <3>2. p.kind = "snapshot"
      BY DEF Push
    <3>3. p \in Range(<<p>>)
      BY DEF Range
    <3> HIDE DEF p
    <3>4. p \in Way'[n]
      BY <3>1, <3>3 DEF Way, p
    <3>5. SnapshotComes(Client', Way', n)
      BY <3>2, <3>4 DEF SnapshotComes, Coming
    <3>6. req'[n] = "acked"
      BY <1>1, Typed
    <3>7. QED BY <1>3, <2>2, <3>5, <3>6 DEF ChannelAttended
  <2>3. CASE ch[c].reg # n
    <3>1. req'[ch[c].reg] = req[ch[c].reg] /\ Way'[ch[c].reg] = Way[ch[c].reg]
      BY <1>1, <1>2, <2>1, <2>3, Typed DEF Way
    <3>2. StillAttended(connected, Client, Way, Client', Way', c)
      BY <1>3, <2>1, <3>1, Typed DEF StillAttended, SnapshotComes, Coming
    <3>3. QED BY <3>2, StaysAttended
  <2>4. QED BY <2>2, <2>3
<1>5. QED BY <1>1, <1>4 DEF AInv, Attended, ChannelAttended, SnapshotComes, Coming

\* In the beginning every channel is asked for.
LEMMA InitAttends == Init => AInv
<1> SUFFICES ASSUME Init, NEW c \in desired
             PROVE  ch[c].sid = 0 /\ req[ch[c].reg] = "asked"
  BY DEF AInv, Attended, ChannelAttended, Client
<1>1. attempts = 1 /\ c \in Channels
  BY DEF Init
<1>2. 1 \in Attempts
  BY DeltaAssumption DEF Attempts, DeltaAssumption
<1>3. ch[c] = [FreshChannel EXCEPT !.reg = 1] /\ req[1] = "asked"
  BY <1>1, <1>2 DEF Init
<1>4. QED BY <1>3 DEF FreshChannel

\* Every step leaves every channel attended to.
LEMMA NextAttends ==
  ASSUME MaxBuffered >= MaxAttempts * MaxChanges
  PROVE  IInv /\ AInv /\ [Next]_vars => AInv'
<1> SUFFICES ASSUME IInv, AInv, [Next]_vars
             PROVE  AInv'
  OBVIOUS
<1>1. 1 \in Attempts
  BY DeltaAssumption DEF Attempts, DeltaAssumption
<1>2. CASE \E n \in Attempts :
        \/ DeliverReply(n) \/ DeliverFailure(n) \/ ReplyTimesOut(n)
        \/ DeliverPush(n) \/ DeliverPage(n) \/ PageGivesUp(n) \/ GiveUpFires(n)
        \/ DaemonSubscribes(n) \/ DaemonRefuses(n) \/ DaemonReads(n)
        \/ DaemonUnsubscribes(n)
  BY <1>2, ReplyAttends, FailureAttends, PushAttends, QuietlyAttends,
     GiveUpAttends, SubscribeAttends
<1>3. ASSUME NEW c \in Channels, RetryFires(c)
      PROVE  AInv'
  <2>1. PICK r \in ClientStates :
          Becomes(r) /\ Supersedes(desired, Client, {c}, desired, r)
    BY <1>3, RetrySupersedes
  <2>2. {c} \in SUBSET Channels /\ desired \in SUBSET Channels
        /\ UNCHANGED <<desired, wire, connected>>
    BY <1>3, Typed DEF RetryFires, daemonVars
  <2>3. QED BY <2>1, <2>2, SupersedesAttends
<1>4. ASSUME NEW D \in SUBSET Channels, SetDesired(D)
      PROVE  AInv'
  <2>1. PICK r \in ClientStates :
          Becomes(r) /\ Supersedes(desired, Client, D \ desired, D, r)
    BY <1>4, SetDesiredSupersedes
  <2>2. D \ desired \in SUBSET Channels /\ desired' = D
        /\ UNCHANGED <<wire, connected>>
    BY <1>4 DEF SetDesired, daemonVars
  <2>3. QED BY <2>1, <2>2, SupersedesAttends
<1>5. CASE Reconnected
  <2>1. PICK r \in ClientStates :
          Becomes(r) /\ Supersedes(desired, Client, desired, desired, r)
    BY <1>5, ReconnectedSupersedes
  <2>2. desired \in SUBSET Channels /\ UNCHANGED <<desired, wire>>
    BY <1>5, Typed DEF Reconnected, daemonVars
  <2>3. QED BY <2>1, <2>2, SupersedesAttends
<1>6. CASE Dispose
  BY <1>6 DEF Dispose, AInv, Attended
<1>7. CASE Drop
  BY <1>7, DropAttends
<1>8. CASE UNCHANGED vars
  BY <1>1, <1>8, QuietlyAttends
<1>9. CASE \E c \in Channels : \E i \in Rows : DaemonChanges(c, i)
  BY <1>1, <1>9, QuietlyAttends
<1>10. QED BY <1>2, <1>3, <1>4, <1>5, <1>6, <1>7, <1>8, <1>9 DEF Next

\* A channel without a snapshot is always on its way to one, unless the transport
\* is down, as long as every push there may be fits into the buffer of held
\* pushes: "a registration failure must keep retrying rather than leaving the
\* subscription permanently unseeded" (retryDelayMs).
THEOREM UnseededChannelsAreAttended ==
  ASSUME MaxBuffered >= MaxAttempts * MaxChanges
  PROVE  Spec => []UnseededIsAttended
<1>1. IInv /\ AInv => UnseededIsAttended
  <2> SUFFICES ASSUME IInv, AInv, NEW c \in desired, ch[c].next = 0,
                      connected, ~ch[c].retry
               PROVE  \/ ch[c].sid # 0 /\ SeedComing(c, ch[c].sid)
                      \/ /\ ch[c].sid = 0 /\ ch[c].reg # 0
                         /\ \/ req[ch[c].reg] \in {"asked", "failed"}
                            \/ /\ req[ch[c].reg] = "acked"
                               /\ SeedComing(c, ch[c].reg)
    BY DEF UnseededIsAttended
  <2>1. /\ ch[c].reg \in Attempts /\ ch[c].reg # 0 /\ ch[c].reg <= attempts
        /\ ch[c].sid \in {0, ch[c].reg}
        /\ ChannelAttended(connected, Client, Way, c)
    <3>1. /\ Client.ch[c].reg \in Attempts /\ Client.ch[c].reg # 0
          /\ Client.ch[c].reg <= Client.attempts
          /\ Client.ch[c].sid \in {0, Client.ch[c].reg}
      BY OwnAttempt, Typed DEF ClientInv
    <3>2. ChannelAttended(connected, Client, Way, c)
      BY DEF AInv, Attended
    <3>3. Client.ch = ch /\ Client.attempts = attempts
      BY DEF Client
    <3>4. QED BY <3>1, <3>2, <3>3
  <2>2. ASSUME SnapshotComes(Client, Way, ch[c].reg)
        PROVE  SeedComing(c, ch[c].reg)
    BY <2>1, <2>2, Typed DEF SnapshotComes, Coming, SeedComing, Range, Way
  <2>3. req[ch[c].reg] \in Statuses /\ req[ch[c].reg] # "none"
    <3>1. ch[c].reg \in Nat /\ attempts \in Nat
      BY <2>1, Typed, DeltaAssumption DEF Attempts, DeltaAssumption
    <3>2. ~(ch[c].reg > attempts)
      BY <2>1, <3>1
    <3>3. Client.req[ch[c].reg] = "none" <=> ch[c].reg > Client.attempts
      BY <2>1, Typed DEF ClientInv, Registered
    <3>4. QED BY <2>1, <3>2, <3>3, Typed
  <2>4. QED BY <2>1, <2>2, <2>3, Typed DEF ChannelAttended, Statuses
<1>2. IInv /\ AInv /\ [Next]_vars => AInv'
  BY NextAttends
<1>3. QED BY <1>1, <1>2, InitAttends, Invariance, PTL DEF Spec
=============================================================================
