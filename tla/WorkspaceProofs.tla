-------------------------- MODULE WorkspaceProofs ---------------------------
(***************************************************************************)
(* Of the reads of the renderer's workspaces, for every set of reads,      *)
(* workspaces and branches and every limit: the slots are counted exactly, *)
(* and no read is overtaken without bound; each branch of a mounted        *)
(* workspace is in exactly one place, so that no generation requests it    *)
(* twice or loses it.                                                      *)
(*                                                                         *)
(* What holds between two calls of the scheduler is Scheduled, of the      *)
(* variables; what drain() is entered with is the same, but one slot may   *)
(* be free while one read more is queued.                                  *)
(***************************************************************************)
EXTENDS WorkspaceReads, WorkspaceHydration, FiniteSetTheorems, SequenceTheorems,
        WellFoundedInduction, TLAPS

-----------------------------------------------------------------------------
(* The scheduler of the reads.                                             *)

\* The queue has each waiting read once, and only those.
Queued(q, prio, slots) ==
  /\ \A i, j \in DOMAIN q : q[i] = q[j] => i = j
  /\ \A r \in Reads : slots[r] = "queued" <=> \E i \in DOMAIN q : q[i] = r
  /\ \A r \in prio : slots[r] = "queued"

\* The slots that are counted are the ones that are held.
Counted(n, slots) == n = Cardinality({r \in Reads : slots[r] = "granted"})

\* The background reads ahead of the i-th waiter.
BackgroundBefore(q, prio, i) ==
  {r \in Reads : r \notin prio /\ \E j \in 1..(i - 1) : q[j] = r}

\* The history: a priority read is never overtaken; a background read at most
\* Limit times for each background read that has left from ahead of it, and once
\* for each priority grant of the present row.
Paced(q, prio, k, slots, before, passed) ==
  /\ \A r \in Reads : slots[r] # "queued" \/ r \in prio => passed[r] = 0
  /\ \A i \in DOMAIN q : q[i] \notin prio =>
       LET n == Cardinality(BackgroundBefore(q, prio, i))
       IN  /\ n <= before[q[i]]
           /\ passed[q[i]] <= Limit * (before[q[i]] - n) + k

Scheduled ==
  /\ Queued(waiters, priority, slot)
  /\ Counted(active, slot) /\ active <= Limit
  /\ waiters # <<>> => active = Limit
  /\ Paced(waiters, priority, streak, slot, ahead, overtaken)

ReadsInv == ReadsTypeOK /\ Scheduled

-----------------------------------------------------------------------------
(* The operators the scheduler is built from.                              *)

\* A set of positions that is not empty has a first one (findIndex of a queue).
LEMMA FirstPosition ==
  ASSUME NEW T \in SUBSET Nat, T # {}
  PROVE  \E i \in T : \A j \in T : i <= j
<1>1. PICK i \in T : \A j \in T : ~(<<j, i>> \in OpToRel(<, Nat))
  BY WFMin, NatLessThanWellFounded
<1>2. \A j \in T : ~(j < i)
  BY <1>1 DEF OpToRel
<1>3. QED BY <1>2

\* splice(i, 1): the waiters behind the i-th move up by one.
LEMMA RemoveAtProperties ==
  ASSUME NEW S, NEW q \in Seq(S), NEW i \in 1..Len(q)
  PROVE  /\ RemoveAt(q, i) \in Seq(S)
         /\ Len(RemoveAt(q, i)) = Len(q) - 1
         /\ \A j \in 1..(Len(q) - 1) :
              RemoveAt(q, i)[j] = IF j < i THEN q[j] ELSE q[j + 1]
<1> DEFINE a == SubSeq(q, 1, i - 1)
           b == SubSeq(q, i + 1, Len(q))
<1>1. Len(q) \in Nat /\ \A j \in 1..Len(q) : q[j] \in S
  BY LenProperties, ElementOfSeq
<1>2. /\ a \in Seq(S) /\ Len(a) = i - 1
      /\ \A j \in 1..(i - 1) : a[j] = q[j]
  <2>1. \A j \in 1..(i - 1) : q[j] \in S
    BY <1>1
  <2>2. QED BY <1>1, <2>1, SubSeqProperties
<1>3. /\ b \in Seq(S) /\ Len(b) = Len(q) - i
      /\ \A j \in 1..(Len(q) - i) : b[j] = q[i + j]
  <2>1. \A j \in (i + 1)..Len(q) : q[j] \in S
    BY <1>1
  <2>2. QED BY <1>1, <2>1, SubSeqProperties
<1>4. RemoveAt(q, i) = a \o b
  BY DEF RemoveAt
<1> HIDE DEF a, b
<1>5. /\ a \o b \in Seq(S) /\ Len(a \o b) = Len(q) - 1
      /\ \A j \in 1..(Len(q) - 1) :
           (a \o b)[j] = IF j <= i - 1 THEN a[j] ELSE b[j - (i - 1)]
  <2>1. /\ a \o b \in Seq(S) /\ Len(a \o b) = Len(a) + Len(b)
        /\ \A j \in 1..(Len(a) + Len(b)) :
             (a \o b)[j] = IF j <= Len(a) THEN a[j] ELSE b[j - Len(a)]
    BY <1>2, <1>3, ConcatProperties
  <2>2. Len(a) + Len(b) = Len(q) - 1
    BY <1>1, <1>2, <1>3
  <2>3. QED BY <1>2, <2>1, <2>2
<1>6. QED BY <1>1, <1>2, <1>3, <1>4, <1>5

\* nextIndex() names a waiter; one that is not the oldest has priority, is granted
\* within the bound, and has no priority waiter before it.
LEMMA NextIndexProperties ==
  ASSUME NEW q \in Seq(Reads), q # <<>>, NEW prio, NEW k \in Nat
  PROVE  LET i == NextIndex(q, prio, k) IN
         /\ i \in 1..Len(q)
         /\ i # 1 => /\ q[i] \in prio /\ k < Limit
                     /\ \A j \in 1..(i - 1) : q[j] \notin prio
<1> DEFINE wanted == {i \in DOMAIN q : q[i] \in prio}
<1>1. DOMAIN q = 1..Len(q) /\ Len(q) \in Nat \ {0}
  BY LenProperties, EmptySeq
<1>2. CASE wanted = {} \/ ~Fair(k)
  BY <1>1, <1>2 DEF NextIndex
<1>3. CASE ~(wanted = {} \/ ~Fair(k))
  <2>1. NextIndex(q, prio, k) = CHOOSE i \in wanted : \A j \in wanted : i <= j
    BY <1>3 DEF NextIndex
  <2>2. wanted \in SUBSET Nat /\ wanted # {}
    BY <1>1, <1>3
  <2>3. \E i \in wanted : \A j \in wanted : i <= j
    BY <2>2, FirstPosition
  <2>4. /\ NextIndex(q, prio, k) \in wanted
        /\ \A j \in wanted : NextIndex(q, prio, k) <= j
    BY <2>1, <2>3
  <2>5. QED BY <1>1, <1>3, <2>4 DEF Fair
<1>4. QED BY <1>2, <1>3

\* A waiter leaves the queue, whether granted or cancelled: the others are queued
\* as before.
LEMMA LeavesQueue ==
  ASSUME NEW q \in Seq(Reads), NEW prio \in SUBSET Reads,
         NEW slots \in [Reads -> {"none", "queued", "granted"}],
         Queued(q, prio, slots), NEW i \in 1..Len(q), NEW v \in {"none", "granted"}
  PROVE  Queued(RemoveAt(q, i), prio \ {q[i]}, [slots EXCEPT ![q[i]] = v])
<1> DEFINE w == RemoveAt(q, i)
           p == prio \ {q[i]}
           slots1 == [slots EXCEPT ![q[i]] = v]
<1>q. /\ \A x, y \in DOMAIN q : q[x] = q[y] => x = y
      /\ \A r \in Reads : slots[r] = "queued" <=> \E x \in DOMAIN q : q[x] = r
      /\ \A r \in prio : slots[r] = "queued"
  BY DEF Queued
<1>1. p = prio \ {q[i]} /\ slots1 = [slots EXCEPT ![q[i]] = v] /\ v # "queued"
  OBVIOUS
<1>3. /\ Len(q) \in Nat /\ DOMAIN q = 1..Len(q)
      /\ \A j \in 1..Len(q) : q[j] \in Reads
  BY LenProperties, ElementOfSeq
<1>2. i \in 1..Len(q) /\ i \in Int
  BY <1>3
<1>4. /\ w \in Seq(Reads) /\ Len(w) = Len(q) - 1 /\ DOMAIN w = 1..(Len(q) - 1)
      /\ \A j \in 1..(Len(q) - 1) : w[j] = IF j < i THEN q[j] ELSE q[j + 1]
  BY RemoveAtProperties, LenProperties
<1>5. slots[q[i]] = "queued" /\ q[i] \in Reads
  BY <1>2, <1>3, <1>q
<1> HIDE DEF w, p, slots1
<1>6. Queued(w, p, slots1)
  <2>1. ASSUME NEW x \in DOMAIN w, NEW y \in DOMAIN w,
               w[x] = w[y]
        PROVE  x = y
    <3> DEFINE at(k) == IF k < i THEN k ELSE k + 1
    <3>1. /\ at(x) \in DOMAIN q /\ w[x] = q[at(x)]
          /\ at(y) \in DOMAIN q /\ w[y] = q[at(y)]
      BY <1>2, <1>3, <1>4
    <3>2. at(x) = at(y)
      <4> HIDE DEF at
      <4>1. QED BY <1>q, <2>1, <3>1
    <3>3. QED BY <1>2, <1>3, <1>4, <3>2
  <2>2. ASSUME NEW r \in Reads, slots1[r] = "queued"
        PROVE  \E x \in DOMAIN w : w[x] = r
    <3>1. slots[r] = "queued" /\ r # q[i]
      BY <1>1, <1>5, <2>2
    <3>2. PICK x \in 1..Len(q) : q[x] = r
      BY <1>3, <1>q, <3>1
    <3>3. CASE x < i
      <4>1. x \in 1..(Len(q) - 1) /\ w[x] = q[x]
        BY <1>2, <1>3, <1>4, <3>3
      <4>2. QED BY <1>4, <3>2, <4>1
    <3>4. CASE x > i
      <4>1. x - 1 \in 1..(Len(q) - 1) /\ ~(x - 1 < i) /\ x = (x - 1) + 1
        BY <1>2, <1>3, <3>4
      <4>2. w[x - 1] = q[x]
        BY <1>4, <4>1
      <4>3. QED BY <1>4, <3>2, <4>1, <4>2
    <3>5. QED BY <1>2, <1>3, <3>1, <3>2, <3>3, <3>4
  <2>3. ASSUME NEW x \in DOMAIN w
        PROVE  w[x] \in Reads /\ slots1[w[x]] = "queued"
    <3>1. PICK y \in 1..Len(q) : w[x] = q[y] /\ y # i
      <4>1. x \in Int /\ 1 <= x /\ x <= Len(q) - 1
        BY <1>3, <1>4
      <4>2. QED BY <1>2, <1>3, <1>4, <4>1
    <3>2. q[y] \in Reads /\ slots[q[y]] = "queued" /\ q[y] # q[i]
      <4>1. y \in DOMAIN q /\ i \in DOMAIN q /\ q[y] \in Reads
        BY <1>2, <1>3
      <4>2. q[y] # q[i]
        BY <1>q, <3>1, <4>1
      <4>3. QED BY <1>q, <4>1, <4>2
    <3>3. QED BY <1>1, <3>1, <3>2
  <2>4. \A r \in p : slots1[r] = "queued"
    BY <1>1, <1>q
  <2>5. QED BY <2>1, <2>2, <2>3, <2>4 DEF Queued
<1>7. QED BY <1>6 DEF w, p, slots1

\* The queue w has the waiters of q but the i-th, in their order, and ahead of each
\* the same background reads but that one.
OrderKept(q, prio, i, w, p) ==
  \A j \in DOMAIN w :
    LET k == IF j < i THEN j ELSE j + 1
    IN  /\ k \in 1..Len(q) /\ k # i /\ w[j] = q[k]
        /\ BackgroundBefore(w, p, j) = BackgroundBefore(q, prio, k) \ {q[i]}

\* The waiters that stay keep their order.
LEMMA KeepsOrder ==
  ASSUME NEW q \in Seq(Reads), NEW prio \in SUBSET Reads,
         NEW slots \in [Reads -> {"none", "queued", "granted"}],
         Queued(q, prio, slots), NEW i \in 1..Len(q)
  PROVE  OrderKept(q, prio, i, RemoveAt(q, i), prio \ {q[i]})
<1> DEFINE w == RemoveAt(q, i)
           p == prio \ {q[i]}
<1>q. \A x, y \in DOMAIN q : q[x] = q[y] => x = y
  BY DEF Queued
<1>1. p = prio \ {q[i]}
  OBVIOUS
<1>3. /\ Len(q) \in Nat /\ DOMAIN q = 1..Len(q)
      /\ \A j \in 1..Len(q) : q[j] \in Reads
  BY LenProperties, ElementOfSeq
<1>2. i \in 1..Len(q) /\ i \in Int
  BY <1>3
<1>4. /\ w \in Seq(Reads) /\ Len(w) = Len(q) - 1 /\ DOMAIN w = 1..(Len(q) - 1)
      /\ \A j \in 1..(Len(q) - 1) : w[j] = IF j < i THEN q[j] ELSE q[j + 1]
  <2>1. /\ w \in Seq(Reads) /\ Len(w) = Len(q) - 1
        /\ \A j \in 1..(Len(q) - 1) : w[j] = IF j < i THEN q[j] ELSE q[j + 1]
    BY RemoveAtProperties
  <2> HIDE DEF w
  <2>2. QED BY <2>1, LenProperties
<1> HIDE DEF w, p
<1>7. ASSUME NEW j \in DOMAIN w
      PROVE  LET k == IF j < i THEN j ELSE j + 1
             IN  /\ k \in 1..Len(q) /\ k # i /\ w[j] = q[k]
                 /\ BackgroundBefore(w, p, j) = BackgroundBefore(q, prio, k) \ {q[i]}
  <2> DEFINE k == IF j < i THEN j ELSE j + 1
             old == BackgroundBefore(q, prio, k)
             new == BackgroundBefore(w, p, j)
  <2>1. k \in 1..Len(q) /\ w[j] = q[k] /\ k # i
    BY <1>2, <1>3, <1>4, <1>7
  <2>2. new = old \ {q[i]}
    <3>1. ASSUME NEW x \in new PROVE x \in old \ {q[i]}
      <4>1. /\ x \in Reads /\ x \notin p
            /\ \E o1 \in 1..(j - 1) : w[o1] = x
        BY <3>1 DEF BackgroundBefore
      <4>2. PICK o1 \in 1..(j - 1) : w[o1] = x
        BY <4>1
      <4>3. PICK o \in 1..(k - 1) : q[o] = x /\ o # i /\ o \in 1..Len(q)
        <5>1. o1 \in Int /\ 1 <= o1 /\ o1 <= j - 1 /\ j \in 1..(Len(q) - 1)
          BY <1>4, <1>7
        <5>2. CASE o1 < i
          <6>1. q[o1] = x /\ o1 \in 1..(k - 1) /\ o1 # i /\ o1 \in 1..Len(q)
            BY <1>2, <1>3, <1>4, <4>2, <5>1, <5>2
          <6>2. QED BY <6>1
        <5>3. CASE o1 >= i
          <6>1. q[o1 + 1] = x /\ o1 + 1 \in 1..(k - 1) /\ o1 + 1 # i
                 /\ o1 + 1 \in 1..Len(q)
            BY <1>2, <1>3, <1>4, <4>2, <5>1, <5>3
          <6>2. QED BY <6>1
        <5>4. QED BY <1>2, <5>1, <5>2, <5>3
      <4>4. x # q[i]
        BY <1>2, <1>3, <1>q, <4>3
      <4>5. x \notin prio
        BY <1>1, <4>1, <4>4
      <4>6. QED BY <4>1, <4>3, <4>4, <4>5 DEF BackgroundBefore
    <3>2. ASSUME NEW x \in old \ {q[i]} PROVE x \in new
      <4>1. /\ x \in Reads /\ x \notin prio
            /\ \E o \in 1..(k - 1) : q[o] = x
        BY <3>2 DEF BackgroundBefore
      <4>2. PICK o \in 1..(k - 1) : q[o] = x
        BY <4>1
      <4>3. o # i /\ o \in 1..Len(q)
        BY <1>2, <1>3, <2>1, <3>2, <4>2
      <4>. o \in Int /\ 1 <= o /\ o <= k - 1 /\ j \in 1..(Len(q) - 1) /\ i \in Int
        BY <1>2, <1>3, <1>4, <1>7, <2>1
      <4>4. \E o1 \in 1..(j - 1) : w[o1] = x
        <5>1. CASE o < i
          <6>1. o \in 1..(j - 1) /\ w[o] = q[o]
            BY <1>4, <4>3, <5>1
          <6>2. QED BY <4>2, <6>1
        <5>2. CASE o > i
          <6>1. o - 1 \in 1..(j - 1) /\ o - 1 >= i /\ o - 1 \in 1..(Len(q) - 1)
            BY <1>2, <1>3, <4>3, <5>2
          <6>2. w[o - 1] = q[o]
            BY <1>4, <6>1
          <6>3. QED BY <4>2, <6>1, <6>2
        <5>3. QED BY <1>2, <1>3, <4>3, <5>1, <5>2
      <4>5. QED BY <1>1, <4>1, <4>4 DEF BackgroundBefore
    <3>3. QED BY <3>1, <3>2
  <2>3. QED BY <2>1, <2>2
<1>8. QED BY <1>7 DEF OrderKept, w, p

-----------------------------------------------------------------------------
(* drain()                                                                 *)

\* What drain() is entered with: the waiters q, the n counted slots, and at most
\* one free slot unless one read waits.
Enters(q, prio, n, slots, before, passed) ==
  /\ q \in Seq(Reads) /\ prio \subseteq Reads /\ n \in Nat
  /\ slots \in [Reads -> {"none", "queued", "granted"}]
  /\ before \in [Reads -> Nat] /\ passed \in [Reads -> Nat]
  /\ Queued(q, prio, slots) /\ Counted(n, slots) /\ n <= Limit
  /\ n >= Limit - 1 \/ Len(q) <= 1
  /\ Paced(q, prio, streak, slots, before, passed)

\* One more time the limit.
LEMMA OnceMore ==
  ASSUME NEW l \in Int, NEW x \in Int
  PROVE  l * (x + 1) = l * x + l
OBVIOUS

\* More times the limit.
LEMMA MoreTimes ==
  ASSUME NEW l \in Nat, NEW x \in Int, NEW y \in Int, x <= y
  PROVE  l * x <= l * y
<1>1. l * (y - x) >= 0 /\ l * (y - x) = l * y - l * x
  OBVIOUS
<1>2. QED BY <1>1

\* The next waiter is granted: the history stays paced.
LEMMA GrantIsPaced ==
  ASSUME streak \in 0..Limit, NEW q, NEW prio, NEW n, NEW slots, NEW before,
         NEW passed, Enters(q, prio, n, slots, before, passed),
         n < Limit, q # <<>>, Drains(q, prio, n, slots, before, passed)
  PROVE  Paced(waiters', priority', streak', slot', ahead', overtaken')
<1> DEFINE i == NextIndex(q, prio, streak)
<1>0. /\ q \in Seq(Reads) /\ before \in [Reads -> Nat] /\ passed \in [Reads -> Nat]
      /\ slots \in [Reads -> {"none", "queued", "granted"}]
      /\ Limit \in Nat \ {0} /\ IsFiniteSet(Reads) /\ streak \in 0..Limit
      /\ n \in Nat
  BY LimitAssumption DEF LimitAssumption, Enters
<1>q. /\ \A x, y \in DOMAIN q : q[x] = q[y] => x = y
      /\ \A r \in Reads : slots[r] = "queued" <=> \E x \in DOMAIN q : q[x] = r
  BY DEF Enters, Queued
<1>1. /\ waiters' = RemoveAt(q, i) /\ priority' = prio \ {q[i]}
      /\ slot' = [slots EXCEPT ![q[i]] = "granted"]
      /\ streak' = IF q[i] \notin prio THEN 0
                   ELSE IF streak < Limit THEN streak + 1 ELSE streak
      /\ ahead' = [before EXCEPT ![q[i]] = 0]
      /\ overtaken' = [r \in Reads |->
           IF r = q[i] THEN 0
           ELSE passed[r] + IF \E j \in 1..(i - 1) : q[j] = r THEN 1 ELSE 0]
  BY <1>0 DEF Drains
<1>2. /\ i \in 1..Len(q)
      /\ i # 1 => /\ q[i] \in prio /\ streak < Limit
                  /\ \A j \in 1..(i - 1) : q[j] \notin prio
  BY <1>0, NextIndexProperties
<1> HIDE DEF i
<1>3. /\ Len(q) \in Nat /\ DOMAIN q = 1..Len(q)
      /\ \A j \in 1..Len(q) : q[j] \in Reads
  BY <1>0, LenProperties, ElementOfSeq
<1>7. /\ DOMAIN waiters' = 1..(Len(q) - 1)
      /\ \A j \in DOMAIN waiters' :
           LET k == IF j < i THEN j ELSE j + 1
           IN  /\ k \in 1..Len(q) /\ k # i /\ waiters'[j] = q[k]
               /\ BackgroundBefore(waiters', priority', j)
                    = BackgroundBefore(q, prio, k) \ {q[i]}
  <2>1. DOMAIN RemoveAt(q, i) = 1..(Len(q) - 1)
    BY <1>0, <1>2, RemoveAtProperties, LenProperties
  <2>2. prio \in SUBSET Reads /\ Queued(q, prio, slots)
    BY DEF Enters
  <2>3. OrderKept(q, prio, i, RemoveAt(q, i), prio \ {q[i]})
    BY <1>0, <1>2, <2>2, KeepsOrder
  <2>4. QED BY <1>1, <2>1, <2>3 DEF OrderKept
<1>5. ASSUME NEW r \in Reads, slot'[r] # "queued" \/ r \in priority'
      PROVE  overtaken'[r] = 0
  <2>1. CASE r = q[i]
    BY <1>1, <1>5, <2>1
  <2>2. CASE r # q[i]
    <3>1. slots[r] # "queued" \/ r \in prio
      BY <1>0, <1>1, <1>2, <1>3, <1>5, <2>2
    <3>2. ASSUME NEW j \in 1..(i - 1), q[j] = r PROVE FALSE
      <4>1. i # 1 /\ j \in DOMAIN q
        BY <1>2, <1>3, <3>2
      <4>2. slots[r] = "queued"
        BY <1>q, <1>5, <3>2, <4>1
      <4>3. QED BY <1>2, <3>1, <3>2, <4>1, <4>2
    <3>3. passed[r] = 0
      BY <1>5, <3>1 DEF Enters, Paced
    <3>4. QED BY <1>1, <1>5, <2>2, <3>2, <3>3
  <2>3. QED BY <2>1, <2>2
<1>6. ASSUME NEW j \in DOMAIN waiters', waiters'[j] \notin priority'
      PROVE  LET m == Cardinality(BackgroundBefore(waiters', priority', j))
             IN  /\ m <= ahead'[waiters'[j]]
                 /\ overtaken'[waiters'[j]]
                      <= Limit * (ahead'[waiters'[j]] - m) + streak'
  <2> DEFINE k == IF j < i THEN j ELSE j + 1
             r == q[k]
             old == BackgroundBefore(q, prio, k)
             new == BackgroundBefore(waiters', priority', j)
           Within(m) == /\ m <= before[r]
                        /\ overtaken'[r] <= Limit * (before[r] - m) + streak'
  <2>1. k \in 1..Len(q) /\ waiters'[j] = r /\ k # i
    BY <1>7
  <2>2. r \in Reads /\ r # q[i] /\ r \notin prio
    BY <1>1, <1>2, <1>3, <1>6, <1>q, <2>1
  <2>3. new = old \ {q[i]}
    BY <1>7
  <2>4. IsFiniteSet(old) /\ Cardinality(old) \in Nat
    <3>1. old \in SUBSET Reads
      BY DEF BackgroundBefore
    <3>2. QED BY <1>0, <3>1, FS_Subset, FS_CardinalityType
  <2>5. Cardinality(new) = IF q[i] \in old THEN Cardinality(old) - 1
                           ELSE Cardinality(old)
    <3>1. Cardinality(old \ {q[i]}) = IF q[i] \in old THEN Cardinality(old) - 1
                                      ELSE Cardinality(old)
      BY <2>4, FS_RemoveElement
    <3>2. QED BY <2>3, <3>1
  <2>6. /\ Cardinality(old) <= before[r]
        /\ passed[r] <= Limit * (before[r] - Cardinality(old)) + streak
    BY <1>3, <2>1, <2>2 DEF Enters, Paced
  <2>7. before[r] \in Nat /\ passed[r] \in Nat /\ ahead'[r] = before[r]
    BY <1>0, <1>1, <2>2
  <2> HIDE DEF k, r, old, new
  <2>8. ASSUME k < i PROVE Within(Cardinality(new))
    <3>1. /\ q[i] \in prio /\ streak' = streak + 1
      BY <1>0, <1>1, <1>2, <1>3, <2>1, <2>8
    <3>2. q[i] \notin old
      BY <3>1 DEF old, BackgroundBefore
    <3>3. overtaken'[r] = passed[r] + 1
      BY <1>1, <1>2, <2>1, <2>2, <2>8 DEF r
    <3>4. QED
      <4>1. Limit * (before[r] - Cardinality(old)) \in Int
        BY <1>0, <2>4, <2>7
      <4>2. Within(Cardinality(old))
        <5> DEFINE used == Limit * (before[r] - Cardinality(old))
        <5>1. used \in Int /\ passed[r] <= used + streak
          BY <2>6, <4>1
        <5> HIDE DEF used
        <5>2. overtaken'[r] <= used + streak'
          BY <1>0, <2>7, <3>1, <3>3, <5>1
        <5>3. QED BY <2>6, <5>2 DEF used
      <4>3. QED BY <2>5, <3>2, <4>2
  <2>9. ASSUME k > i PROVE Within(Cardinality(new))
    <3>1. overtaken'[r] = passed[r]
      <4>1. \A o \in 1..(i - 1) : q[o] # r
        BY <1>2, <1>3, <1>q, <2>1, <2>9 DEF r
      <4>2. QED BY <1>1, <2>2, <2>7, <4>1
    <3>2. CASE q[i] \in prio
      <4>1. q[i] \notin old
        BY <3>2 DEF old, BackgroundBefore
      <4>2. streak' \in Nat /\ streak' >= streak
        BY <1>0, <1>1, <3>2
      <4>3. Cardinality(new) = Cardinality(old)
        BY <2>5, <4>1
      <4>4. passed[r] <= Limit * (before[r] - Cardinality(old)) + streak'
        <5> DEFINE used == Limit * (before[r] - Cardinality(old))
        <5>1. used \in Int
          BY <1>0, <2>4, <2>7
        <5>2. passed[r] <= used + streak
          BY <2>6
        <5> HIDE DEF used
        <5>3. passed[r] <= used + streak'
          BY <1>0, <2>7, <4>2, <5>1, <5>2
        <5>4. QED BY <5>3 DEF used
      <4>5. QED BY <2>6, <3>1, <4>3, <4>4
    <3>3. CASE q[i] \notin prio
      <4>1. q[i] \in old
        BY <1>2, <1>3, <2>1, <2>9, <3>3 DEF old, BackgroundBefore
      <4>2. streak' = 0 /\ Cardinality(new) = Cardinality(old) - 1
        BY <1>1, <2>5, <3>3, <4>1
      <4>3. Limit * (before[r] - (Cardinality(old) - 1))
              = Limit * (before[r] - Cardinality(old)) + Limit
        <5>1. before[r] - (Cardinality(old) - 1)
                = (before[r] - Cardinality(old)) + 1
          BY <2>4, <2>7
        <5>2. QED BY <1>0, <2>4, <2>7, <5>1, OnceMore
      <4>4. Limit * (before[r] - Cardinality(old)) \in Int
        BY <1>0, <2>4, <2>7
      <4>5. passed[r] <= Limit * (before[r] - Cardinality(old)) + Limit
        <5> DEFINE used == Limit * (before[r] - Cardinality(old))
        <5>1. used \in Int /\ passed[r] <= used + streak
          BY <2>6, <4>4
        <5> HIDE DEF used
        <5>2. passed[r] <= used + Limit
          BY <1>0, <2>7, <5>1
        <5>3. QED BY <5>2 DEF used
      <4>6. passed[r] <= Limit * (before[r] - (Cardinality(old) - 1))
        BY <4>3, <4>5
      <4>7. Cardinality(old) - 1 <= before[r]
        BY <2>4, <2>6, <2>7
      <4>8. Limit * (before[r] - (Cardinality(old) - 1)) + 0
              = Limit * (before[r] - (Cardinality(old) - 1))
        BY <1>0, <4>3, <4>4
      <4>9. QED BY <3>1, <4>2, <4>6, <4>7, <4>8
    <3>4. QED BY <3>2, <3>3
  <2>10. Within(Cardinality(new))
    BY <1>2, <2>1, <2>8, <2>9
  <2>11. QED BY <2>1, <2>7, <2>10 DEF new
<1>8. QED BY <1>5, <1>6 DEF Paced

\* The next waiter is granted: the queue and the count are exact again, and no
\* slot is free while reads wait.
LEMMA GrantKeepsQueue ==
  ASSUME streak \in 0..Limit, NEW q, NEW prio, NEW n, NEW slots, NEW before,
         NEW passed, Enters(q, prio, n, slots, before, passed),
         n < Limit, q # <<>>, Drains(q, prio, n, slots, before, passed)
  PROVE  /\ ReadsTypeOK'
         /\ Queued(waiters', priority', slot')
         /\ Counted(active', slot') /\ active' <= Limit
         /\ waiters' # <<>> => active' = Limit
<1> DEFINE i == NextIndex(q, prio, streak)
<1>0. /\ q \in Seq(Reads) /\ before \in [Reads -> Nat] /\ passed \in [Reads -> Nat]
      /\ slots \in [Reads -> {"none", "queued", "granted"}]
      /\ Limit \in Nat \ {0} /\ IsFiniteSet(Reads) /\ streak \in 0..Limit
      /\ n \in Nat /\ prio \subseteq Reads
      /\ n >= Limit - 1 \/ Len(q) <= 1
  BY LimitAssumption DEF LimitAssumption, Enters
<1>q. /\ \A x, y \in DOMAIN q : q[x] = q[y] => x = y
      /\ \A r \in Reads : slots[r] = "queued" <=> \E x \in DOMAIN q : q[x] = r
      /\ \A r \in prio : slots[r] = "queued"
  BY DEF Enters, Queued
<1>1. /\ waiters' = RemoveAt(q, i) /\ priority' = prio \ {q[i]}
      /\ active' = n + 1 /\ slot' = [slots EXCEPT ![q[i]] = "granted"]
      /\ streak' = IF q[i] \notin prio THEN 0
                   ELSE IF streak < Limit THEN streak + 1 ELSE streak
      /\ ahead' = [before EXCEPT ![q[i]] = 0]
      /\ overtaken' = [r \in Reads |->
           IF r = q[i] THEN 0
           ELSE passed[r] + IF \E j \in 1..(i - 1) : q[j] = r THEN 1 ELSE 0]
  BY <1>0 DEF Drains
<1>2. i \in 1..Len(q)
  BY <1>0, NextIndexProperties
<1> HIDE DEF i
<1>3. /\ Len(q) \in Nat /\ DOMAIN q = 1..Len(q)
      /\ \A j \in 1..Len(q) : q[j] \in Reads
  BY <1>0, LenProperties, ElementOfSeq
<1>4. waiters' \in Seq(Reads) /\ Len(waiters') = Len(q) - 1
  BY <1>0, <1>1, <1>2, RemoveAtProperties
<1>5. slots[q[i]] = "queued" /\ q[i] \in Reads
  BY <1>2, <1>3, <1>q
<1>6. ReadsTypeOK'
  BY <1>0, <1>1, <1>4, <1>5 DEF ReadsTypeOK
<1>7. Queued(waiters', priority', slot')
  BY <1>0, <1>1, <1>2, LeavesQueue DEF Enters
<1>8. Counted(active', slot')
  <2> DEFINE old == {r \in Reads : slots[r] = "granted"}
             new == {r \in Reads : slot'[r] = "granted"}
  <2>1. new = old \cup {q[i]} /\ q[i] \notin old
    BY <1>0, <1>1, <1>5
  <2>2. IsFiniteSet(old)
    <3>1. old \in SUBSET Reads
      OBVIOUS
    <3>2. QED BY <1>0, <3>1, FS_Subset
  <2>3. n = Cardinality(old)
    BY DEF Enters, Counted
  <2>4. Cardinality(old \cup {q[i]}) = Cardinality(old) + 1
    BY <2>1, <2>2, FS_AddElement
  <2>5. QED BY <1>1, <2>1, <2>3, <2>4 DEF Counted
<1>9. active' <= Limit
  BY <1>0, <1>1
<1>10. waiters' # <<>> => active' = Limit
  <2>1. waiters' # <<>> => Len(waiters') \in Nat \ {0}
    BY <1>4, EmptySeq
  <2>2. QED BY <1>0, <1>1, <1>3, <1>4, <2>1
<1>11. QED BY <1>6, <1>7, <1>8, <1>9, <1>10

\* A call of drain() leaves the scheduler as it has to be, whatever it grants.
LEMMA DrainsKeeps ==
  ASSUME streak \in 0..Limit, NEW q, NEW prio, NEW n, NEW slots, NEW before,
         NEW passed, Enters(q, prio, n, slots, before, passed),
         Drains(q, prio, n, slots, before, passed)
  PROVE  ReadsInv'
<1>0. n \in Nat /\ Limit \in Nat /\ n <= Limit
  BY LimitAssumption DEF LimitAssumption, Enters
<1>1. CASE n >= Limit \/ q = <<>>
  <2>1. /\ waiters' = q /\ priority' = prio /\ active' = n /\ slot' = slots
        /\ ahead' = before /\ overtaken' = passed /\ streak' = streak
    BY <1>1 DEF Drains
  <2>2. ReadsTypeOK'
    BY <2>1 DEF ReadsTypeOK, Enters
  <2>3. Scheduled'
    BY <1>0, <1>1, <2>1 DEF Scheduled, Enters
  <2>4. QED BY <2>2, <2>3 DEF ReadsInv
<1>2. CASE n < Limit /\ q # <<>>
  BY <1>2, GrantKeepsQueue, GrantIsPaced DEF ReadsInv, Scheduled
<1>3. QED BY <1>0, <1>1, <1>2

-----------------------------------------------------------------------------
(* The operations.                                                         *)

\* The scheduler starts idle.
LEMMA ReadsStart == ReadsInit => ReadsInv
<1> SUFFICES ASSUME ReadsInit PROVE ReadsInv
  OBVIOUS
<1> USE LimitAssumption DEF LimitAssumption, ReadsInit
<1>1. ReadsTypeOK
  BY DEF ReadsTypeOK
<1>2. Queued(waiters, priority, slot)
  BY DEF Queued
<1>3. Counted(active, slot)
  <2>1. {r \in Reads : slot[r] = "granted"} = {}
    OBVIOUS
  <2>2. QED BY <2>1, FS_EmptySet DEF Counted
<1>4. Paced(waiters, priority, streak, slot, ahead, overtaken)
  BY DEF Paced
<1>5. QED BY <1>1, <1>2, <1>3, <1>4 DEF ReadsInv, Scheduled

\* acquire() enters drain() with its read at the end of the queue, behind every
\* background read there is.
LEMMA AcquireEnters ==
  ASSUME ReadsInv, NEW r \in Reads, NEW p \in BOOLEAN, slot[r] = "none"
  PROVE  Enters(Append(waiters, r), IF p THEN priority \cup {r} ELSE priority,
                active, [slot EXCEPT ![r] = "queued"],
                [ahead EXCEPT ![r] = Cardinality(Background)], overtaken)
<1> DEFINE q == Append(waiters, r)
           prio == IF p THEN priority \cup {r} ELSE priority
           slots == [slot EXCEPT ![r] = "queued"]
           before == [ahead EXCEPT ![r] = Cardinality(Background)]
<1>0. /\ ReadsTypeOK /\ Limit \in Nat \ {0} /\ IsFiniteSet(Reads)
      /\ active <= Limit /\ (waiters # <<>> => active = Limit)
      /\ Queued(waiters, priority, slot) /\ Counted(active, slot)
      /\ Paced(waiters, priority, streak, slot, ahead, overtaken)
  BY LimitAssumption DEF LimitAssumption, ReadsInv, Scheduled
<1>1. /\ Len(waiters) \in Nat /\ DOMAIN waiters = 1..Len(waiters)
      /\ \A j \in 1..Len(waiters) : waiters[j] \in Reads
  BY <1>0, LenProperties, ElementOfSeq DEF ReadsTypeOK
<1>2. /\ q \in Seq(Reads) /\ Len(q) = Len(waiters) + 1
      /\ DOMAIN q = 1..(Len(waiters) + 1)
      /\ \A j \in 1..Len(waiters) : q[j] = waiters[j]
      /\ q[Len(waiters) + 1] = r
  <2>1. waiters \in Seq(Reads)
    BY <1>0 DEF ReadsTypeOK
  <2>2. QED BY <2>1, AppendProperties, LenProperties
<1>3. /\ \A x, y \in DOMAIN waiters : waiters[x] = waiters[y] => x = y
      /\ \A b \in Reads : slot[b] = "queued" <=> \E x \in DOMAIN waiters : waiters[x] = b
      /\ \A b \in priority : slot[b] = "queued"
  BY <1>0 DEF Queued
<1>4. \A j \in 1..Len(waiters) : waiters[j] # r
  BY <1>1, <1>3
<1>5. r \notin priority
  BY <1>3
<1>6. IsFiniteSet(Background) /\ Cardinality(Background) \in Nat
  <2>1. Background \in SUBSET Reads
    BY DEF Background
  <2>2. QED BY <1>0, <2>1, FS_Subset, FS_CardinalityType
<1>7. /\ prio \subseteq Reads /\ slots \in [Reads -> {"none", "queued", "granted"}]
      /\ before \in [Reads -> Nat] /\ overtaken \in [Reads -> Nat] /\ active \in Nat
  BY <1>0, <1>6 DEF ReadsTypeOK
<1> HIDE DEF q
<1>8. Queued(q, prio, slots)
  <2>1. \A x, y \in DOMAIN q : q[x] = q[y] => x = y
    BY <1>1, <1>2, <1>3, <1>4
  <2>2. ASSUME NEW b \in Reads
        PROVE  slots[b] = "queued" <=> \E x \in DOMAIN q : q[x] = b
    <3>1. CASE b = r
      <4>1. Len(waiters) + 1 \in DOMAIN q
        BY <1>1, <1>2
      <4>2. QED BY <1>0, <1>2, <3>1, <4>1 DEF ReadsTypeOK
    <3>2. CASE b # r
      <4>1. slots[b] = slot[b]
        BY <1>0, <3>2 DEF ReadsTypeOK
      <4>2. (\E x \in DOMAIN q : q[x] = b) <=> \E x \in DOMAIN waiters : waiters[x] = b
        <5>1. ASSUME NEW x \in DOMAIN q, q[x] = b
              PROVE  x \in DOMAIN waiters /\ waiters[x] = b
          BY <1>1, <1>2, <3>2, <5>1
        <5>2. ASSUME NEW x \in DOMAIN waiters, waiters[x] = b
              PROVE  x \in DOMAIN q /\ q[x] = b
          BY <1>1, <1>2, <5>2
        <5>3. QED BY <5>1, <5>2
      <4>3. QED BY <1>3, <4>1, <4>2
    <3>3. QED BY <3>1, <3>2
  <2>3. \A b \in prio : slots[b] = "queued"
    BY <1>0, <1>3 DEF ReadsTypeOK
  <2>4. QED BY <2>1, <2>2, <2>3 DEF Queued
<1>9. Counted(active, slots)
  <2>1. {b \in Reads : slots[b] = "granted"} = {b \in Reads : slot[b] = "granted"}
    BY <1>0 DEF ReadsTypeOK
  <2>2. QED BY <1>0, <2>1 DEF Counted
<1>10. active >= Limit - 1 \/ Len(q) <= 1
  <2>1. waiters = <<>> => Len(waiters) = 0
    BY EmptySeq
  <2>2. QED BY <1>0, <1>2, <1>7, <2>1
<1>11. Paced(q, prio, streak, slots, before, overtaken)
  <2>1. ASSUME NEW b \in Reads, slots[b] # "queued" \/ b \in prio
        PROVE  overtaken[b] = 0
    <3>1. slot[b] # "queued" \/ b \in priority
      BY <1>0, <2>1 DEF ReadsTypeOK
    <3>2. QED BY <1>0, <3>1 DEF Paced
  <2>2. ASSUME NEW j \in DOMAIN q, q[j] \notin prio
        PROVE  LET m == Cardinality(BackgroundBefore(q, prio, j))
               IN  /\ m <= before[q[j]]
                   /\ overtaken[q[j]] <= Limit * (before[q[j]] - m) + streak
    <3>0. j \in 1..(Len(waiters) + 1) /\ j \in Int
      BY <1>1, <1>2
    <3>1. CASE j = Len(waiters) + 1
      <4>1. q[j] = r /\ before[r] = Cardinality(Background) /\ overtaken[r] = 0
        BY <1>0, <1>2, <3>1 DEF Paced, ReadsTypeOK
      <4>2. prio = priority
        BY <2>2, <4>1
      <4>3. BackgroundBefore(q, prio, j) = Background
        <5>1. \A b : (\E x \in 1..(j - 1) : q[x] = b)
                       <=> \E x \in DOMAIN waiters : waiters[x] = b
          BY <1>1, <1>2, <3>1
        <5>2. QED BY <1>3, <4>2, <5>1 DEF BackgroundBefore, Background
      <4>4. Limit * (Cardinality(Background) - Cardinality(Background)) = 0
        BY <1>0, <1>6
      <4>5. streak \in Nat
        BY <1>0 DEF ReadsTypeOK
      <4>6. QED BY <1>6, <4>1, <4>3, <4>4, <4>5
    <3>2. CASE j # Len(waiters) + 1
      <4>1. j \in DOMAIN waiters /\ q[j] = waiters[j] /\ q[j] # r
        BY <1>1, <1>2, <1>4, <3>0, <3>2
      <4>2. before[q[j]] = ahead[q[j]] /\ q[j] \notin priority
        BY <1>0, <1>1, <2>2, <4>1 DEF ReadsTypeOK
      <4>3. BackgroundBefore(q, prio, j) = BackgroundBefore(waiters, priority, j)
        <5>1. \A x \in 1..(j - 1) : q[x] = waiters[x] /\ q[x] # r
          BY <1>1, <1>2, <1>4, <3>0, <4>1
        <5>2. \A b : b # r => (b \in prio <=> b \in priority)
          OBVIOUS
        <5>3. QED BY <5>1, <5>2 DEF BackgroundBefore
      <4>4. LET m == Cardinality(BackgroundBefore(waiters, priority, j))
            IN  /\ m <= ahead[waiters[j]]
                /\ overtaken[waiters[j]] <= Limit * (ahead[waiters[j]] - m) + streak
        BY <1>0, <4>1, <4>2 DEF Paced
      <4>5. QED BY <4>1, <4>2, <4>3, <4>4
    <3>3. QED BY <3>1, <3>2
  <2>3. QED BY <2>1, <2>2 DEF Paced
<1> HIDE DEF prio, slots, before
<1>12. Enters(q, prio, active, slots, before, overtaken)
  BY <1>0, <1>2, <1>7, <1>8, <1>9, <1>10, <1>11 DEF Enters
<1>13. QED BY <1>12 DEF q, prio, slots, before

\* release() of a granted slot enters drain() with the slot free.
LEMMA ReleaseEnters ==
  ASSUME ReadsInv, NEW r \in Reads, slot[r] = "granted"
  PROVE  Enters(waiters, priority, active - 1, [slot EXCEPT ![r] = "none"], ahead,
                overtaken)
<1> DEFINE slots == [slot EXCEPT ![r] = "none"]
           held == {b \in Reads : slot[b] = "granted"}
<1>0. /\ ReadsTypeOK /\ Limit \in Nat \ {0} /\ IsFiniteSet(Reads)
      /\ active <= Limit /\ (waiters # <<>> => active = Limit)
      /\ Queued(waiters, priority, slot) /\ Counted(active, slot)
      /\ Paced(waiters, priority, streak, slot, ahead, overtaken)
  BY LimitAssumption DEF LimitAssumption, ReadsInv, Scheduled
<1>1. \A b \in Reads : slots[b] = "queued" <=> slot[b] = "queued"
  BY <1>0 DEF ReadsTypeOK
<1>2. Queued(waiters, priority, slots)
  BY <1>0, <1>1 DEF Queued, ReadsTypeOK
<1>3. Paced(waiters, priority, streak, slots, ahead, overtaken)
  BY <1>0, <1>1 DEF Paced
<1>4. Counted(active - 1, slots) /\ active - 1 \in Nat
  <2>1. IsFiniteSet(held) /\ Cardinality(held) \in Nat
    <3>1. held \in SUBSET Reads
      OBVIOUS
    <3>2. QED BY <1>0, <3>1, FS_Subset, FS_CardinalityType
  <2>2. r \in held /\ {b \in Reads : slots[b] = "granted"} = held \ {r}
    BY <1>0 DEF ReadsTypeOK
  <2>3. Cardinality(held \ {r}) = Cardinality(held) - 1
    BY <2>1, <2>2, FS_RemoveElement
  <2>4. IsFiniteSet(held \ {r}) /\ Cardinality(held \ {r}) \in Nat
    BY <2>1, FS_RemoveElement, FS_CardinalityType
  <2>5. active = Cardinality(held)
    BY <1>0 DEF Counted
  <2>6. QED BY <2>2, <2>3, <2>4, <2>5 DEF Counted
<1>5. active - 1 >= Limit - 1 \/ Len(waiters) <= 1
  <2>1. waiters = <<>> => Len(waiters) = 0
    BY EmptySeq
  <2>2. QED BY <1>0, <2>1
<1>6. slots \in [Reads -> {"none", "queued", "granted"}]
  BY <1>0 DEF ReadsTypeOK
<1> HIDE DEF slots, held
<1>7. Enters(waiters, priority, active - 1, slots, ahead, overtaken)
  BY <1>0, <1>2, <1>3, <1>4, <1>5, <1>6 DEF Enters, ReadsTypeOK
<1>8. QED BY <1>7 DEF slots

\* release() of a queued read leaves the slots alone, and whoever is behind it in
\* the queue is only closer to its turn.
LEMMA AbandonKeeps ==
  ASSUME ReadsInv, NEW r \in Reads, Abandon(r)
  PROVE  ReadsInv'
<1>0. /\ ReadsTypeOK /\ Limit \in Nat \ {0} /\ IsFiniteSet(Reads)
      /\ active <= Limit /\ (waiters # <<>> => active = Limit)
      /\ Queued(waiters, priority, slot) /\ Counted(active, slot)
      /\ Paced(waiters, priority, streak, slot, ahead, overtaken)
  BY LimitAssumption DEF LimitAssumption, ReadsInv, Scheduled
<1>t. /\ waiters \in Seq(Reads) /\ priority \in SUBSET Reads
      /\ slot \in [Reads -> {"none", "queued", "granted"}]
      /\ ahead \in [Reads -> Nat] /\ overtaken \in [Reads -> Nat]
      /\ streak \in 0..Limit
  BY <1>0 DEF ReadsTypeOK
<1>1. PICK i \in 1..Len(waiters) :
        waiters[i] = r /\ waiters' = RemoveAt(waiters, i)
  BY <1>t, LenProperties DEF Abandon
<1>2. /\ slot' = [slot EXCEPT ![r] = "none"] /\ priority' = priority \ {r}
      /\ ahead' = [ahead EXCEPT ![r] = 0] /\ overtaken' = [overtaken EXCEPT ![r] = 0]
      /\ active' = active /\ streak' = streak /\ slot[r] = "queued"
  BY DEF Abandon, Freed, ReadsInv, ReadsTypeOK
<1>3. /\ waiters' \in Seq(Reads) /\ Len(waiters) \in Nat
      /\ DOMAIN waiters = 1..Len(waiters)
      /\ \A j \in 1..Len(waiters) : waiters[j] \in Reads
      /\ Len(waiters') = Len(waiters) - 1 /\ DOMAIN waiters' = 1..(Len(waiters) - 1)
  <2>1. /\ RemoveAt(waiters, i) \in Seq(Reads)
        /\ Len(RemoveAt(waiters, i)) = Len(waiters) - 1
    BY <1>t, RemoveAtProperties
  <2>2. DOMAIN RemoveAt(waiters, i) = 1..(Len(waiters) - 1)
    BY <2>1, LenProperties
  <2>3. /\ Len(waiters) \in Nat /\ DOMAIN waiters = 1..Len(waiters)
        /\ \A j \in 1..Len(waiters) : waiters[j] \in Reads
    BY <1>t, LenProperties, ElementOfSeq
  <2>4. QED BY <1>1, <2>1, <2>2, <2>3
<1>4. Queued(waiters', priority', slot')
  BY <1>0, <1>t, <1>1, <1>2, LeavesQueue
<1>5. \A j \in DOMAIN waiters' :
        LET k == IF j < i THEN j ELSE j + 1
        IN  /\ k \in 1..Len(waiters) /\ k # i /\ waiters'[j] = waiters[k]
            /\ BackgroundBefore(waiters', priority', j)
                 = BackgroundBefore(waiters, priority, k) \ {r}
  <2>1. OrderKept(waiters, priority, i, RemoveAt(waiters, i), priority \ {waiters[i]})
    BY <1>0, <1>t, <1>1, KeepsOrder
  <2>2. QED BY <1>1, <1>2, <2>1 DEF OrderKept
<1>6. ReadsTypeOK'
  BY <1>0, <1>2, <1>3 DEF ReadsTypeOK
<1>7. Counted(active', slot') /\ active' <= Limit
  <2>1. {b \in Reads : slot'[b] = "granted"} = {b \in Reads : slot[b] = "granted"}
    BY <1>t, <1>2
  <2>2. QED BY <1>0, <1>2, <2>1 DEF Counted
<1>8. waiters' # <<>> => active' = Limit
  <2>1. waiters # <<>>
    BY <1>1, <1>3, EmptySeq
  <2>2. QED BY <1>0, <1>2, <2>1
<1>9. Paced(waiters', priority', streak', slot', ahead', overtaken')
  <2>1. ASSUME NEW b \in Reads, slot'[b] # "queued" \/ b \in priority'
        PROVE  overtaken'[b] = 0
    <3>1. CASE b = r
      BY <1>t, <1>2, <3>1
    <3>2. CASE b # r
      <4>1. slot[b] # "queued" \/ b \in priority
        BY <1>t, <1>2, <2>1, <3>2
      <4>2. overtaken'[b] = overtaken[b]
        BY <1>t, <1>2, <3>2
      <4>3. QED BY <1>0, <4>1, <4>2 DEF Paced
    <3>3. QED BY <3>1, <3>2
  <2>2. ASSUME NEW j \in DOMAIN waiters', waiters'[j] \notin priority'
        PROVE  LET m == Cardinality(BackgroundBefore(waiters', priority', j))
               IN  /\ m <= ahead'[waiters'[j]]
                   /\ overtaken'[waiters'[j]]
                        <= Limit * (ahead'[waiters'[j]] - m) + streak'
    <3> DEFINE k == IF j < i THEN j ELSE j + 1
               b == waiters[k]
               old == BackgroundBefore(waiters, priority, k)
    <3>1. /\ k \in 1..Len(waiters) /\ k # i /\ waiters'[j] = b
          /\ BackgroundBefore(waiters', priority', j) = old \ {r}
      BY <1>5
    <3> HIDE DEF k
    <3>2. b # r
      BY <1>0, <1>1, <1>3, <3>1 DEF Queued
    <3>3. b \in Reads /\ b \notin priority
      BY <1>2, <1>3, <2>2, <3>1, <3>2
    <3>4. /\ IsFiniteSet(old) /\ Cardinality(old) \in Nat
          /\ Cardinality(old \ {r}) \in Nat
          /\ Cardinality(old \ {r}) <= Cardinality(old)
      <4>1. old \in SUBSET Reads /\ old \ {r} \in SUBSET old
        BY DEF BackgroundBefore
      <4>2. QED BY <1>0, <4>1, FS_Subset, FS_CardinalityType
    <3>5. /\ Cardinality(old) <= ahead[b]
          /\ overtaken[b] <= Limit * (ahead[b] - Cardinality(old)) + streak
      BY <1>0, <1>3, <3>1, <3>3 DEF Paced
    <3>6. ahead'[b] = ahead[b] /\ overtaken'[b] = overtaken[b]
      BY <1>t, <1>2, <3>2, <3>3
    <3>7. ahead[b] \in Nat /\ overtaken[b] \in Nat /\ Limit \in Nat /\ streak \in Nat
      BY <1>0, <1>t, <3>3
    <3>m. streak' = streak
      BY <1>2
    <3> HIDE DEF b, old
    <3>8. Limit * (ahead[b] - Cardinality(old))
            <= Limit * (ahead[b] - Cardinality(old \ {r}))
      <4> DEFINE x == ahead[b] - Cardinality(old)
                 y == ahead[b] - Cardinality(old \ {r})
      <4>1. x \in Int /\ y \in Int /\ x <= y
        BY <3>4, <3>7
      <4> HIDE DEF x, y
      <4>2. Limit * x <= Limit * y
        BY <3>7, <4>1, MoreTimes
      <4>3. QED BY <4>2 DEF x, y
    <3>9. /\ Limit * (ahead[b] - Cardinality(old)) \in Int
          /\ Limit * (ahead[b] - Cardinality(old \ {r})) \in Int
      BY <3>4, <3>7
    <3>10. /\ Cardinality(old \ {r}) <= ahead[b]
           /\ overtaken[b] <= Limit * (ahead[b] - Cardinality(old \ {r})) + streak
      <4>1. Cardinality(old \ {r}) <= ahead[b]
        BY <3>4, <3>5, <3>7
      <4>2. ASSUME NEW x \in Int, NEW y \in Int, x <= y, overtaken[b] <= x + streak
            PROVE  overtaken[b] <= y + streak
        BY <3>7, <4>2
      <4>3. QED BY <3>5, <3>8, <3>9, <4>1, <4>2
    <3>11. QED BY <3>m, <3>1, <3>6, <3>10
  <2>3. QED BY <2>1, <2>2 DEF Paced
<1>10. QED BY <1>4, <1>6, <1>7, <1>8, <1>9 DEF ReadsInv, Scheduled

\* Every call of the scheduler, and every cancellation.
LEMMA ReadsStep == ReadsInv /\ [ReadsNext]_readVars => ReadsInv'
<1> SUFFICES ASSUME ReadsInv, [ReadsNext]_readVars PROVE ReadsInv'
  OBVIOUS
<1>0. streak \in 0..Limit
  BY DEF ReadsInv, ReadsTypeOK
<1>1. ASSUME NEW r \in Reads, NEW p \in BOOLEAN, Acquire(r, p) PROVE ReadsInv'
  BY <1>0, <1>1, AcquireEnters, DrainsKeeps DEF Acquire
<1>2. ASSUME NEW r \in Reads, Release(r) PROVE ReadsInv'
  <2>1. slot[r] = "granted" /\ Freed(r) = 1
    BY <1>2 DEF Release, Freed
  <2>2. QED BY <1>0, <1>2, <2>1, ReleaseEnters, DrainsKeeps DEF Release
<1>3. ASSUME NEW r \in Reads, Abandon(r) PROVE ReadsInv'
  BY <1>3, AbandonKeeps
<1>4. CASE UNCHANGED readVars
  BY <1>4 DEF readVars, ReadsInv, ReadsTypeOK, Scheduled
<1>6. ASSUME NEW r \in Reads, ReleaseAgain(r) PROVE ReadsInv'
  BY <1>4, <1>6 DEF ReleaseAgain, Freed, readVars, ReadsInv, ReadsTypeOK
<1>5. QED BY <1>1, <1>2, <1>3, <1>4, <1>6 DEF ReadsNext

-----------------------------------------------------------------------------
(* The theorems.                                                           *)

\* The scheduler is always as drain() leaves it.
THEOREM ReadsScheduled == ReadsSpec => []ReadsInv
<1>1. QED BY ReadsStart, ReadsStep, PTL DEF ReadsSpec

\* The scheduler's variables keep their types.
THEOREM ReadsTyped == ReadsSpec => []ReadsTypeOK
<1>1. ReadsInv => ReadsTypeOK
  BY DEF ReadsInv
<1>2. QED BY <1>1, ReadsScheduled, PTL

\* Never more than Limit reads are on the wire, and none waits while a slot is
\* free.
THEOREM SlotsExact == ReadsSpec => []SlotsAreExact
<1>1. ReadsInv => SlotsAreExact
  BY DEF ReadsInv, Scheduled, Counted, SlotsAreExact
<1>2. QED BY <1>1, ReadsScheduled, PTL

\* No read is overtaken for ever: the bound depends on the background reads it
\* found waiting and on nothing that comes later.
THEOREM OvertakingBounded == ReadsSpec => []BoundedOvertaking
<1>1. ASSUME ReadsInv, NEW r \in Reads, slot[r] = "queued"
      PROVE  overtaken[r] <= Limit * (ahead[r] + 1)
  <2>1. /\ Limit \in Nat /\ IsFiniteSet(Reads) /\ ahead[r] \in Nat
        /\ overtaken[r] \in Nat /\ streak \in Nat /\ streak <= Limit
    BY <1>1, LimitAssumption DEF LimitAssumption, ReadsInv, ReadsTypeOK
  <2>2. Limit * (ahead[r] + 1) = Limit * ahead[r] + Limit /\ Limit * ahead[r] \in Nat
    BY <2>1, OnceMore
  <2>3. CASE r \in priority
    <3>1. overtaken[r] = 0
      BY <1>1, <2>3 DEF ReadsInv, Scheduled, Paced
    <3>2. QED BY <2>1, <2>2, <3>1
  <2>4. CASE r \notin priority
    <3>1. PICK i \in DOMAIN waiters : waiters[i] = r
      BY <1>1 DEF ReadsInv, Scheduled, Queued
    <3> DEFINE n == Cardinality(BackgroundBefore(waiters, priority, i))
    <3>2. n \in Nat
      <4>1. BackgroundBefore(waiters, priority, i) \in SUBSET Reads
        BY DEF BackgroundBefore
      <4>2. QED BY <2>1, <4>1, FS_Subset, FS_CardinalityType
    <3>3. n <= ahead[r] /\ overtaken[r] <= Limit * (ahead[r] - n) + streak
      BY <1>1, <2>4, <3>1 DEF ReadsInv, Scheduled, Paced
    <3> HIDE DEF n
    <3>4. Limit * (ahead[r] - n) <= Limit * ahead[r]
      <4>1. ahead[r] - n \in Int /\ ahead[r] - n <= ahead[r]
        BY <2>1, <3>2
      <4>2. QED BY <2>1, <4>1, MoreTimes
    <3>5. Limit * (ahead[r] - n) \in Int
      BY <2>1, <3>2
    <3>6. QED
      <4> DEFINE used == Limit * (ahead[r] - n)
                 all == Limit * ahead[r]
      <4>1. /\ used \in Int /\ all \in Nat /\ used <= all
            /\ overtaken[r] <= used + streak /\ Limit * (ahead[r] + 1) = all + Limit
        BY <2>2, <3>3, <3>4, <3>5
      <4> HIDE DEF used, all
      <4>2. overtaken[r] <= all + Limit
        BY <2>1, <4>1
      <4>3. QED BY <4>1, <4>2
  <2>5. QED BY <2>3, <2>4
<1>2. ReadsInv => BoundedOvertaking
  BY <1>1 DEF BoundedOvertaking
<1>3. QED BY <1>2, ReadsScheduled, PTL

-----------------------------------------------------------------------------
(* Hydration: the inductive invariant.                                     *)

\* The request for a branch in its workspace's generation, and whether it is left
\* to the deferred worker.
Now(w, b) == Request(w, b, genOf[w])
Pending(w, b) == b \in deferred[w] /\ timer[w] = genOf[w]

\* Exactly one of four.
OneOf(p, q, r, s) ==
  /\ p \/ q \/ r \/ s
  /\ (p => ~q /\ ~r /\ ~s) /\ (q => ~r /\ ~s) /\ (r => ~s)

Placed(w, b) ==
  OneOf(Pending(w, b), Now(w, b) \in awaiting, Now(w, b) \in loads, Now(w, b) \in givenUp)

\* A mounted workspace has a generation, and a worker for what it defers; an
\* unmounted one has neither.
GenInv ==
  \A w \in Workspaces :
    IF w \in mounted THEN genOf[w] # 0 /\ (deferred[w] # {} => timer[w] = genOf[w])
                     ELSE genOf[w] = 0 /\ timer[w] = 0 /\ deferred[w] = {}

\* What is loaded belongs to the generations of now.
LoadsInv == \A x \in loads : x.ws \in mounted /\ x.gen = genOf[x.ws]

\* Only a mounted workspace waits for its path.
WaitsInv == \A x \in awaiting : x.ws \in mounted

PlacedInv == \A w \in mounted, b \in Branches : Placed(w, b)

HydInv == HydrationTypeOK /\ GenInv /\ LoadsInv /\ WaitsInv /\ PlacedInv

-----------------------------------------------------------------------------
(* Requests.                                                               *)

\* A request is its workspace, branch and generation.
LEMMA RequestFields ==
  ASSUME NEW w, NEW b, NEW g
  PROVE  /\ Request(w, b, g).ws = w /\ Request(w, b, g).branch = b /\ Request(w, b, g).gen = g
         /\ \A v, a, h : Request(w, b, g) = Request(v, a, h) <=> w = v /\ b = a /\ g = h
  BY DEF Request

\* The requests of a workspace's branches are typed, and are for these branches.
LEMMA RequestIsTyped ==
  ASSUME NEW w \in Workspaces, NEW n \in Nat, NEW g \in 1..n, NEW bs \in SUBSET Branches
  PROVE  /\ RequestsOf(w, bs, g) \subseteq [ws : Workspaces, branch : Branches, gen : 1..n]
         /\ \A b : Request(w, b, g) \in RequestsOf(w, bs, g) <=> b \in bs
         /\ \A x \in RequestsOf(w, bs, g) : x.ws = w /\ x.branch \in bs /\ x.gen = g
<1>1. \A b : Request(w, b, g) \in RequestsOf(w, bs, g) <=> b \in bs
  BY RequestFields DEF RequestsOf
<1>2. ASSUME NEW x \in RequestsOf(w, bs, g)
      PROVE  /\ x.ws = w /\ x.branch \in bs /\ x.gen = g
             /\ x \in [ws : Workspaces, branch : Branches, gen : 1..n]
  <2>1. PICK b \in bs : x = Request(w, b, g)
    BY <1>2 DEF RequestsOf
  <2>2. Request(w, b, g) \in [ws : Workspaces, branch : Branches, gen : 1..n]
    BY DEF Request
  <2>3. QED BY <2>1, <2>2, RequestFields
<1>3. QED BY <1>1, <1>2

\* A dispatch keeps the types, and the loads of now.
LEMMA DispatchTyped ==
  ASSUME NEW new, NEW waits, NEW done, NEW gone, Dispatches(new, waits, done, gone),
         NEW R, new \subseteq R, waits \subseteq R, done \subseteq R, gone \subseteq R
  PROVE  awaiting' \subseteq R /\ loads' \subseteq R /\ givenUp' \subseteq R
  BY DEF Dispatches

\* A dispatch of current requests loads for the generations of now.
LEMMA DispatchLoads ==
  ASSUME NEW new, NEW waits, NEW done, NEW gone, Dispatches(new, waits, done, gone),
         \A x \in new \cup done : x.ws \in mounted' /\ x.gen = genOf'[x.ws]
  PROVE  LoadsInv'
  BY DEF Dispatches, LoadsInv

\* A dispatch for mounted workspaces leaves only mounted ones waiting.
LEMMA DispatchWaits ==
  ASSUME NEW new, NEW waits, NEW done, NEW gone, Dispatches(new, waits, done, gone),
         \A x \in new \cup waits : x.ws \in mounted'
  PROVE  WaitsInv'
  BY DEF Dispatches, WaitsInv

\* The generations that begin have numbers not given out before.
LEMMA GenerationNumbers ==
  ASSUME NEW ws \in SUBSET Workspaces, lastGen \in Nat
  PROVE  /\ Cardinality(ws) \in Nat
         /\ \A g \in NewGenerations(ws) : \A w \in ws :
              g[w] \in 1..(lastGen + Cardinality(ws)) /\ g[w] > lastGen
<1>1. IsFiniteSet(ws)
  BY HydrationAssumption, FS_Subset DEF HydrationAssumption
<1>2. Cardinality(ws) \in Nat
  BY <1>1, FS_CardinalityType
<1>3. QED BY <1>2 DEF NewGenerations

-----------------------------------------------------------------------------
(* The steps.                                                              *)

\* The places of a workspace that a step leaves alone.
LEMMA Elsewhere ==
  ASSUME HydInv, NEW w \in mounted, NEW b \in Branches,
         genOf'[w] = genOf[w], deferred'[w] = deferred[w], timer'[w] = timer[w],
         Now(w, b) \in awaiting' <=> Now(w, b) \in awaiting,
         Now(w, b) \in loads' <=> Now(w, b) \in loads,
         Now(w, b) \in givenUp' <=> Now(w, b) \in givenUp
  PROVE  Placed(w, b)'
<1>1. Now(w, b)' = Now(w, b) /\ (Pending(w, b)' <=> Pending(w, b))
  BY DEF Now, Pending
<1>2. Placed(w, b)
  BY DEF HydInv, PlacedInv
<1>3. QED BY <1>1, <1>2 DEF Placed, OneOf

\* A generation that begins for the workspaces ws.
LEMMA StartsInv ==
  ASSUME HydInv, NEW ws \in SUBSET Workspaces, NEW waits \in SUBSET awaiting,
         Starts(ws, waits), mounted' = mounted \cup ws, resolved' = resolved,
         \A x \in awaiting \ waits : x.ws \in ws
  PROVE  HydInv'
<1> USE DEF HydInv, HydrationTypeOK
<1>0. lastGen \in 0..MaxGen /\ MaxGen \in Nat /\ Cardinality(ws) \in Nat
      /\ lastGen + Cardinality(ws) <= MaxGen /\ lastGen' = lastGen + Cardinality(ws)
  BY GenerationNumbers, HydrationAssumption DEF Starts, HydrationAssumption
<1>1. PICK g \in NewGenerations(ws), critical \in [ws -> Critical] :
        /\ genOf' = [w \in Workspaces |-> IF w \in ws THEN g[w] ELSE genOf[w]]
        /\ timer' = Rearmed(ws, g)
        /\ deferred' = [w \in Workspaces |-> IF w \in ws THEN Branches \ critical[w]
                                             ELSE deferred[w]]
        /\ Dispatches(UNION {RequestsOf(w, critical[w], g[w]) : w \in ws},
                      {x \in waits : x.ws \in ws => x.branch \notin critical[x.ws]},
                      loads \ Of(loads, ws), givenUp \ Of(givenUp, ws))
  BY DEF Starts
<1> DEFINE new == UNION {RequestsOf(w, critical[w], g[w]) : w \in ws}
           kept == {x \in waits : x.ws \in ws => x.branch \notin critical[x.ws]}
           done == loads \ Of(loads, ws)
           gone == givenUp \ Of(givenUp, ws)
<1>12. \A x :
        /\ x \notin new => /\ x \in awaiting' <=> x \in kept
                           /\ x \in loads' <=> x \in done
                           /\ x \in givenUp' <=> x \in gone
        /\ x \in new /\ x \notin kept \cup done \cup gone =>
             OneOf(FALSE, x \in awaiting', x \in loads', x \in givenUp')
  <2>1. Dispatches(new, kept, done, gone)
    BY <1>1
  <2> HIDE DEF new, kept, done, gone
  <2>2. QED BY <2>1 DEF Dispatches, Waits, Dropped, OneOf
<1>2. \A w \in ws : g[w] \in 1..lastGen' /\ g[w] > lastGen /\ critical[w] \in SUBSET Branches
  BY <1>0, <1>1, GenerationNumbers DEF Critical
<1>3. \A w \in ws : genOf'[w] = g[w] /\ timer'[w] = g[w] /\ deferred'[w] = Branches \ critical[w]
  <2>1. \A w \in ws : timer[w] \in 0..lastGen
    OBVIOUS
  <2>2. \A w \in ws : timer[w] <= g[w]
    BY <1>0, <1>2, <2>1
  <2>3. QED BY <1>1, <2>2 DEF Rearmed
<1>4. \A w \in Workspaces \ ws :
        genOf'[w] = genOf[w] /\ timer'[w] = timer[w] /\ deferred'[w] = deferred[w]
  BY <1>1 DEF Rearmed
<1>5. \A x \in new : x.ws \in ws /\ x.gen = g[x.ws] /\ x \in RequestRecords'
  <2>1. ASSUME NEW w \in ws, NEW x \in RequestsOf(w, critical[w], g[w])
        PROVE  x.ws \in ws /\ x.gen = g[x.ws] /\ x \in RequestRecords'
    BY <1>0, <1>2, RequestIsTyped DEF RequestRecords
  <2>2. QED BY <2>1
<1>6. RequestRecords \subseteq RequestRecords'
  BY <1>0 DEF RequestRecords
<1>7. HydrationTypeOK'
  <2>1. genOf' \in [Workspaces -> 0..lastGen'] /\ timer' \in [Workspaces -> 0..lastGen']
    BY <1>0, <1>1, <1>2, <1>3, <1>4 DEF Rearmed
  <2>2. deferred' \in [Workspaces -> SUBSET Branches]
    BY <1>1
  <2>3. awaiting' \subseteq RequestRecords' /\ loads' \subseteq RequestRecords'
        /\ givenUp' \subseteq RequestRecords'
    BY <1>1, <1>5, <1>6, DispatchTyped
  <2>4. QED BY <1>0, <2>1, <2>2, <2>3
<1>8. GenInv'
  BY <1>2, <1>3, <1>4 DEF GenInv
<1>9. LoadsInv'
  <2>1. \A x \in new : x.ws \in mounted' /\ x.gen = genOf'[x.ws]
    BY <1>3, <1>5
  <2>2. \A x \in done : x.ws \in mounted' /\ x.gen = genOf'[x.ws]
    BY <1>4 DEF LoadsInv, Of
  <2>3. QED BY <1>1, <2>1, <2>2, DispatchLoads
<1>13. WaitsInv'
  <2>1. \A x \in new \cup kept : x.ws \in mounted'
    BY <1>5 DEF WaitsInv
  <2>2. QED BY <1>1, <2>1, DispatchWaits
<1>10. ASSUME NEW w \in mounted', NEW b \in Branches PROVE Placed(w, b)'
  <2>1. CASE w \notin ws
    <3>1. w \in mounted /\ Now(w, b).ws = w
      BY <2>1, RequestFields DEF Now
    <3>2. Now(w, b) \notin new
      BY <1>5, <2>1, <3>1
    <3>3. /\ Now(w, b) \in kept <=> Now(w, b) \in awaiting
          /\ Now(w, b) \in done <=> Now(w, b) \in loads
          /\ Now(w, b) \in gone <=> Now(w, b) \in givenUp
      BY <2>1, <3>1 DEF Of
    <3>4. /\ Now(w, b) \in awaiting' <=> Now(w, b) \in awaiting
          /\ Now(w, b) \in loads' <=> Now(w, b) \in loads
          /\ Now(w, b) \in givenUp' <=> Now(w, b) \in givenUp
      BY <1>12, <3>2, <3>3
    <3>5. QED BY <1>4, <2>1, <3>1, <3>4, Elsewhere
  <2>2. CASE w \in ws
    <3> DEFINE x == Request(w, b, g[w])
    <3>1. Now(w, b)' = x /\ x.ws = w /\ x.gen = g[w] /\ x.branch = b
      BY <1>3, <2>2, RequestFields DEF Now
    <3>2. x \notin kept \cup done \cup gone
      <4>1. \A y \in awaiting : y.gen <= lastGen
        BY DEF RequestRecords
      <4>2. x \notin awaiting
        BY <1>0, <1>2, <2>2, <3>1, <4>1
      <4>3. QED BY <2>2, <3>1, <4>2 DEF Of
    <3>3. x \in new <=> b \in critical[w]
      <4>1. x \in RequestsOf(w, critical[w], g[w]) <=> b \in critical[w]
        BY <1>0, <1>2, <2>2, RequestIsTyped
      <4>2. \A v \in ws : x \in RequestsOf(v, critical[v], g[v]) => v = w
        BY <1>0, <1>2, <3>1, RequestIsTyped
      <4>3. QED BY <2>2, <4>1, <4>2
    <3>4. Pending(w, b)' <=> b \notin critical[w]
      BY <1>3, <2>2 DEF Pending
    <3>5. CASE b \in critical[w]
      <4>1. OneOf(FALSE, x \in awaiting', x \in loads', x \in givenUp')
        BY <1>12, <3>2, <3>3, <3>5
      <4>2. QED BY <3>1, <3>4, <3>5, <4>1 DEF Placed, OneOf
    <3>6. CASE b \notin critical[w]
      <4>1. x \notin awaiting' /\ x \notin loads' /\ x \notin givenUp'
        BY <1>12, <3>2, <3>3, <3>6
      <4>2. QED BY <3>1, <3>4, <3>6, <4>1 DEF Placed, OneOf
    <3>7. QED BY <3>5, <3>6
  <2>3. QED BY <2>1, <2>2
<1>11. QED BY <1>7, <1>8, <1>9, <1>10, <1>13 DEF PlacedInv

\* An unmount forgets its workspace and disturbs no other.
LEMMA UnmountInv ==
  ASSUME HydInv, NEW w \in Workspaces, Unmount(w) PROVE HydInv'
<1> USE DEF HydInv, HydrationTypeOK
<1> DEFINE waits == awaiting \ Of(awaiting, {w})
           done == loads \ Of(loads, {w})
           gone == givenUp \ Of(givenUp, {w})
<1>1. /\ Dispatches({}, waits, done, gone) /\ lastGen' = lastGen /\ resolved' = resolved
      /\ mounted' = mounted \ {w}
      /\ genOf'[w] = 0 /\ timer'[w] = 0 /\ deferred'[w] = {}
      /\ \A v \in Workspaces \ {w} :
           genOf'[v] = genOf[v] /\ timer'[v] = timer[v] /\ deferred'[v] = deferred[v]
  BY DEF Unmount
<1>2. HydrationTypeOK'
  <2>1. awaiting' \subseteq RequestRecords /\ loads' \subseteq RequestRecords
        /\ givenUp' \subseteq RequestRecords
    BY <1>1, DispatchTyped
  <2>2. genOf' \in [Workspaces -> 0..lastGen] /\ timer' \in [Workspaces -> 0..lastGen]
        /\ deferred' \in [Workspaces -> SUBSET Branches]
    BY DEF Unmount
  <2>3. QED BY <1>1, <2>1, <2>2 DEF RequestRecords
<1>3. GenInv'
  BY <1>1 DEF GenInv
<1>4. LoadsInv'
  <2>1. \A x \in done : x.ws \in mounted' /\ x.gen = genOf'[x.ws]
    BY <1>1 DEF LoadsInv, Of
  <2>2. QED BY <1>1, <2>1 DEF Dispatches, LoadsInv
<1>5. WaitsInv'
  <2>1. \A x \in waits : x.ws \in mounted'
    BY <1>1 DEF WaitsInv, Of
  <2>2. QED BY <1>1, <2>1, DispatchWaits
<1>6. ASSUME NEW v \in mounted', NEW b \in Branches PROVE Placed(v, b)'
  <2>1. v \in mounted /\ v # w /\ Now(v, b).ws = v
    BY <1>1, <1>6, RequestFields DEF Now
  <2>2. /\ Now(v, b) \in waits <=> Now(v, b) \in awaiting
        /\ Now(v, b) \in done <=> Now(v, b) \in loads
        /\ Now(v, b) \in gone <=> Now(v, b) \in givenUp
    BY <2>1 DEF Of
  <2>3. /\ Now(v, b) \in awaiting' <=> Now(v, b) \in awaiting
        /\ Now(v, b) \in loads' <=> Now(v, b) \in loads
        /\ Now(v, b) \in givenUp' <=> Now(v, b) \in givenUp
    BY <1>1, <2>2 DEF Dispatches
  <2>4. QED BY <1>1, <2>1, <2>3, Elsewhere
<1>7. QED BY <1>2, <1>3, <1>4, <1>5, <1>6 DEF PlacedInv

\* Deferred branches of a mounted workspace that are requested, by a promotion or
\* by its worker, which then requests all of them.
LEMMA RequestsInv ==
  ASSUME HydInv, NEW w \in mounted, NEW bs \in SUBSET deferred[w], Requests(w, bs),
         timer' \in [Workspaces -> 0..lastGen],
         \A v \in Workspaces \ {w} : timer'[v] = timer[v],
         \/ timer' = timer /\ timer[w] = genOf[w]
         \/ timer'[w] = 0 /\ bs = deferred[w]
  PROVE  HydInv'
<1> USE DEF HydInv, HydrationTypeOK
<1> DEFINE new == RequestsOf(w, bs, genOf[w])
<1>1. /\ Dispatches(new, awaiting, loads, givenUp)
      /\ UNCHANGED <<mounted, genOf, lastGen, resolved>>
      /\ deferred' = [deferred EXCEPT ![w] = @ \ bs]
  BY DEF Requests, Without
<1>2. /\ w \in Workspaces /\ genOf[w] \in 1..lastGen /\ lastGen \in Nat
      /\ bs \subseteq Branches /\ (deferred[w] # {} => timer[w] = genOf[w])
  BY DEF GenInv
<1>3. /\ new \subseteq RequestRecords
      /\ \A b : Request(w, b, genOf[w]) \in new <=> b \in bs
      /\ \A x \in new : x.ws = w /\ x.branch \in bs /\ x.gen = genOf[w]
  BY <1>2, RequestIsTyped DEF RequestRecords
<1>4. HydrationTypeOK'
  <2>1. awaiting' \subseteq RequestRecords /\ loads' \subseteq RequestRecords
        /\ givenUp' \subseteq RequestRecords
    BY <1>1, <1>3, DispatchTyped
  <2>2. deferred' \in [Workspaces -> SUBSET Branches]
    BY <1>1
  <2>3. QED BY <1>1, <2>1, <2>2 DEF RequestRecords
<1>5. GenInv'
  BY <1>1, <1>2 DEF GenInv
<1>6. LoadsInv'
  <2>1. \A x \in new \cup loads : x.ws \in mounted' /\ x.gen = genOf'[x.ws]
    BY <1>1, <1>3 DEF LoadsInv
  <2>2. QED BY <1>1, <2>1, DispatchLoads
<1>7. WaitsInv'
  <2>1. \A x \in new \cup awaiting : x.ws \in mounted'
    BY <1>1, <1>3 DEF WaitsInv
  <2>2. QED BY <1>1, <2>1, DispatchWaits
<1>8. ASSUME NEW v \in mounted', NEW b \in Branches PROVE Placed(v, b)'
  <2>1. v \in mounted /\ Now(v, b).ws = v /\ Placed(v, b) /\ Now(v, b)' = Now(v, b)
    BY <1>1, <1>8, RequestFields DEF Now, PlacedInv
  <2>2. CASE Now(v, b) \notin new
    <3>1. /\ Now(v, b) \in awaiting' <=> Now(v, b) \in awaiting
          /\ Now(v, b) \in loads' <=> Now(v, b) \in loads
          /\ Now(v, b) \in givenUp' <=> Now(v, b) \in givenUp
      BY <1>1, <2>2 DEF Dispatches
    <3>2. Pending(v, b)' <=> Pending(v, b)
      BY <1>1, <1>2, <1>3, <2>1, <2>2 DEF Pending, Now
    <3>3. QED BY <2>1, <3>1, <3>2 DEF Placed, OneOf
  <2>3. CASE Now(v, b) \in new
    <3>1. v = w /\ b \in bs
      BY <1>3, <2>1, <2>3 DEF Now
    <3>2. Pending(v, b) /\ ~Pending(v, b)'
      BY <1>1, <1>2, <3>1 DEF Pending
    <3>3. Now(v, b) \notin awaiting \cup loads \cup givenUp
      BY <2>1, <3>2 DEF Placed, OneOf
    <3>4. OneOf(FALSE, Now(v, b) \in awaiting', Now(v, b) \in loads', Now(v, b) \in givenUp')
      BY <1>1, <2>3, <3>3 DEF Dispatches, Waits, Dropped, OneOf
    <3>5. QED BY <2>1, <3>2, <3>4 DEF Placed, OneOf
  <2>4. QED BY <2>2, <2>3
<1>9. QED BY <1>4, <1>5, <1>6, <1>7, <1>8 DEF PlacedInv

\* Path waits that end: those of the present generations are loaded, or given up.
LEMMA WaitsEnd ==
  ASSUME HydInv, NEW ended \in SUBSET awaiting,
         NEW done, NEW gone, Dispatches({}, awaiting \ ended, done, gone),
         \/ done = loads \cup {x \in ended : StillCurrent(x)} /\ gone = givenUp
         \/ done = loads /\ gone = givenUp \cup {x \in ended : StillCurrent(x)},
         UNCHANGED <<mounted, genOf, lastGen, deferred, timer>>,
         resolved' \in SUBSET Workspaces
  PROVE  HydInv'
<1> USE DEF HydInv, HydrationTypeOK
<1>1. HydrationTypeOK'
  <2>1. awaiting' \subseteq RequestRecords /\ loads' \subseteq RequestRecords
        /\ givenUp' \subseteq RequestRecords
    BY DEF Dispatches
  <2>2. QED BY <2>1 DEF RequestRecords
<1>2. GenInv'
  BY DEF GenInv
<1>3. LoadsInv'
  <2>1. \A x \in ended : StillCurrent(x) => x.ws \in mounted /\ x.gen = genOf[x.ws]
    BY DEF WaitsInv, StillCurrent
  <2>2. QED BY <2>1 DEF LoadsInv, Dispatches
<1>4. WaitsInv'
  BY DEF WaitsInv, Dispatches
<1>5. ASSUME NEW v \in mounted', NEW b \in Branches PROVE Placed(v, b)'
  <2>1. /\ v \in mounted /\ Placed(v, b) /\ Now(v, b)' = Now(v, b)
        /\ Pending(v, b)' <=> Pending(v, b)
    BY <1>5 DEF Now, Pending, PlacedInv
  <2>2. StillCurrent(Now(v, b))
    BY RequestFields DEF Now, StillCurrent
  <2>3. QED BY <2>1, <2>2 DEF Placed, OneOf, Dispatches
<1>6. QED BY <1>1, <1>2, <1>3, <1>4, <1>5 DEF PlacedInv

\* Every step keeps the invariant.
LEMMA HydInvNext ==
  ASSUME HydInv, [HydrationNext]_hydrationVars PROVE HydInv'
<1> USE DEF HydInv
<1>0. mounted \in SUBSET Workspaces /\ mounted \cup mounted = mounted
  BY DEF HydrationTypeOK
<1>1. CASE Reconnect
  BY <1>0, <1>1, StartsInv DEF Reconnect, WaitsInv
<1>2. CASE SwitchBackend
  BY <1>0, <1>2, StartsInv DEF SwitchBackend
<1>3. ASSUME NEW w \in Workspaces, Mount(w) PROVE HydInv'
  <2>1. \A x \in awaiting \ (awaiting \ Of(awaiting, {w})) : x.ws \in {w}
    BY DEF Of
  <2>2. QED BY <1>3, <2>1, StartsInv DEF Mount
<1>4. ASSUME NEW w \in Workspaces, Unmount(w) PROVE HydInv'
  BY <1>4, UnmountInv
<1>5. ASSUME NEW w \in Workspaces, Promote(w) PROVE HydInv'
  <2>1. w \in mounted /\ timer[w] = genOf[w] /\ timer \in [Workspaces -> 0..lastGen]
    BY <1>5 DEF Promote, GenInv, HydrationTypeOK
  <2>2. PICK critical \in Critical : Requests(w, critical \cap deferred[w])
    BY <1>5 DEF Promote
  <2>3. critical \cap deferred[w] \in SUBSET deferred[w] /\ timer' = timer
    BY <1>5 DEF Promote
  <2>4. QED BY <2>1, <2>2, <2>3, RequestsInv
<1>6. ASSUME NEW w \in Workspaces, TimerFires(w) PROVE HydInv'
  <2>1. w \in mounted /\ (timer[w] # genOf[w] => deferred[w] = {})
    BY <1>6 DEF TimerFires, GenInv
  <2>2. Requests(w, deferred[w])
    BY <1>6, <2>1 DEF TimerFires
  <2>3. /\ timer' \in [Workspaces -> 0..lastGen] /\ timer'[w] = 0
        /\ \A v \in Workspaces \ {w} : timer'[v] = timer[v]
    BY <1>6 DEF TimerFires, HydrationTypeOK
  <2>4. QED BY <2>1, <2>2, <2>3, RequestsInv
<1>7. ASSUME NEW w \in Workspaces, PathResolves(w) PROVE HydInv'
  <2>1. Of(awaiting, {w}) \in SUBSET awaiting /\ resolved' \in SUBSET Workspaces
    BY <1>7 DEF Of, PathResolves, HydrationTypeOK
  <2>2. QED BY <1>7, <2>1, WaitsEnd DEF PathResolves
<1>11. ASSUME NEW w \in Workspaces, PathVanishes(w) PROVE HydInv'
  BY <1>11 DEF PathVanishes, HydrationTypeOK, RequestRecords, GenInv, LoadsInv, WaitsInv,
               PlacedInv, Placed, OneOf, Now, Pending
<1>8. ASSUME NEW w \in Workspaces, WaitExpires(w) PROVE HydInv'
  <2>1. PICK x \in awaiting :
          /\ Dispatches({}, awaiting \ {x}, loads, givenUp \cup {y \in {x} : StillCurrent(y)})
          /\ UNCHANGED <<mounted, genOf, lastGen, deferred, timer, resolved>>
    BY <1>8 DEF WaitExpires, Of
  <2>2. resolved' \in SUBSET Workspaces
    BY <2>1 DEF HydrationTypeOK
  <2>3. QED BY <2>1, <2>2, WaitsEnd
<1>9. CASE UNCHANGED hydrationVars
  BY <1>9 DEF hydrationVars, HydrationTypeOK, RequestRecords, GenInv, LoadsInv, WaitsInv,
              PlacedInv, Placed, OneOf, Now, Pending
<1>10. QED BY <1>1, <1>2, <1>3, <1>4, <1>5, <1>6, <1>7, <1>8, <1>9, <1>11 DEF HydrationNext

-----------------------------------------------------------------------------
(* What holds of hydration.                                                *)

\* The invariant of hydration, whatever mounts, reconnects, switches, paths and
\* timers come in whatever order.
THEOREM HydrationInvariant == HydrationSpec => []HydInv
<1>1. ASSUME HydrationInit PROVE HydInv
  <2>1. HydrationTypeOK
    BY <1>1, HydrationAssumption DEF HydrationInit, HydrationTypeOK, HydrationAssumption
  <2>2. QED BY <1>1, <2>1 DEF HydrationInit, HydInv, GenInv, LoadsInv, WaitsInv, PlacedInv
<1>2. QED BY <1>1, HydInvNext, PTL DEF HydrationSpec

\* The saga's state stays well typed, and no generation has a number that was not
\* given out.
THEOREM HydrationTyped == HydrationSpec => []HydrationTypeOK
<1>1. HydInv => HydrationTypeOK
  BY DEF HydInv
<1>2. QED BY <1>1, HydrationInvariant, PTL

\* Each branch of a mounted workspace is deferred, waiting, loaded or given up, and
\* only one of these (the tier scheduler and the workers that run it).
THEOREM OnePlace == HydrationSpec => []EachBranchOnce
<1>1. HydInv => EachBranchOnce
  <2> SUFFICES ASSUME HydInv PROVE EachBranchOnce
    OBVIOUS
  <2>1. ASSUME NEW w \in mounted, NEW b \in Branches
        PROVE  \E i \in 1..4 : \A j \in 1..4 : Now(w, b) \in Places(w)[j] <=> j = i
    <3> DEFINE q == RequestsOf(w, deferred[w], genOf[w])
               first == IF timer[w] = genOf[w] THEN q ELSE {}
    <3>1. /\ Places(w)[1] = first /\ Places(w)[2] = awaiting
          /\ Places(w)[3] = loads /\ Places(w)[4] = givenUp
      BY DEF Places
    <3>2. Now(w, b) \in first <=> Pending(w, b)
      BY RequestFields DEF Pending, Now, RequestsOf
    <3>3. Placed(w, b)
      BY DEF HydInv, PlacedInv
    <3>4. \A j \in 1..4 : j = 1 \/ j = 2 \/ j = 3 \/ j = 4
      OBVIOUS
    <3> HIDE DEF first
    <3>5. QED BY <3>1, <3>2, <3>3, <3>4 DEF Placed, OneOf
  <2>2. QED BY <2>1 DEF EachBranchOnce, HydInv, LoadsInv, Now
<1>2. QED BY <1>1, HydrationInvariant, PTL

=============================================================================
