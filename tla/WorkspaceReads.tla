--------------------------- MODULE WorkspaceReads ---------------------------
(***************************************************************************)
(* The bounded scheduler of the lifecycle saga's per-workspace daemon      *)
(* reads (workspace-read-scheduler.ts, withReadSlot of                     *)
(* lifecycle-read-saga.ts).  A read takes a slot before it goes on the     *)
(* wire and gives it back when it completes, fails or is cancelled; reads  *)
(* of the workspace in view are granted ahead of background ones, within   *)
(* bounds.                                                                 *)
(*                                                                         *)
(* drain() grants until the slots are full or the queue is empty; that no  *)
(* slot is ever idle while a read waits is why a call makes one grant.     *)
(***************************************************************************)
EXTENDS Naturals, SequencesExt

CONSTANTS Reads,  \* reads the sagas may have under way, each again and again
          Limit   \* MAX_CONCURRENT_WORKSPACE_READS

ASSUME LimitAssumption == Limit \in Nat \ {0} /\ IsFiniteSet(Reads)

VARIABLES
  waiters,    \* the queue, in arrival order
  slot,       \* each read's slot: none, queued, granted
  priority,   \* queued reads acquired with priority
  active,     \* reads on the wire, as the scheduler counts them
  streak,     \* consecutivePriorityGrants
  ahead,      \* history of a queued read: background reads ahead on arrival
  overtaken   \* history of a queued read: later reads granted first

readVars == <<waiters, slot, priority, active, streak, ahead, overtaken>>

ReadsInit ==
  /\ waiters = <<>> /\ slot = [r \in Reads |-> "none"] /\ priority = {}
  /\ active = 0 /\ streak = 0
  /\ ahead = [r \in Reads |-> 0] /\ overtaken = [r \in Reads |-> 0]

-----------------------------------------------------------------------------

\* Mutant of Fair: priority is never held back.
AlwaysPriority(k) == TRUE

\* Priority counts until Limit grants in a row were priority ones.
Fair(k) == k < Limit

\* nextIndex(): the oldest priority waiter while that is fair, or the oldest.
NextIndex(q, prio, k) ==
  LET wanted == {i \in DOMAIN q : q[i] \in prio}
  IN  IF wanted = {} \/ ~Fair(k) THEN 1
      ELSE CHOOSE i \in wanted : \A j \in wanted : i <= j

\* drain() with the queue q, the priority reads among it, n reads active and the
\* history of the waiters: the slots are full, or the queue is empty, or the next
\* waiter is granted.
Drains(q, prio, n, slots, before, passed) ==
  IF n >= Limit \/ q = <<>>
  THEN /\ waiters' = q /\ priority' = prio /\ active' = n /\ slot' = slots
       /\ ahead' = before /\ overtaken' = passed
       /\ UNCHANGED streak
  ELSE LET i == NextIndex(q, prio, streak)
       IN  /\ waiters' = RemoveAt(q, i) /\ priority' = prio \ {q[i]}
           /\ active' = n + 1 /\ slot' = [slots EXCEPT ![q[i]] = "granted"]
           /\ streak' = IF q[i] \notin prio THEN 0
                        ELSE IF streak < Limit THEN streak + 1 ELSE streak
           /\ ahead' = [before EXCEPT ![q[i]] = 0]
           /\ overtaken' = [r \in Reads |->
                IF r = q[i] THEN 0
                ELSE passed[r] + IF \E j \in 1..(i - 1) : q[j] = r THEN 1 ELSE 0]

\* The background reads in the queue.
Background == {r \in Reads : slot[r] = "queued" /\ r \notin priority}

\* acquire(): queue up, then drain.  The read has priority when its workspace is
\* the one in view at this moment.
Acquire(r, p) ==
  /\ slot[r] = "none"
  /\ Drains(Append(waiters, r), IF p THEN priority \cup {r} ELSE priority, active,
            [slot EXCEPT ![r] = "queued"],
            [ahead EXCEPT ![r] = Cardinality(Background)], overtaken)

\* Mutant of Freed: whatever is released gives back a slot.
FreedAlways(r) == 1

\* The slots that release() gives back: only a granted one counts.
Freed(r) == IF slot[r] = "granted" THEN 1 ELSE 0

\* release() of a granted slot: the read completed, failed or was cancelled.
Release(r) ==
  /\ slot[r] = "granted"
  /\ Drains(waiters, priority, active - Freed(r), [slot EXCEPT ![r] = "none"],
            ahead, overtaken)

\* release() of a read that is cancelled while it is queued.
Abandon(r) ==
  /\ slot[r] = "queued"
  /\ slot' = [slot EXCEPT ![r] = "none"]
  /\ \E i \in DOMAIN waiters :
       waiters[i] = r /\ waiters' = RemoveAt(waiters, i)
  /\ active' = active - Freed(r) /\ priority' = priority \ {r}
  /\ ahead' = [ahead EXCEPT ![r] = 0] /\ overtaken' = [overtaken EXCEPT ![r] = 0]
  /\ UNCHANGED streak

\* release() once more: it is idempotent.
ReleaseAgain(r) ==
  /\ slot[r] = "none" /\ active' = active - Freed(r)
  /\ UNCHANGED <<waiters, slot, priority, streak, ahead, overtaken>>

ReadsNext ==
  \E r \in Reads :
    \/ Release(r) \/ Abandon(r) \/ ReleaseAgain(r)
    \/ \E p \in BOOLEAN : Acquire(r, p)

ReadsSpec == ReadsInit /\ [][ReadsNext]_readVars

-----------------------------------------------------------------------------
(* Properties.                                                             *)

\* Every variable stays in its range (the state of the scheduler).
ReadsTypeOK ==
  /\ waiters \in Seq(Reads) /\ slot \in [Reads -> {"none", "queued", "granted"}]
  /\ priority \subseteq Reads /\ active \in Nat /\ streak \in 0..Limit
  /\ ahead \in [Reads -> Nat] /\ overtaken \in [Reads -> Nat]

\* The count is exact: the reads on the wire are those that hold a slot, never
\* more than Limit, and no slot stays idle while a read waits for one, through
\* completions, failures and cancellations alike.
SlotsAreExact ==
  /\ active = Cardinality({r \in Reads : slot[r] = "granted"})
  /\ active <= Limit
  /\ waiters # <<>> => active = Limit

\* "Bounds how long a background read can be jumped" (nextIndex): later reads go
\* first at most Limit times for the read itself and for each background read
\* that was ahead of it.
BoundedOvertaking ==
  \A r \in Reads : slot[r] = "queued" => overtaken[r] <= Limit * (ahead[r] + 1)

=============================================================================
