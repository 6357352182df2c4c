-------------------- MODULE DeltaSubscriptionRefinement --------------------
(***************************************************************************)
(* DeltaSubscription implements CollectionView.  Two history variables say *)
(* what no state of the client or the daemon remembers: the states a row   *)
(* was ever in, and the oldest one that may still be shown.                *)
(***************************************************************************)
EXTENDS DeltaSubscription

VARIABLES had, floor

viewed == <<vars, had, floor>>

HistoryInit ==
  /\ had = [c \in Channels |-> [i \in Rows |-> {store[c][i]}]]
  /\ floor = [c \in Channels |-> [i \in Rows |-> 0]]

\* A row that a snapshot or a delta shows in a new state; those that come with a
\* page, which is used up by it, are provisional.
Raises(c, i) ==
  /\ pageRows' = pageRows
  /\ shown'[c][i] # shown[c][i] /\ shown'[c][i] > floor[c][i]

HistoryNext ==
  /\ had' = [c \in Channels |-> [i \in Rows |-> had[c][i] \cup {store'[c][i]}]]
  /\ floor' = [c \in Channels |-> [i \in Rows |->
       IF Raises(c, i) THEN shown'[c][i] ELSE floor[c][i]]]

ViewedSpec == Init /\ HistoryInit /\ [][Next /\ HistoryNext]_viewed

\* The channels that need nothing more.
InSync == {c \in desired : Settled(c)}

View == INSTANCE CollectionView WITH
  States <- Values, view <- shown, insync <- InSync

\* The handler is given a view of the daemon's collection: no state of a row
\* that it never had, none that is older than one a snapshot or a delta showed
\* (the reconciler's sequence numbers, the replay of held pushes and the
\* resnapshot), no page over what is known (DeltaReconciler.fillFromPage), and
\* the whole collection once nothing is under way.
ImplementsView == View!ViewSpec

=============================================================================
