--------------------------- MODULE CollectionView ---------------------------
(***************************************************************************)
(* What DeltaSubscription promises to the handler that shows a collection, *)
(* without subscriptions, pushes, pages and connections.                   *)
(*                                                                         *)
(* The states of a row are numbers that grow with each change; 0 is its    *)
(* absence.  A view may lag behind the daemon's collection and may lack    *)
(* rows, but it shows no row in a state the daemon never had it in, and it *)
(* never goes back: once a row was shown in a state, it is not shown in an *)
(* older one.  A row that only fills a gap is the exception: it is ahead   *)
(* of what else is known, and may give way to what that brings.  Whoever   *)
(* is in sync shows the collection.                                        *)
(***************************************************************************)
EXTENDS Naturals

CONSTANTS Channels, Rows, States

VARIABLES
  store,    \* the daemon's collections
  had,      \* the states each row was ever in
  view,     \* what is shown
  floor,    \* the oldest state of each row that may be shown
  insync    \* channels to which nothing is under way

viewVars == <<store, had, view, floor, insync>>

Collections == [Channels -> [Rows -> States]]

ViewInit ==
  /\ store \in Collections
  /\ had = [c \in Channels |-> [i \in Rows |-> {store[c][i]}]]
  /\ view = [c \in Channels |-> [i \in Rows |-> 0]]
  /\ floor = [c \in Channels |-> [i \in Rows |-> 0]]
  /\ insync = {}

\* Nothing that is in sync differs from the daemon's collection.
SyncIsTrue ==
  insync' \subseteq Channels /\ \A c \in insync' : view'[c] = store'[c]

\* The daemon changes a row, or removes it.
Change(c, i) ==
  /\ \E v \in States :
       /\ v = 0 \/ \A w \in had[c][i] : v > w
       /\ store' = [store EXCEPT ![c][i] = v]
       /\ had' = [had EXCEPT ![c][i] = @ \cup {v}]
  /\ SyncIsTrue
  /\ UNCHANGED <<view, floor>>

\* Each row is shown in a state it had, unless it is known to be older.
Faithful ==
  /\ view' \in Collections
  /\ \A c \in Channels : \A i \in Rows :
       view'[c][i] = 0 \/ (view'[c][i] \in had[c][i] /\ view'[c][i] >= floor[c][i])

\* The view follows, as far as it may; no row is shown older again.
Show ==
  /\ Faithful
  /\ floor' = [c \in Channels |-> [i \in Rows |->
       IF view'[c][i] # view[c][i] /\ view'[c][i] > floor[c][i]
       THEN view'[c][i] ELSE floor[c][i]]]
  /\ SyncIsTrue
  /\ UNCHANGED <<store, had>>

\* Rows that were not shown are, provisionally.
Fill ==
  /\ Faithful
  /\ \A c \in Channels : \A i \in Rows :
       view[c][i] # 0 => view'[c][i] \in {0, view[c][i]}
  /\ SyncIsTrue
  /\ UNCHANGED <<store, had, floor>>

ViewNext == Show \/ Fill \/ \E c \in Channels : \E i \in Rows : Change(c, i)

ViewSpec == ViewInit /\ [][ViewNext]_viewVars

=============================================================================
