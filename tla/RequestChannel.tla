--------------------------- MODULE RequestChannel ---------------------------
(***************************************************************************)
(* What JsonRpcClient promises to the callers of request(), without        *)
(* sockets, handshakes, timers and hellos.                                 *)
(*                                                                         *)
(* A call waits while the link is not open, is written when the link opens *)
(* or at once when it is open, and ends with an answer, or together with   *)
(* every other call of its kind when the link goes down.  A held link is   *)
(* one whose identity is being renegotiated: written calls keep waiting    *)
(* for their answers, new ones wait for the link.                          *)
(***************************************************************************)
CONSTANT Calls

VARIABLES
  link,   \* whether calls may be written
  call    \* where each call stands

cvars == <<link, call>>

\* Every call that stands at one of the places ends.
Ended(places) == [c \in Calls |-> IF call[c] \in places THEN "idle" ELSE call[c]]

ChannelInit == link = "down" /\ call = [c \in Calls |-> "idle"]

\* A call is written on an open link and waits for any other.
Submit(c) ==
  /\ call[c] = "idle" /\ link # "closed"
  /\ call' = [call EXCEPT ![c] = IF link = "open" THEN "written" ELSE "waiting"]
  /\ UNCHANGED link

\* An answer, or the call's own timeout.
Answer(c) ==
  /\ call[c] = "written"
  /\ call' = [call EXCEPT ![c] = "idle"]
  /\ UNCHANGED link

\* The link opens and writes every waiting call, in one step; a renegotiation
\* that waited for it may hold the link at once.
Open ==
  /\ link \in {"down", "held"}
  /\ link' \in {"open", "held"}
  /\ call' = [c \in Calls |-> IF call[c] = "waiting" THEN "written" ELSE call[c]]

\* A renegotiation begins.
Hold == link = "open" /\ link' = "held" /\ UNCHANGED call

\* The link goes down, or an attempt to open it fails: every call ends.
Drop == link # "closed" /\ link' = "down" /\ call' = Ended({"waiting", "written"})

\* The attempt that a call made for itself fails at once: the other calls end,
\* and this one waits for the next attempt.
DropUnder(c) ==
  /\ call[c] = "idle" /\ link = "down"
  /\ call' = [Ended({"waiting", "written"}) EXCEPT ![c] = "waiting"]
  /\ UNCHANGED link

\* The daemon turns out to be starting: nobody waits for it.
Refuse == link = "down" /\ call' = Ended({"waiting"}) /\ UNCHANGED link

\* The client is disposed of.
Close == link # "closed" /\ link' = "closed" /\ call' = Ended({"waiting", "written"})

ChannelNext ==
  \/ Open \/ Hold \/ Drop \/ Refuse \/ Close
  \/ \E c \in Calls : Submit(c) \/ Answer(c) \/ DropUnder(c)

ChannelSpec == ChannelInit /\ [][ChannelNext]_cvars

\* A call is written only on a link that is there, and nothing waits for a link
\* that is open or will never open.
CallsFollowLink ==
  \A c \in Calls :
    /\ call[c] = "written" => link \in {"open", "held"}
    /\ call[c] = "waiting" => link \in {"down", "held"}

=============================================================================
