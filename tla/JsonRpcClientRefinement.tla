---------------------- MODULE JsonRpcClientRefinement ----------------------
(***************************************************************************)
(* JsonRpcClient implements RequestChannel: the link is open when the      *)
(* client is connected, held while a hello is renegotiated on a live       *)
(* socket, closed once the client is disposed of, and down otherwise.      *)
(***************************************************************************)
EXTENDS JsonRpcClient

Link == IF disposed THEN "closed"
        ELSE IF status = "connected" THEN "open"
        ELSE IF renegotiating THEN "held" ELSE "down"

\* Where the channel sees each call.
Seen == [r \in Requests |-> IF req[r] = "parked" THEN "waiting"
                            ELSE IF req[r] = "pending" THEN "written"
                            ELSE "idle"]

Channel == INSTANCE RequestChannel WITH
  Calls <- Requests, link <- Link, call <- Seen

\* The client is a request channel: no call is written before the link opens
\* (ensureConnected), all that waited go at once (flushWaiters), and none is
\* left behind when the link goes down (failPending, failWaiters).
ImplementsChannel == Channel!ChannelSpec

\* A call that was written has a connected or renegotiating client to answer
\* it, and none waits on a connected or disposed one.
CallsFollowLink == Channel!CallsFollowLink

=============================================================================
