--------------------------- MODULE ReliableChannel ---------------------------
(***************************************************************************)
(* What a driver (net_dgrm.c between two programs, net_loop.c within one)  *)
(* promises the host about its reliable messages, with no packets, buffers,*)
(* sequence numbers or timers in it.                                       *)
(*                                                                         *)
(* Between two endpoints the messages that one of them hands to            *)
(* NET_SendMessage come out of the other's NET_GetMessage in order, each   *)
(* exactly once and whole; and a further message is accepted only when the *)
(* previous one has come out, so at most one is ever on its way.           *)
(***************************************************************************)
EXTENDS Sequences

CONSTANTS
  Message          \* the reliable messages the hosts may send

VARIABLES
  sent,            \* sent[e]: the messages endpoint e has handed over
  delivered        \* delivered[e]: the messages handed to endpoint e

vars == <<sent, delivered>>

Endpoint == {"client", "server"}
Peer(e) == IF e = "client" THEN "server" ELSE "client"

Init ==
  /\ sent = [e \in Endpoint |-> <<>>]
  /\ delivered = [e \in Endpoint |-> <<>>]

\* NET_SendMessage, called only when NET_CanSendMessage has said yes.
Send(e, m) ==
  /\ delivered[Peer(e)] = sent[e]
  /\ sent' = [sent EXCEPT ![e] = Append(@, m)]
  /\ UNCHANGED delivered

\* NET_GetMessage returning 1 to e with net_message holding m.
Deliver(e, m) ==
  /\ sent[Peer(e)] = Append(delivered[e], m)
  /\ delivered' = [delivered EXCEPT ![e] = Append(@, m)]
  /\ UNCHANGED sent

Next == \E e \in Endpoint, m \in Message : Send(e, m) \/ Deliver(e, m)

Spec == Init /\ [][Next]_vars
=============================================================================
