------------------------------ MODULE Datagram ------------------------------
(***************************************************************************)
(* The datagram driver of Engine X (net_dgrm.c): the reliable, fragmented, *)
(* stop-and-wait channel and the unreliable sequenced channel that a       *)
(* connected client and server run over one pair of UDP sockets.           *)
(*                                                                         *)
(* Both ends run the same code on their own qsocket_t (net.h); a field f   *)
(* of endpoint e's socket is the function value f[e].  Each end is one     *)
(* thread: between two calls into the driver it is "idle"; inside          *)
(* Datagram_GetMessage it is "reading", one iteration of the while(1)      *)
(* being one action because the other end and the network move meanwhile.  *)
(*                                                                         *)
(* The network loses, duplicates and reorders packets.  A sfunc.Write that *)
(* fails is a packet lost at once: except in Datagram_SendMessage, whose   *)
(* caller then drops the connection (Close), no caller looks at the result.*)
(* Packets the loop skips before it touches the socket (wrong address,     *)
(* too short, NETFLAG_CTL) change nothing and are left out.                *)
(***************************************************************************)
EXTENDS Integers, Sequences

CONSTANTS
  MAX_DATAGRAM,     \* data bytes per packet (quakedef.h: 1024, or 32000)
  Byte,             \* what a message is made of
  Message,          \* the reliable messages the hosts may send
  MaxReliable,      \* bound: reliable messages endpoint e ever sends
  MaxUnreliable     \* bound: unreliable messages endpoint e ever sends

Endpoint == {"client", "server"}
Peer(e) == IF e = "client" THEN "server" ELSE "client"

ASSUME MaxDatagramAssumption == MAX_DATAGRAM \in Nat \ {0}
ASSUME MessageAssumption == Message \subseteq Seq(Byte)
ASSUME BoundsAssumption ==
  /\ MaxReliable \in [Endpoint -> Nat]
  /\ MaxUnreliable \in [Endpoint -> Nat]

VARIABLES
  pc,                         \* "idle", "reading", "error" or "closed"
  net,                        \* net[e]: packets on their way to e's socket
  canSend, sendNext,          \* flags of the reliable sender
  sendMessage,                \* what of the current message is not yet acked
  sendSequence, ackSequence,
  expired,                    \* net_time - lastSendTime > 1.0
  receiveSequence,
  receiveMessage,             \* fragments received of the current message
  unreliableSendSequence,
  unreliableReceiveSequence,
  droppedDatagrams,
  sent, delivered,            \* history: reliable messages in and out
  received                    \* history: unreliable sequences handed out

senderVars == <<canSend, sendNext, sendMessage, sendSequence, ackSequence,
                expired, sent>>
receiverVars == <<receiveSequence, receiveMessage, delivered>>
unreliableVars == <<unreliableSendSequence, unreliableReceiveSequence,
                    droppedDatagrams, received>>
vars == <<pc, net, senderVars, receiverVars, unreliableVars>>

-----------------------------------------------------------------------------
(* Packets.  The NETFLAG bits are the type and eom; the length field is    *)
(* the length of data.                                                     *)

Packet == [type : {"DATA", "ACK", "UNRELIABLE"}, seq : Nat,
           eom : BOOLEAN, data : Seq(Byte)]

DataPacket(n, last, frag) ==
  [type |-> "DATA", seq |-> n, eom |-> last, data |-> frag]
AckPacket(n) == [type |-> "ACK", seq |-> n, eom |-> FALSE, data |-> <<>>]
UnreliablePacket(n) ==
  [type |-> "UNRELIABLE", seq |-> n, eom |-> FALSE, data |-> <<>>]

\* Mutant: a message that just fills a packet is not seen to end in it.
IsLastFragmentStrict(msg) == Len(msg) < MAX_DATAGRAM

\* The last packet of a message is the one that carries all that is left.
IsLastFragment(msg) == Len(msg) <= MAX_DATAGRAM

\* Mutant: the number is taken after the increment of another, one too low.
FrontPacketPrevious(msg, n) ==
  DataPacket(n - 1, IsLastFragment(msg),
             IF IsLastFragment(msg) THEN msg ELSE SubSeq(msg, 1, MAX_DATAGRAM))

\* The packet with number n that carries the front of what is left, msg.
FrontPacket(msg, n) ==
  DataPacket(n, IsLastFragment(msg),
             IF IsLastFragment(msg) THEN msg ELSE SubSeq(msg, 1, MAX_DATAGRAM))

\* What is left of msg once its front packet is acknowledged.
AfterFront(msg) ==
  IF Len(msg) - MAX_DATAGRAM > 0
  THEN SubSeq(msg, MAX_DATAGRAM + 1, Len(msg))
  ELSE <<>>

\* e takes gone off its socket and writes out to its peer.
Exchange(e, gone, out) ==
  net' = [net EXCEPT ![e] = @ \ gone, ![Peer(e)] = @ \cup out]

-----------------------------------------------------------------------------
(* The sender.                                                             *)

\* Datagram_SendMessage.  Every caller asks NET_CanSendMessage first but
\* CL_KeepaliveMessage, which module SignOn is about.
SendMessage(e, m) ==
  /\ pc[e] = "idle"
  /\ canSend[e]
  /\ Len(sent[e]) < MaxReliable[e]
  /\ sendMessage' = [sendMessage EXCEPT ![e] = m]
  /\ sendSequence' = [sendSequence EXCEPT ![e] = @ + 1]
  /\ canSend' = [canSend EXCEPT ![e] = FALSE]
  /\ expired' = [expired EXCEPT ![e] = FALSE]
  /\ sent' = [sent EXCEPT ![e] = Append(@, m)]
  /\ Exchange(e, {}, {FrontPacket(m, sendSequence[e])})
  /\ UNCHANGED <<pc, sendNext, ackSequence, receiverVars, unreliableVars>>

\* SendMessageNext at the end of Datagram_GetMessage, if sendNext is set:
\* its effect on the sender, and the packets it writes.
SendMessageNext(e) ==
  /\ sendSequence' =
       [sendSequence EXCEPT ![e] = IF sendNext[e] THEN @ + 1 ELSE @]
  /\ expired' = [expired EXCEPT ![e] = IF sendNext[e] THEN FALSE ELSE @]
  /\ sendNext' = [sendNext EXCEPT ![e] = FALSE]
  /\ UNCHANGED <<canSend, sendMessage, ackSequence, sent>>
NextPackets(e) ==
  IF sendNext[e] THEN {FrontPacket(sendMessage[e], sendSequence[e])} ELSE {}

\* Datagram_CanSendMessage after a GetMessage that returned -1: the flush
\* loops of NET_SendToAll and Host_ShutdownServer ignore the error and ask
\* again before the next GetMessage.  Elsewhere it finds sendNext cleared.
CanSendMessage(e) ==
  /\ pc[e] = "error"
  /\ pc' = [pc EXCEPT ![e] = "idle"]
  /\ SendMessageNext(e)
  /\ Exchange(e, {}, NextPackets(e))
  /\ UNCHANGED <<receiverVars, unreliableVars>>

\* Datagram_SendUnreliableMessage.
SendUnreliableMessage(e) ==
  /\ pc[e] = "idle"
  /\ unreliableSendSequence[e] < MaxUnreliable[e]
  /\ unreliableSendSequence' = [unreliableSendSequence EXCEPT ![e] = @ + 1]
  /\ Exchange(e, {}, {UnreliablePacket(unreliableSendSequence[e])})
  /\ UNCHANGED <<pc, senderVars, receiverVars, unreliableReceiveSequence,
                 droppedDatagrams, received>>

-----------------------------------------------------------------------------
(* Datagram_GetMessage: entry, one action per way through an iteration of  *)
(* the loop, and the ways out.                                             *)

\* Entry: ReSendMessage if the packet in flight has not been acked in time.
GetMessage(e) ==
  /\ pc[e] = "idle"
  /\ pc' = [pc EXCEPT ![e] = "reading"]
  /\ IF ~canSend[e] /\ expired[e]
     THEN /\ expired' = [expired EXCEPT ![e] = FALSE]
          /\ sendNext' = [sendNext EXCEPT ![e] = FALSE]
          /\ Exchange(e, {},
                      {FrontPacket(sendMessage[e], sendSequence[e] - 1)})
     ELSE UNCHANGED <<expired, sendNext, net>>
  /\ UNCHANGED <<canSend, sendMessage, sendSequence, ackSequence, sent,
                 receiverVars, unreliableVars>>

\* Leaving the loop by break: the epilogue runs SendMessageNext.
Leave(e, gone, out) ==
  /\ pc' = [pc EXCEPT ![e] = "idle"]
  /\ SendMessageNext(e)
  /\ Exchange(e, gone, out \cup NextPackets(e))

\* sfunc.Read finds nothing.
ReadNothing(e) ==
  /\ pc[e] = "reading"
  /\ Leave(e, {}, {})
  /\ UNCHANGED <<receiverVars, unreliableVars>>

\* sfunc.Read fails: return -1 from inside the loop, past the epilogue.
ReadError(e) ==
  /\ pc[e] = "reading"
  /\ pc' = [pc EXCEPT ![e] = "error"]
  /\ UNCHANGED <<net, senderVars, receiverVars, unreliableVars>>

\* e reads packet p; gone = {} leaves a duplicate of it in the network.
Reads(e, p, gone) ==
  /\ pc[e] = "reading"
  /\ p \in net[e]
  /\ gone \in {{}, {p}}

\* An unreliable packet no newer than the last one handed out: ret = 0.
StaleUnreliable(e, p, gone) ==
  /\ Reads(e, p, gone)
  /\ p.type = "UNRELIABLE"
  /\ p.seq < unreliableReceiveSequence[e]
  /\ Leave(e, gone, {})
  /\ UNCHANGED <<receiverVars, unreliableVars>>

\* Mutant: nothing is stale.
ReceiveAnyUnreliable(e, p, gone) ==
  /\ Reads(e, p, gone)
  /\ p.type = "UNRELIABLE"
  /\ droppedDatagrams' = [droppedDatagrams EXCEPT
                            ![e] = @ + (p.seq - unreliableReceiveSequence[e])]
  /\ unreliableReceiveSequence' =
       [unreliableReceiveSequence EXCEPT ![e] = p.seq + 1]
  /\ received' = [received EXCEPT ![e] = Append(@, p.seq)]
  /\ Leave(e, gone, {})
  /\ UNCHANGED <<unreliableSendSequence, receiverVars>>

\* Mutant: the datagram handed out is counted among those it overtook.
ReceiveUnreliableCountsItself(e, p, gone) ==
  /\ Reads(e, p, gone)
  /\ p.type = "UNRELIABLE"
  /\ p.seq >= unreliableReceiveSequence[e]
  /\ droppedDatagrams' = [droppedDatagrams EXCEPT
                    ![e] = @ + (p.seq + 1 - unreliableReceiveSequence[e])]
  /\ unreliableReceiveSequence' =
       [unreliableReceiveSequence EXCEPT ![e] = p.seq + 1]
  /\ received' = [received EXCEPT ![e] = Append(@, p.seq)]
  /\ Leave(e, gone, {})
  /\ UNCHANGED <<unreliableSendSequence, receiverVars>>

\* A newer one is handed out, and those it overtook are counted: ret = 2.
ReceiveUnreliable(e, p, gone) ==
  /\ Reads(e, p, gone)
  /\ p.type = "UNRELIABLE"
  /\ p.seq >= unreliableReceiveSequence[e]
  /\ droppedDatagrams' = [droppedDatagrams EXCEPT
                            ![e] = @ + (p.seq - unreliableReceiveSequence[e])]
  /\ unreliableReceiveSequence' =
       [unreliableReceiveSequence EXCEPT ![e] = p.seq + 1]
  /\ received' = [received EXCEPT ![e] = Append(@, p.seq)]
  /\ Leave(e, gone, {})
  /\ UNCHANGED <<unreliableSendSequence, receiverVars>>

\* Mutant: the test for a duplicate ACK is missing.
AckIsCurrentOrDuplicate(e, p) == p.seq = sendSequence[e] - 1

\* The two tests an ACK must pass to count.
AckIsCurrent(e, p) ==
  /\ p.seq = sendSequence[e] - 1
  /\ p.seq = ackSequence[e]

\* Stale or duplicate ACK.
IgnoreAck(e, p, gone) ==
  /\ Reads(e, p, gone)
  /\ p.type = "ACK"
  /\ ~AckIsCurrent(e, p)
  /\ Exchange(e, gone, {})
  /\ UNCHANGED <<pc, senderVars, receiverVars, unreliableVars>>

\* The fragment in flight arrived: arrange for the next one, or be done.
ReceiveAck(e, p, gone) ==
  /\ Reads(e, p, gone)
  /\ p.type = "ACK"
  /\ AckIsCurrent(e, p)
  /\ ackSequence' = [ackSequence EXCEPT ![e] = @ + 1]
  /\ sendMessage' = [sendMessage EXCEPT ![e] = AfterFront(@)]
  /\ IF Len(sendMessage[e]) - MAX_DATAGRAM > 0
     THEN /\ sendNext' = [sendNext EXCEPT ![e] = TRUE]
          /\ UNCHANGED canSend
     ELSE /\ canSend' = [canSend EXCEPT ![e] = TRUE]
          /\ UNCHANGED sendNext
  /\ Exchange(e, gone, {})
  /\ UNCHANGED <<pc, sendSequence, expired, sent, receiverVars,
                 unreliableVars>>

\* Mutant: the ACK names the packet expected, not the one that came.
DuplicateDataAcksExpected(e, p, gone) ==
  /\ Reads(e, p, gone)
  /\ p.type = "DATA"
  /\ p.seq # receiveSequence[e]
  /\ Exchange(e, gone, {AckPacket(receiveSequence[e])})
  /\ UNCHANGED <<pc, senderVars, receiverVars, unreliableVars>>

\* Mutant: a duplicate is dropped without an ACK.
DuplicateDataSilent(e, p, gone) ==
  /\ Reads(e, p, gone)
  /\ p.type = "DATA"
  /\ p.seq # receiveSequence[e]
  /\ Exchange(e, gone, {})
  /\ UNCHANGED <<pc, senderVars, receiverVars, unreliableVars>>

\* A duplicate is acknowledged again, in case its first ACK was lost.
DuplicateData(e, p, gone) ==
  /\ Reads(e, p, gone)
  /\ p.type = "DATA"
  /\ p.seq # receiveSequence[e]
  /\ Exchange(e, gone, {AckPacket(p.seq)})
  /\ UNCHANGED <<pc, senderVars, receiverVars, unreliableVars>>

\* A fragment that is not the last is kept for the rest.
ReceiveFragment(e, p, gone) ==
  /\ Reads(e, p, gone)
  /\ p.type = "DATA"
  /\ p.seq = receiveSequence[e]
  /\ ~p.eom
  /\ receiveSequence' = [receiveSequence EXCEPT ![e] = @ + 1]
  /\ receiveMessage' = [receiveMessage EXCEPT ![e] = @ \o p.data]
  /\ Exchange(e, gone, {AckPacket(p.seq)})
  /\ UNCHANGED <<pc, senderVars, delivered, unreliableVars>>

\* Mutant: the fragments of the finished message stay in the buffer.
ReceiveEOMKeepsFragments(e, p, gone) ==
  /\ Reads(e, p, gone)
  /\ p.type = "DATA"
  /\ p.seq = receiveSequence[e]
  /\ p.eom
  /\ receiveSequence' = [receiveSequence EXCEPT ![e] = @ + 1]
  /\ delivered' = [delivered EXCEPT
                     ![e] = Append(@, receiveMessage[e] \o p.data)]
  /\ Leave(e, gone, {AckPacket(p.seq)})
  /\ UNCHANGED <<receiveMessage, unreliableVars>>

\* The last fragment completes the message: ret = 1.
ReceiveEOM(e, p, gone) ==
  /\ Reads(e, p, gone)
  /\ p.type = "DATA"
  /\ p.seq = receiveSequence[e]
  /\ p.eom
  /\ receiveSequence' = [receiveSequence EXCEPT ![e] = @ + 1]
  /\ delivered' = [delivered EXCEPT
                     ![e] = Append(@, receiveMessage[e] \o p.data)]
  /\ receiveMessage' = [receiveMessage EXCEPT ![e] = <<>>]
  /\ Leave(e, gone, {AckPacket(p.seq)})
  /\ UNCHANGED unreliableVars

\* The caller gives the socket up: after an error, a failed send, a timeout
\* or at the user's wish.
Close(e) ==
  /\ pc[e] \in {"idle", "error"}
  /\ pc' = [pc EXCEPT ![e] = "closed"]
  /\ UNCHANGED <<net, senderVars, receiverVars, unreliableVars>>

-----------------------------------------------------------------------------
(* The environment.                                                        *)

\* More than a second passes since the packet in flight was last written.
TimerExpires(e) ==
  /\ ~canSend[e]
  /\ ~expired[e]
  /\ expired' = [expired EXCEPT ![e] = TRUE]
  /\ UNCHANGED <<pc, net, canSend, sendNext, sendMessage, sendSequence,
                 ackSequence, sent, receiverVars, unreliableVars>>

Lose(e, p) ==
  /\ p \in net[e]
  /\ net' = [net EXCEPT ![e] = @ \ {p}]
  /\ UNCHANGED <<pc, senderVars, receiverVars, unreliableVars>>

-----------------------------------------------------------------------------
Init ==
  /\ pc = [e \in Endpoint |-> "idle"]
  /\ net = [e \in Endpoint |-> {}]
  /\ canSend = [e \in Endpoint |-> TRUE]
  /\ sendNext = [e \in Endpoint |-> FALSE]
  /\ sendMessage = [e \in Endpoint |-> <<>>]
  /\ sendSequence = [e \in Endpoint |-> 0]
  /\ ackSequence = [e \in Endpoint |-> 0]
  /\ expired = [e \in Endpoint |-> FALSE]
  /\ receiveSequence = [e \in Endpoint |-> 0]
  /\ receiveMessage = [e \in Endpoint |-> <<>>]
  /\ unreliableSendSequence = [e \in Endpoint |-> 0]
  /\ unreliableReceiveSequence = [e \in Endpoint |-> 0]
  /\ droppedDatagrams = [e \in Endpoint |-> 0]
  /\ sent = [e \in Endpoint |-> <<>>]
  /\ delivered = [e \in Endpoint |-> <<>>]
  /\ received = [e \in Endpoint |-> <<>>]

\* One iteration of the loop that finds packet p.
ReadPacket(e, p, gone) ==
  \/ StaleUnreliable(e, p, gone)
  \/ ReceiveUnreliable(e, p, gone)
  \/ IgnoreAck(e, p, gone)
  \/ ReceiveAck(e, p, gone)
  \/ DuplicateData(e, p, gone)
  \/ ReceiveFragment(e, p, gone)
  \/ ReceiveEOM(e, p, gone)

Next ==
  \E e \in Endpoint :
    \/ \E m \in Message : SendMessage(e, m)
    \/ CanSendMessage(e)
    \/ SendUnreliableMessage(e)
    \/ GetMessage(e)
    \/ ReadNothing(e)
    \/ ReadError(e)
    \/ \E p \in net[e] : \E gone \in {{}, {p}} : ReadPacket(e, p, gone)
    \/ Close(e)
    \/ TimerExpires(e)
    \/ \E p \in net[e] : Lose(e, p)

Spec == Init /\ [][Next]_vars

-----------------------------------------------------------------------------
(* Fairness.  _Host_Frame runs every frame and reads the socket in it      *)
(* (CL_ReadFromServer; SV_RunClients for every client), so an endpoint     *)
(* that has not closed keeps calling GetMessage, and an iteration that     *)
(* finds nothing leaves it; time passes.  Of the network: a packet that is *)
(* put into it again and again is there at some call of GetMessage, and    *)
(* one that is there at call after call is read.  Both are asked only for  *)
(* the packet in flight and its ACK, so other copies may keep coming.      *)

DataInFlight(e) ==
  {p \in net[e] : p.type = "DATA" /\ p.seq = sendSequence[Peer(e)] - 1}
AckInFlight(e) == {p \in net[e] : p.type = "ACK" /\ AckIsCurrent(e, p)}

ReadInFlight(e, packets) ==
  \E p \in packets : \E gone \in {{}, {p}} : ReadPacket(e, p, gone)

Fairness ==
  /\ \A e \in Endpoint :
       /\ WF_vars(GetMessage(e))
       /\ WF_vars(ReadNothing(e))
       /\ WF_vars(TimerExpires(e))
  /\ \A e \in {x \in Endpoint : MaxReliable[x] > 0} :
       /\ SF_vars(DataInFlight(Peer(e)) # {} /\ GetMessage(Peer(e)))
       /\ SF_vars(ReadInFlight(Peer(e), DataInFlight(Peer(e))))
       /\ SF_vars(AckInFlight(e) # {} /\ GetMessage(e))
       /\ SF_vars(ReadInFlight(e, AckInFlight(e)))

FairSpec == Spec /\ Fairness

-----------------------------------------------------------------------------
(* Properties.                                                             *)

SenderTypeOK ==
  /\ canSend \in [Endpoint -> BOOLEAN]
  /\ sendNext \in [Endpoint -> BOOLEAN]
  /\ sendMessage \in [Endpoint -> Seq(Byte)]
  /\ sendSequence \in [Endpoint -> Nat]
  /\ ackSequence \in [Endpoint -> Nat]
  /\ expired \in [Endpoint -> BOOLEAN]
  /\ sent \in [Endpoint -> Seq(Message)]

ReceiverTypeOK ==
  /\ receiveSequence \in [Endpoint -> Nat]
  /\ receiveMessage \in [Endpoint -> Seq(Byte)]
  /\ delivered \in [Endpoint -> Seq(Seq(Byte))]

UnreliableTypeOK ==
  /\ unreliableSendSequence \in [Endpoint -> Nat]
  /\ unreliableReceiveSequence \in [Endpoint -> Nat]
  /\ droppedDatagrams \in [Endpoint -> Nat]
  /\ received \in [Endpoint -> Seq(Nat)]

TypeOK ==
  /\ pc \in [Endpoint -> {"idle", "reading", "error", "closed"}]
  /\ net \in [Endpoint -> SUBSET Packet]
  /\ SenderTypeOK
  /\ ReceiverTypeOK
  /\ UnreliableTypeOK

\* Every reliable message comes out once, in order and whole, and the next
\* is accepted only then: the driver implements ReliableChannel
\* (Datagram_SendMessage, Datagram_GetMessage, ReSendMessage).
Channel == INSTANCE ReliableChannel WITH
  Message <- Message, sent <- sent, delivered <- delivered
ImplementsReliableChannel == Channel!Spec

\* When NET_CanSendMessage says yes, the peer's host already has everything:
\* SV_SendClientMessages and CL_SendCmd overwrite sendMessage on its word.
CanSendMeansDelivered ==
  \A e \in Endpoint : canSend[e] => delivered[Peer(e)] = sent[e]

\* Why that is so: the sender's state in terms of what the peer has, for the
\* transfer from s to Peer(s).  First the numbers: at most one packet is
\* unacknowledged, and at most that one is untaken.
SequenceInv(s) ==
  /\ ackSequence[s] \in {sendSequence[s] - 1, sendSequence[s]}
  /\ receiveSequence[Peer(s)] \in {ackSequence[s], sendSequence[s]}
  /\ ackSequence[s] # sendSequence[s] => ~canSend[s] /\ ~sendNext[s]
  /\ ackSequence[s] = sendSequence[s] => canSend[s] # sendNext[s]
  /\ pc[s] = "idle" => ~sendNext[s]

\* Then the network: a data packet is a copy of the one in flight or older,
\* an ACK is of a packet the peer has taken.
PacketInv(s) ==
  /\ \A p \in net[Peer(s)] : p.type = "DATA" =>
       /\ p.seq < sendSequence[s]
       /\ p.seq = ackSequence[s] => p = FrontPacket(sendMessage[s], p.seq)
  /\ \A p \in net[s] : p.type = "ACK" => p.seq < receiveSequence[Peer(s)]

\* Then the bytes: what the peer has of the message in progress and what the
\* sender has left of it make the message up.
ContentInv(s) ==
  LET r == Peer(s)
      Owes(rest) == sent[s] = Append(delivered[r], receiveMessage[r] \o rest)
      Done == delivered[r] = sent[s] /\ receiveMessage[r] = <<>>
      taken == receiveSequence[r] # ackSequence[s]
      last == IsLastFragment(sendMessage[s])
  IN
  /\ canSend[s] => Done
  /\ ~canSend[s] /\ ~taken => Owes(sendMessage[s])
  /\ ~canSend[s] /\ taken /\ ~last => Owes(AfterFront(sendMessage[s]))
  /\ ~canSend[s] /\ taken /\ last => Done

TransferInv(s) == SequenceInv(s) /\ PacketInv(s) /\ ContentInv(s)
ChannelInv == \A s \in Endpoint : TransferInv(s)

\* An ACK ends the wait for a packet only when the peer has taken that very
\* packet, and then nothing else is outstanding: the driver never comes to
\* print "ack sequencing error".
AckMeansTaken ==
  [][\A e \in Endpoint : ackSequence'[e] # ackSequence[e] =>
       /\ ackSequence'[e] = sendSequence[e]
       /\ receiveSequence[Peer(e)] = sendSequence[e]]_vars

\* The unreliable messages handed out are newer and newer, whatever the
\* network does, and each was sent by the peer.
UnreliableInOrder ==
  \A e \in Endpoint : \A i \in 1..Len(received[e]) :
    /\ received[e][i] < unreliableSendSequence[Peer(e)]
    /\ i > 1 => received[e][i - 1] < received[e][i]

\* The loss counter that "net_stats" prints: every datagram up to the newest
\* was either handed out or counted as dropped, even those that come late.
DroppedAreCounted ==
  \A e \in Endpoint :
    droppedDatagrams[e] + Len(received[e]) = unreliableReceiveSequence[e]

\* A reliable message on its way comes through and frees the sender for the
\* next one, unless one of the two gives the connection up or cannot read.
SenderIsFreed ==
  \A e \in Endpoint :
    ~canSend[e] ~> \/ canSend[e]
                   \/ \E x \in Endpoint : pc[x] \in {"closed", "error"}
=============================================================================
